-------------------------- MODULE DirectoryProofs ---------------------------
(***************************************************************************)
(* Proofs about Directory, for any clients, inums, names and bytes.        *)
(***************************************************************************)
EXTENDS Directory, FiniteSetTheorems, TLAPS

Entry == [inum : Inum, name : Name]

\* What an extent may hold.
Content(i) == IF i \in Dir THEN Seq(Entry) ELSE Seq(Byte)

Extent == Seq(Entry) \union Seq(Byte) \union {None}

Owner == Client \union {NoClient}

FsOK(f) ==
  /\ f \in [owner : [Inum -> Owner], store : [Inum -> Extent], cache : [Inum -> Extent],
            dead : SUBSET Inum]
  /\ \A i \in Inum : /\ f.store[i] \in Content(i) \union {None}
                     /\ f.cache[i] \in Content(i) \union {None}

\* A copy of a directory lists e.
Lists(x, e) == x # None /\ e \in Range(x)

Known(f, d, e) == Lists(f.cache[d], e) \/ Lists(f.store[d], e)

(***************************************************************************)
(* An inum that was not drawn has no extent and no entry.  An inum has one *)
(* entry, in one directory, whichever copies of the directories are read:  *)
(* those in the caches, or the older ones at the server.                   *)
(***************************************************************************)
EntriesOK(f, u) ==
  /\ \A i \in Inum \ u : f.store[i] = None /\ f.cache[i] = None /\ i \notin f.dead
  /\ \A d \in Dir, e \in Entry :
       Known(f, d, e) => e.inum \in u /\ e.inum # Root /\ e.inum # d
  /\ \A d, x \in Dir, e, y \in Entry :
       Known(f, d, e) /\ Known(f, x, y) /\ e.inum = y.inum => d = x /\ e = y

(***************************************************************************)
(* S holds the root, no directory that was removed, and the directories    *)
(* that its directories name; and what they name has an extent.            *)
(***************************************************************************)
Closed(f, S) ==
  /\ Root \in S /\ S \subseteq Dir /\ S \intersect f.dead = {}
  /\ \A d \in S, e \in Entry : Lists(flushed(f, d), e) =>
       flushed(f, e.inum) # None /\ (e.inum \in Dir => e.inum \in S)

(***************************************************************************)
(* What a client does: a call on a name is on a directory that was drawn.  *)
(***************************************************************************)
NameOp(u) == [at : {"getdir", "ilookup", "add_entry", "unlink"},
              h : {"create", "mkdir", "lookup", "unlink"}, i : Dir \intersect u, name : Name]

RemoveOp(u) == [at : {"remove"}, i : Dir \intersect u, name : Name, target : Inum]

GetattrOp == [at : {"getattr"}, i : Inum]

OpOK(o, u) ==
  \/ o.at \in {"start", "idle", "undefined"}
  \/ o \in GetattrOp \/ o \in NameOp(u) \/ o \in RemoveOp(u)

(***************************************************************************)
(* An unlink that waits for its second lock keeps the directory, with the  *)
(* entry it found.                                                         *)
(***************************************************************************)
Finds(f, o) ==
  \E e \in Entry : Lists(f.cache[o.i], e) /\ e.name = o.name /\ e.inum = o.target

Removing(c, o, f, h, l) ==
  o.at = "remove" => h[o.i] = c /\ Has(f, o.i) /\ (l \/ Finds(f, o))

OpsOK ==
  /\ DOMAIN op = Client
  /\ \A c \in Client : OpOK(op[c], used) /\ Removing(c, op[c], fs, held, lost)

(***************************************************************************)
(* The inductive invariant.                                                *)
(***************************************************************************)
DirInv ==
  /\ FsOK(fs) /\ EntriesOK(fs, used)
  /\ held \in [Inum -> Owner] /\ used \subseteq Inum /\ Root \in used
  /\ OpsOK
  /\ lost \/ \E S \in SUBSET Dir : Closed(fs, S)

----------------------------------------------------------------------------
(***************************************************************************)
(* No extent is not an extent, and the empty one is.                       *)
(***************************************************************************)
LEMMA Contents ==
    ASSUME NEW i \in Inum
    PROVE  Content(i) \subseteq Extent /\ None \notin Content(i) /\ <<>> \in Content(i)
BY DirectoryAssumption DEF Content, Extent, Entry, Inum

(***************************************************************************)
(* The position of k among those of K: unlink numbers the entries it keeps *)
(* from 1 on, each of them once.                                           *)
(***************************************************************************)
LEMMA Ranks ==
    ASSUME NEW n \in Nat, NEW K \in SUBSET (1..n),
           NEW r, r = [k \in K |-> Cardinality({x \in K : x <= k})]
    PROVE  /\ IsFiniteSet(K) /\ Cardinality(K) \in Nat
           /\ r \in Surjection(K, 1..Cardinality(K))
           /\ \A k, l \in K : r[k] = r[l] => k = l
<1>1. IsFiniteSet(1..n)
  <2>1. 1 \in Int /\ n \in Int
    OBVIOUS
  <2> QED
    BY <2>1, FS_Interval, Zenon
<1>2. IsFiniteSet(K) /\ Cardinality(K) \in Nat
  BY <1>1, FS_Subset, FS_CardinalityType, Zenon
<1>3. ASSUME NEW k \in K PROVE r[k] \in 1..Cardinality(K)
  <2> DEFINE T == {x \in K : x <= k}
  <2>1. IsFiniteSet(T) /\ Cardinality(T) <= Cardinality(K)
    BY <1>2, FS_Subset, Zenon
  <2>2. Cardinality(T) \in Nat /\ (Cardinality(T) = 0 <=> T = {})
    BY <2>1, FS_CardinalityType, FS_EmptySet, Zenon
  <2>3. k \in T
    OBVIOUS
  <2>4. r[k] = Cardinality(T)
    BY Zenon
  <2> HIDE DEF T
  <2> QED
    BY <2>1, <2>2, <2>3, <2>4, <1>2
<1>4. ASSUME NEW k \in K, NEW l \in K, k < l PROVE r[k] < r[l]
  <2> DEFINE T == {x \in K : x <= k}
  <2> DEFINE U == {x \in K : x <= l}
  <2>1. T \in SUBSET U /\ l \in U /\ l \notin T
    <3>1. K \subseteq Int /\ k < l
      BY <1>4
    <3>2. \A x \in K : x <= k => x <= l
      BY <3>1
    <3>3. l <= l /\ ~(l <= k)
      BY <3>1
    <3> QED
      BY <3>2, <3>3, Zenon
  <2>2. r[k] = Cardinality(T) /\ r[l] = Cardinality(U)
    BY Zenon
  <2>3. U \in SUBSET K
    BY Zenon
  <2> HIDE DEF T, U
  <2>4. IsFiniteSet(U)
    BY <2>3, <1>2, FS_Subset, Zenon
  <2>5. IsFiniteSet(T) /\ Cardinality(T) <= Cardinality(U)
        /\ (Cardinality(U) = Cardinality(T) => U = T)
    BY <2>1, <2>4, FS_Subset, Zenon
  <2>6. Cardinality(T) \in Nat /\ Cardinality(U) \in Nat
    BY <2>4, <2>5, FS_CardinalityType, Zenon
  <2> QED
    BY <2>1, <2>2, <2>5, <2>6
<1>5. \A k, l \in K : r[k] = r[l] => k = l
  <2> SUFFICES ASSUME NEW k \in K, NEW l \in K, r[k] = r[l], k # l PROVE FALSE
    BY Zenon
  <2>1. r[k] \in Nat /\ r[l] \in Nat
    BY <1>3, <1>2
  <2>2. k < l \/ l < k
    OBVIOUS
  <2>3. CASE k < l
    BY <2>3, <2>1, <1>4
  <2>4. CASE l < k
    BY <2>4, <2>1, <1>4
  <2> QED
    BY <2>2, <2>3, <2>4, Zenon
<1>6. r \in Injection(K, 1..Cardinality(K))
  BY <1>3, <1>5, Zenon DEF Injection, IsInjective
<1>7. IsFiniteSet(1..Cardinality(K)) /\ Cardinality(1..Cardinality(K)) = Cardinality(K)
  <2>1. 1 \in Int /\ Cardinality(K) \in Int
    BY <1>2
  <2>2. /\ IsFiniteSet(1..Cardinality(K))
        /\ Cardinality(1..Cardinality(K)) =
             IF 1 > Cardinality(K) THEN 0 ELSE Cardinality(K) - 1 + 1
    BY <2>1, FS_Interval, Zenon
  <2> QED
    BY <2>2, <1>2
<1>8. r \in Surjection(K, 1..Cardinality(K))
  BY <1>6, <1>7, FS_Injection, Zenon
<1> QED
  BY <1>2, <1>5, <1>8, Zenon

(***************************************************************************)
(* The entries that unlink writes back are those at the positions K.       *)
(***************************************************************************)
LEMMA Kept ==
    ASSUME NEW dir \in Seq(Entry), NEW K \in SUBSET DOMAIN dir
    PROVE  kept(dir, K) \in Seq(Entry) /\ Range(kept(dir, K)) = {dir[k] : k \in K}
<1> DEFINE r == [k \in K |-> Cardinality({x \in K : x <= k})]
<1> DEFINE n == Cardinality(K)
<1> DEFINE at(j) == CHOOSE k \in K : Cardinality({x \in K : x <= k}) = j
<1>1. /\ n \in Nat
      /\ \A j \in 1..n : \E k \in K : r[k] = j
      /\ \A k \in K : r[k] \in 1..n
      /\ \A k, l \in K : r[k] = r[l] => k = l
  <2>1. Len(dir) \in Nat /\ K \in SUBSET (1..Len(dir))
    OBVIOUS
  <2>2. /\ n \in Nat /\ r \in Surjection(K, 1..n)
        /\ \A k, l \in K : r[k] = r[l] => k = l
    BY <2>1, Ranks, Zenon
  <2> HIDE DEF r, n
  <2> QED
    BY <2>2, Zenon DEF Surjection
<1>2. kept(dir, K) = [j \in 1..n |-> dir[at(j)]]
  BY Zenon DEF kept
<1> HIDE DEF n
<1>3. ASSUME NEW j \in 1..n PROVE at(j) \in K /\ r[at(j)] = j
  <2>1. \E k \in K : Cardinality({x \in K : x <= k}) = j
    BY <1>1, Zenon
  <2> QED
    BY <2>1, Zenon
<1> HIDE DEF r
<1>4. ASSUME NEW k \in K PROVE at(r[k]) = k
  <2>1. r[k] \in 1..n
    BY <1>1, <1>4, Zenon
  <2>2. at(r[k]) \in K /\ r[at(r[k])] = r[k]
    BY <1>3, <2>1, Zenon
  <2> QED
    BY <1>1, <1>4, <2>2, Zenon
<1> HIDE DEF at
<1>5. \A k \in K : dir[k] \in Entry
  OBVIOUS
<1>6. kept(dir, K) \in Seq(Entry)
  BY <1>1, <1>2, <1>3, <1>5
<1>7. Range(kept(dir, K)) = {dir[at(j)] : j \in 1..n}
  BY <1>2, Zenon DEF Range
<1>8. {dir[at(j)] : j \in 1..n} = {dir[k] : k \in K}
  BY <1>1, <1>3, <1>4
<1> QED
  BY <1>6, <1>7, <1>8, Zenon

(***************************************************************************)
(* unlink drops the entries of the name, and no other.                     *)
(***************************************************************************)
LEMMA Unlinked ==
    ASSUME NEW dir \in Seq(Entry), NEW nm \in Name
    PROVE  /\ unlinked(dir, nm) \in Seq(Entry)
           /\ \A e \in Entry : e \in Range(unlinked(dir, nm)) <=> e \in Range(dir) /\ e.name # nm
<1> DEFINE K == {k \in DOMAIN dir : dir[k].name # nm}
<1>1. K \in SUBSET DOMAIN dir
  BY Zenon
<1>2. unlinked(dir, nm) = kept(dir, K)
  BY Zenon DEF unlinked
<1>3. kept(dir, K) \in Seq(Entry) /\ Range(kept(dir, K)) = {dir[k] : k \in K}
  BY <1>1, Kept, Zenon
<1> QED
  BY <1>2, <1>3, ZenonT(30) DEF Range

(***************************************************************************)
(* A set of positions that is not empty has a first one.                   *)
(***************************************************************************)
LEMMA Least ==
    ASSUME NEW S \in SUBSET Nat, S # {}
    PROVE  \E x \in S : \A y \in S : x <= y
<1> DEFINE R == {p \in Nat \X Nat : p[1] < p[2]}
<1>1. IsWellFoundedOn(R, Nat)
  <2>1. R = OpToRel(<, Nat)
    BY Zenon DEF OpToRel
  <2> QED
    BY <2>1, NatLessThanWellFounded, Zenon
<1>2. PICK x \in S : \A y \in S : ~ (<<y, x>> \in R)
  BY <1>1, WFMin, Zenon
<1>3. ASSUME NEW y \in S PROVE x <= y
  <2>1. <<y, x>> \in Nat \X Nat => ~ <<y, x>>[1] < <<y, x>>[2]
    BY <1>2, Zenon
  <2> QED
    BY <2>1
<1> QED
  BY <1>3, Zenon

(***************************************************************************)
(* ilookup answers with an inum, or 0.                                     *)
(***************************************************************************)
LEMMA IlookupType ==
    ASSUME NEW dir \in Seq(Entry), NEW nm
    PROVE  ilookup(dir, nm) \in Inum \union {0}
<1> DEFINE here == {k \in DOMAIN dir : dir[k].name = nm}
<1> DEFINE first == CHOOSE k \in here : \A j \in here : k <= j
<1>1. CASE here = {}
  BY <1>1, Zenon DEF ilookup
<1>2. CASE here # {}
  <2>1. here \in SUBSET Nat
    OBVIOUS
  <2>2. \E k \in here : \A j \in here : k <= j
    BY <1>2, <2>1, Least, Zenon
  <2>3. first \in here
    BY <2>2, Zenon
  <2>4. ilookup(dir, nm) = dir[first].inum
    BY <1>2, Zenon DEF ilookup
  <2> HIDE DEF first
  <2>5. dir[first] \in Entry
    BY <2>3
  <2> QED
    BY <2>4, <2>5, Zenon DEF Entry
<1> QED
  BY <1>1, <1>2, Zenon

(***************************************************************************)
(* A write to a file, and a change of its size, make a sequence of bytes.  *)
(***************************************************************************)
LEMMA Resize ==
    ASSUME NEW buf \in Seq(Byte), NEW n \in Nat
    PROVE  resize(buf, n) \in Seq(Byte) /\ Resized(buf, resize(buf, n))
           /\ Len(resize(buf, n)) = n
BY DirectoryAssumption DEF resize, Resized

(***************************************************************************)
(* A write of one byte changes that byte, fills the gap before it with     *)
(* zeros and leaves the others.                                            *)
(***************************************************************************)
LEMMA Written ==
    ASSUME NEW buf \in Seq(Byte), NEW b \in Byte, NEW off \in Nat
    PROVE  /\ written(buf, <<b>>, off) \in Seq(Byte)
           /\ Overwritten(buf, written(buf, <<b>>, off), <<b>>, off)
<1> DEFINE end == off + 1
<1> DEFINE w == IF end > Len(buf) THEN resize(buf, end) ELSE buf
<1> DEFINE n == IF end > Len(buf) THEN end ELSE Len(buf)
<1>1. Len(<<b>>) = 1 /\ <<b>>[1] = b
  BY Zenon
<1>2. written(buf, <<b>>, off)
        = [i \in DOMAIN w |-> IF i \in (off + 1)..end THEN <<b>>[i - off] ELSE w[i]]
  BY <1>1, Zenon DEF written
<1>3. end \in Nat /\ Len(buf) \in Nat /\ n \in Nat
  OBVIOUS
<1>4. /\ w \in Seq(Byte) /\ Len(w) = n
      /\ \A i \in 1..n : w[i] = IF i <= Len(buf) THEN buf[i] ELSE 0
  <2>1. CASE end > Len(buf)
    <3>1. /\ resize(buf, end) \in Seq(Byte) /\ Resized(buf, resize(buf, end))
          /\ Len(resize(buf, end)) = end
      BY <1>3, Resize, Zenon
    <3>2. w = resize(buf, end) /\ n = end
      BY <2>1, Zenon
    <3> QED
      BY <3>1, <3>2, <1>3 DEF Resized
  <2>2. CASE ~(end > Len(buf))
    BY <2>2, <1>3
  <2> QED
    BY <2>1, <2>2, Zenon
<1>5. PICK v : v = w
  BY Zenon
<1>6. \A i \in 1..n : v[i] \in Byte
  BY <1>4, <1>5, <1>3
<1>7. DOMAIN v = 1..n
  BY <1>4, <1>5, <1>3
<1>8. written(buf, <<b>>, off) = [i \in 1..n |-> IF i = end THEN b ELSE v[i]]
  BY <1>1, <1>2, <1>5, <1>7, <1>3, SMTT(30)
<1> HIDE DEF w, n
<1>9. written(buf, <<b>>, off) \in Seq(Byte)
  BY <1>8, <1>6, <1>3
<1>10. Len(written(buf, <<b>>, off)) = n
  BY <1>8, <1>3, <1>9
<1> QED
  BY <1>1, <1>3, <1>4, <1>5, <1>8, <1>9, <1>10, SMTT(30) DEF Overwritten, n

----------------------------------------------------------------------------
(***************************************************************************)
(* g comes from f by locking and reading: what the next client sees is     *)
(* what it saw, except that an extent that was removed may be there again; *)
(* and every copy is a copy that there was.                                *)
(***************************************************************************)
Copies(f, g) ==
  \A j \in Inum : /\ g.cache[j] \in {None, f.cache[j], f.store[j]}
                  /\ g.store[j] \in {None, f.cache[j], f.store[j]}

Sees(f, g) ==
  \A j \in Inum : flushed(g, j) = flushed(f, j) \/ (j \in f.dead /\ flushed(f, j) = None)

Reading(f, g) == FsOK(g) /\ g.dead \subseteq f.dead /\ Copies(f, g) /\ Sees(f, g)

(***************************************************************************)
(* What the next client sees is nothing, or a content of the right kind.   *)
(***************************************************************************)
LEMMA FlushedType ==
    ASSUME NEW f, FsOK(f), NEW i \in Inum
    PROVE  flushed(f, i) \in Content(i) \union {None}
BY Zenon DEF FsOK, flushed, Has

(***************************************************************************)
(* The lock of i goes to c, and the dirty extent back to the server.       *)
(***************************************************************************)
LEMMA AcquireReads ==
    ASSUME NEW f, FsOK(f), NEW c \in Client, NEW i \in Inum
    PROVE  /\ Reading(f, acquire(f, c, i))
           /\ \A j \in Inum \ {i} : acquire(f, c, i).cache[j] = f.cache[j]
<1>1. CASE f.owner[i] = c
  BY <1>1, Zenon DEF acquire, Reading, Copies, Sees, FsOK
<1>2. CASE f.owner[i] # c
  <2>1. PICK v : v = flushed(f, i)
    BY Zenon
  <2>2. v \in Content(i) \union {None} /\ v \in Extent
    BY <2>1, FlushedType, Contents, Zenon DEF Extent
  <2>3. PICK g : g = [f EXCEPT !.owner[i] = c, !.store[i] = v, !.cache[i] = None,
                               !.dead = @ \ {i}]
    BY Zenon
  <2>4. acquire(f, c, i) = g
    BY <1>2, <2>1, <2>3, Zenon DEF acquire
  <2>5. /\ g.owner = [f.owner EXCEPT ![i] = c] /\ g.store = [f.store EXCEPT ![i] = v]
        /\ g.cache = [f.cache EXCEPT ![i] = None] /\ g.dead = f.dead \ {i}
        /\ g \in [owner : [Inum -> Owner], store : [Inum -> Extent], cache : [Inum -> Extent],
                  dead : SUBSET Inum]
    BY <2>2, <2>3, Zenon DEF FsOK, Owner, Extent
  <2>6. FsOK(g)
    BY <2>2, <2>5 DEF FsOK
  <2>7. /\ \A j \in Inum \ {i} : g.cache[j] = f.cache[j] /\ g.store[j] = f.store[j]
        /\ g.cache[i] = None /\ g.store[i] = v
    BY <2>5 DEF FsOK
  <2>8. v \in {None, f.cache[i], f.store[i]}
    BY <2>1, Zenon DEF flushed
  <2>9. Copies(f, g)
    BY <2>7, <2>8, Zenon DEF Copies
  <2>10. \A j \in Inum : flushed(g, j) = flushed(f, j)
    BY <2>1, <2>5, <2>7 DEF flushed, Has
  <2> QED
    BY <2>4, <2>5, <2>6, <2>7, <2>9, <2>10 DEF Reading, Sees
<1> QED
  BY <1>1, <1>2, Zenon

(***************************************************************************)
(* A read of i fetches the extent; if it finds none there is none.         *)
(***************************************************************************)
LEMMA GetReads ==
    ASSUME NEW f, FsOK(f), NEW i \in Inum
    PROVE  /\ Reading(f, get(f, i))
           /\ \A j \in Inum \ {i} : get(f, i).cache[j] = f.cache[j]
           /\ ~Has(get(f, i), i) => flushed(get(f, i), i) = None
<1>1. CASE Has(f, i) \/ f.store[i] = None
  BY <1>1 DEF get, Reading, Copies, Sees, FsOK, flushed
<1>2. CASE ~(Has(f, i) \/ f.store[i] = None)
  <2>1. PICK v : v = f.store[i]
    BY Zenon
  <2>2. v \in Content(i) /\ v \in Extent /\ v # None
    BY <1>2, <2>1, Contents, Zenon DEF Extent, FsOK
  <2>3. PICK g : g = [f EXCEPT !.cache[i] = v, !.dead = @ \ {i}]
    BY Zenon
  <2>4. get(f, i) = g
    BY <1>2, <2>1, <2>3, Zenon DEF get
  <2>5. /\ g.owner = f.owner /\ g.store = f.store
        /\ g.cache = [f.cache EXCEPT ![i] = v] /\ g.dead = f.dead \ {i}
        /\ g \in [owner : [Inum -> Owner], store : [Inum -> Extent], cache : [Inum -> Extent],
                  dead : SUBSET Inum]
    BY <2>2, <2>3, Zenon DEF FsOK
  <2>6. FsOK(g)
    BY <2>2, <2>5 DEF FsOK
  <2>7. /\ \A j \in Inum \ {i} : g.cache[j] = f.cache[j] /\ g.store[j] = f.store[j]
        /\ g.cache[i] = v /\ g.store[i] = f.store[i]
    BY <2>5 DEF FsOK
  <2>8. Copies(f, g)
    BY <2>1, <2>7, Zenon DEF Copies
  <2>9. Sees(f, g)
    BY <1>2, <2>1, <2>2, <2>5, <2>7 DEF Sees, flushed, Has
  <2>10. Has(g, i)
    BY <2>2, <2>7, Zenon DEF Has
  <2> QED
    BY <2>4, <2>5, <2>6, <2>7, <2>8, <2>9, <2>10, Zenon DEF Reading
<1> QED
  BY <1>1, <1>2, Zenon

(***************************************************************************)
(* Locking and reading twice is locking and reading.                       *)
(***************************************************************************)
LEMMA ReadingTwice ==
    ASSUME NEW f, NEW g, NEW h, Reading(f, g), Reading(g, h)
    PROVE  Reading(f, h)
<1>1. Copies(f, h)
  BY Zenon DEF Reading, Copies
<1>2. Sees(f, h)
  BY Zenon DEF Reading, Sees
<1> QED
  BY <1>1, <1>2, Zenon DEF Reading

(***************************************************************************)
(* The beginning of a call: the lock of i, and a read of its extent.       *)
(***************************************************************************)
LEMMA OpenedReads ==
    ASSUME FsOK(fs), NEW c \in Client, NEW i \in Inum
    PROVE  /\ Reading(fs, Opened(c, i))
           /\ \A j \in Inum \ {i} : Opened(c, i).cache[j] = fs.cache[j]
           /\ ~Has(Opened(c, i), i) => flushed(Opened(c, i), i) = None
<1>1. PICK g : g = acquire(fs, c, i)
  BY Zenon
<1>2. Reading(fs, g) /\ \A j \in Inum \ {i} : g.cache[j] = fs.cache[j]
  BY <1>1, AcquireReads
<1>3. FsOK(g)
  BY <1>2, Zenon DEF Reading
<1>4. PICK h : h = get(g, i)
  BY Zenon
<1>5. /\ Reading(g, h) /\ \A j \in Inum \ {i} : h.cache[j] = g.cache[j]
      /\ ~Has(h, i) => flushed(h, i) = None
  BY <1>3, <1>4, GetReads, Zenon
<1>6. Reading(fs, h)
  BY <1>2, <1>5, ReadingTwice, Zenon
<1>7. Opened(c, i) = h
  BY <1>1, <1>4, Zenon DEF Opened
<1> QED
  BY <1>2, <1>5, <1>6, <1>7, Zenon

(***************************************************************************)
(* An entry known after locking and reading was known.                     *)
(***************************************************************************)
LEMMA ReadingKnows ==
    ASSUME NEW f, NEW g, Copies(f, g), NEW d \in Dir, NEW e, Known(g, d, e)
    PROVE  Known(f, d, e)
<1>1. /\ g.cache[d] \in {None, f.cache[d], f.store[d]}
      /\ g.store[d] \in {None, f.cache[d], f.store[d]}
  BY Zenon DEF Copies, Inum
<1> QED
  BY <1>1, Zenon DEF Known, Lists

(***************************************************************************)
(* Locking and reading leaves the entries as they were.                    *)
(***************************************************************************)
LEMMA ReadingKeeps ==
    ASSUME NEW f, NEW g, NEW u, Reading(f, g), EntriesOK(f, u)
    PROVE  EntriesOK(g, u)
<1>1. \A d \in Dir, e \in Entry : Known(g, d, e) => Known(f, d, e)
  BY ReadingKnows, Zenon DEF Reading
<1>2. \A i \in Inum \ u : g.store[i] = None /\ g.cache[i] = None /\ i \notin g.dead
  BY Zenon DEF Reading, Copies, EntriesOK
<1> QED
  BY <1>1, <1>2 DEF EntriesOK

(***************************************************************************)
(* Locking and reading leaves what can be reached as it was.               *)
(***************************************************************************)
LEMMA ReadingClosed ==
    ASSUME NEW f, NEW g, NEW S, Reading(f, g), Closed(f, S)
    PROVE  Closed(g, S)
<1>1. \A d \in S : flushed(g, d) = flushed(f, d)
  BY Zenon DEF Reading, Sees, Closed, Inum
<1>2. \A i \in Inum : flushed(f, i) # None => flushed(g, i) # None
  BY Zenon DEF Reading, Sees
<1>3. \A e \in Entry : e.inum \in Inum
  BY Zenon DEF Entry
<1>4. S \intersect g.dead = {}
  BY Zenon DEF Reading, Closed
<1> QED
  BY <1>1, <1>2, <1>3, <1>4, Zenon DEF Closed

(***************************************************************************)
(* A put replaces the content of i for the next client, and nothing else.  *)
(***************************************************************************)
LEMMA PutFacts ==
    ASSUME NEW f, FsOK(f), NEW i \in Inum, NEW v \in Content(i)
    PROVE  /\ FsOK(put(f, i, v)) /\ put(f, i, v).dead = f.dead \ {i}
           /\ put(f, i, v).cache[i] = v /\ put(f, i, v).store = f.store
           /\ \A j \in Inum \ {i} : put(f, i, v).cache[j] = f.cache[j]
           /\ flushed(put(f, i, v), i) = v
           /\ \A j \in Inum \ {i} : flushed(put(f, i, v), j) = flushed(f, j)
<1>1. v \in Extent /\ v # None
  BY Contents, Zenon
<1>2. PICK g : g = [f EXCEPT !.cache[i] = v, !.dead = @ \ {i}]
  BY Zenon
<1>3. put(f, i, v) = g
  BY <1>2, Zenon DEF put
<1>4. /\ g.owner = f.owner /\ g.store = f.store
      /\ g.cache = [f.cache EXCEPT ![i] = v] /\ g.dead = f.dead \ {i}
      /\ g \in [owner : [Inum -> Owner], store : [Inum -> Extent], cache : [Inum -> Extent],
                dead : SUBSET Inum]
  BY <1>1, <1>2, Zenon DEF FsOK
<1>5. FsOK(g)
  BY <1>4, Zenon DEF FsOK
<1>6. g.cache[i] = v /\ \A j \in Inum \ {i} : g.cache[j] = f.cache[j]
  BY <1>4 DEF FsOK
<1>7. flushed(g, i) = v
  BY <1>1, <1>6, Zenon DEF flushed, Has
<1>8. \A j \in Inum \ {i} : flushed(g, j) = flushed(f, j)
  BY <1>4, <1>6, Zenon DEF flushed, Has
<1> QED
  BY <1>3, <1>4, <1>5, <1>6, <1>7, <1>8, Zenon

(***************************************************************************)
(* A removal of i takes its content away, and leaves the others.           *)
(***************************************************************************)
LEMMA RemoveFacts ==
    ASSUME NEW f, FsOK(f), NEW i \in Inum
    PROVE  /\ FsOK(remove(f, i)) /\ remove(f, i).store = f.store
           /\ remove(f, i).dead \subseteq f.dead \union {i}
           /\ ~Has(f, i) => remove(f, i) = f
           /\ \A j \in Inum : remove(f, i).cache[j] \in {None, f.cache[j]}
           /\ \A j \in Inum \ {i} : /\ remove(f, i).cache[j] = f.cache[j]
                                    /\ flushed(remove(f, i), j) = flushed(f, j)
           /\ flushed(remove(f, i), i) \in {None, flushed(f, i)}
<1>1. CASE ~Has(f, i)
  BY <1>1, Zenon DEF remove
<1>2. CASE Has(f, i)
  <2>1. PICK g : g = [f EXCEPT !.cache[i] = None, !.dead = @ \union {i}]
    BY Zenon
  <2>2. remove(f, i) = g
    BY <1>2, <2>1, Zenon DEF remove
  <2>3. /\ g.owner = f.owner /\ g.store = f.store
        /\ g.cache = [f.cache EXCEPT ![i] = None] /\ g.dead = f.dead \union {i}
        /\ g \in [owner : [Inum -> Owner], store : [Inum -> Extent], cache : [Inum -> Extent],
                  dead : SUBSET Inum]
    BY <2>1, Zenon DEF FsOK, Extent
  <2>4. FsOK(g)
    BY <2>3, Zenon DEF FsOK
  <2>5. g.cache[i] = None /\ \A j \in Inum \ {i} : g.cache[j] = f.cache[j]
    BY <2>3, Zenon DEF FsOK
  <2>6. /\ flushed(g, i) = None
        /\ \A j \in Inum \ {i} : flushed(g, j) = flushed(f, j)
    BY <2>3, <2>5, Zenon DEF flushed, Has
  <2> QED
    BY <1>2, <2>2, <2>3, <2>4, <2>5, <2>6, Zenon
<1> QED
  BY <1>1, <1>2, Zenon

----------------------------------------------------------------------------
(***************************************************************************)
(* The empty sequence lists no entry.                                      *)
(***************************************************************************)
LEMMA EmptyLists == \A e : ~Lists(<<>>, e)
BY DEF Lists, Range

(***************************************************************************)
(* A put to a file, or of an empty directory, makes no entry.              *)
(***************************************************************************)
LEMMA PutEntries ==
    ASSUME NEW f, FsOK(f), NEW u, EntriesOK(f, u), NEW i \in Inum \intersect u,
           NEW v \in Content(i), i \in Dir => v = <<>>
    PROVE  /\ EntriesOK(put(f, i, v), u)
           /\ \A S : Closed(f, S) => Closed(put(f, i, v), S)
<1>1. PICK g : g = put(f, i, v)
  BY Zenon
<1>2. /\ g.dead = f.dead \ {i} /\ g.cache[i] = v /\ g.store = f.store
      /\ \A j \in Inum \ {i} : g.cache[j] = f.cache[j]
      /\ flushed(g, i) = v
      /\ \A j \in Inum \ {i} : flushed(g, j) = flushed(f, j)
  BY <1>1, PutFacts
<1>3. v # None
  BY Contents, Zenon
<1>4. ASSUME NEW d \in Dir, NEW e \in Entry, Known(g, d, e) PROVE Known(f, d, e)
  <2>1. d \in Inum
    BY Zenon DEF Inum
  <2> QED
    BY <2>1, <1>4, <1>2, EmptyLists, Zenon DEF Known
<1>5. \A j \in Inum \ u : g.store[j] = None /\ g.cache[j] = None /\ j \notin g.dead
  BY <1>2, Zenon DEF EntriesOK
<1>6. EntriesOK(g, u)
  BY <1>4, <1>5, SMTT(30) DEF EntriesOK
<1>7. ASSUME NEW S, Closed(f, S) PROVE Closed(g, S)
  <2>1. ASSUME NEW d \in S, NEW e \in Entry, Lists(flushed(g, d), e)
        PROVE  flushed(g, e.inum) # None /\ (e.inum \in Dir => e.inum \in S)
    <3>1. d \in Dir /\ d \in Inum /\ e.inum \in Inum
      BY <1>7, Zenon DEF Closed, Inum, Entry
    <3>2. d # i
      BY <2>1, <3>1, <1>2, EmptyLists, Zenon
    <3>3. Lists(flushed(f, d), e)
      BY <2>1, <3>1, <3>2, <1>2, Zenon
    <3> QED
      BY <1>7, <1>2, <1>3, <3>1, <3>3, Zenon DEF Closed
  <2> QED
    BY <1>7, <1>2, <2>1, Zenon DEF Closed
<1> QED
  BY <1>1, <1>6, <1>7, Zenon

(***************************************************************************)
(* What the creation of name nm in d, with the new inum i, makes of the    *)
(* extents.                                                                *)
(***************************************************************************)
AddsTo(f, g, d, nm, i) ==
  /\ FsOK(g) /\ g.dead \subseteq f.dead
  /\ g.store = f.store
  /\ g.cache[d] = Append(f.cache[d], [inum |-> i, name |-> nm]) /\ g.cache[i] = <<>>
  /\ flushed(g, d) = g.cache[d] /\ flushed(g, i) = <<>>
  /\ \A j \in Inum \ {d, i} : g.cache[j] = f.cache[j] /\ flushed(g, j) = flushed(f, j)

(***************************************************************************)
(* add_entry_to_filesystem appends to the directory and puts an empty      *)
(* extent.                                                                 *)
(***************************************************************************)
LEMMA AddedFacts ==
    ASSUME NEW f, FsOK(f), NEW d \in Dir, Has(f, d), NEW nm \in Name, NEW i \in Inum, i # d
    PROVE  AddsTo(f, added(f, d, nm, i), d, nm, i)
<1>1. PICK v : v = Append(f.cache[d], [inum |-> i, name |-> nm])
  BY Zenon
<1>2. d \in Inum /\ Content(d) = Seq(Entry)
  BY Zenon DEF Inum, Content
<1>3. v \in Content(d)
  <2>1. f.cache[d] \in Seq(Entry)
    BY <1>2, Zenon DEF FsOK, Has
  <2>2. [inum |-> i, name |-> nm] \in Entry
    BY Zenon DEF Entry
  <2> QED
    BY <1>1, <1>2, <2>1, <2>2
<1>4. PICK g : g = put(f, d, v)
  BY SMTT(30)
<1>5. /\ FsOK(g) /\ g.dead = f.dead \ {d} /\ g.cache[d] = v /\ g.store = f.store
      /\ \A j \in Inum \ {d} : g.cache[j] = f.cache[j]
      /\ flushed(g, d) = v
      /\ \A j \in Inum \ {d} : flushed(g, j) = flushed(f, j)
  BY <1>2, <1>3, <1>4, PutFacts
<1>6. <<>> \in Content(i)
  BY Contents, Zenon
<1>7. PICK h : h = put(g, i, <<>>)
  BY SMTT(30)
<1>8. /\ FsOK(h) /\ h.dead = g.dead \ {i} /\ h.cache[i] = <<>> /\ h.store = g.store
      /\ \A j \in Inum \ {i} : h.cache[j] = g.cache[j]
      /\ flushed(h, i) = <<>>
      /\ \A j \in Inum \ {i} : flushed(h, j) = flushed(g, j)
  BY <1>5, <1>6, <1>7, PutFacts
<1>9. added(f, d, nm, i) = h
  BY <1>1, <1>4, <1>7, Zenon DEF added
<1> QED
  BY <1>1, <1>2, <1>5, <1>8, <1>9, ZenonT(30) DEF AddsTo

(***************************************************************************)
(* An append adds one entry.                                               *)
(***************************************************************************)
LEMMA AppendRange ==
    ASSUME NEW s \in Seq(Entry), NEW y \in Entry
    PROVE  Range(Append(s, y)) = Range(s) \union {y}
<1>1. PICK t : t = Append(s, y)
  BY Zenon
<1>2. /\ DOMAIN s = 1..Len(s) /\ Len(s) \in Nat /\ DOMAIN t = 1..(Len(s) + 1)
      /\ \A k \in 1..Len(s) : t[k] = s[k]
      /\ t[Len(s) + 1] = y
  BY <1>1
<1>3. ASSUME NEW k \in DOMAIN t PROVE t[k] \in Range(s) \union {y}
  BY <1>2 DEF Range
<1>4. ASSUME NEW k \in DOMAIN s PROVE s[k] \in Range(t)
  <2>1. k \in DOMAIN t /\ t[k] = s[k]
    BY <1>2
  <2> QED
    BY <2>1, Zenon DEF Range
<1>5. y \in Range(t)
  <2>1. Len(s) + 1 \in DOMAIN t
    BY <1>2
  <2> QED
    BY <1>2, <2>1, Zenon DEF Range
<1> QED
  BY <1>1, <1>3, <1>4, <1>5, SMTT(30) DEF Range

(***************************************************************************)
(* What is listed after an entry is appended.                              *)
(***************************************************************************)
LEMMA AppendLists ==
    ASSUME NEW s \in Seq(Entry), NEW y \in Entry, NEW e, Lists(Append(s, y), e)
    PROVE  e = y \/ Lists(s, e)
<1>1. s # None
  BY DirectoryAssumption, Zenon DEF Entry, Inum
<1> QED
  BY <1>1 DEF Lists, Range

(***************************************************************************)
(* The new entry is the only one of its inum, and has an extent.           *)
(***************************************************************************)
LEMMA AddedEntries ==
    ASSUME NEW f, FsOK(f), NEW u, EntriesOK(f, u), Root \in u, NEW d \in Dir \intersect u,
           Has(f, d), NEW nm \in Name, NEW i \in Inum \ u, NEW g, AddsTo(f, g, d, nm, i)
    PROVE  /\ EntriesOK(g, u \union {i})
           /\ \A S : Closed(f, S) => Closed(g, S \union ({i} \intersect Dir))
<1>1. PICK y : y = [inum |-> i, name |-> nm]
  BY Zenon
<1>2. y \in Entry /\ y.inum = i
  BY <1>1, Zenon DEF Entry
<1>3. d \in Inum /\ d # i /\ i # Root
  BY Zenon DEF Inum
<1>4. f.cache[d] \in Seq(Entry) /\ f.cache[d] # None /\ flushed(f, d) = f.cache[d]
  BY <1>3, Zenon DEF FsOK, Has, Content, flushed
<1>A. \A e : Lists(g.cache[d], e) => e = y \/ Lists(f.cache[d], e)
  <2>1. g.cache[d] = Append(f.cache[d], y)
    BY <1>1, Zenon DEF AddsTo
  <2>2. \A e : Lists(Append(f.cache[d], y), e) => e = y \/ Lists(f.cache[d], e)
    BY <1>2, <1>4, AppendLists, Zenon
  <2> QED
    BY <2>1, <2>2, Zenon
<1>5. ASSUME NEW x \in Dir, NEW e \in Entry, Known(g, x, e)
      PROVE  Known(f, x, e) \/ (x = d /\ e = y)
  <2>1. CASE x = d
    BY <2>1, <1>5, <1>A, ZenonT(30) DEF AddsTo, Known
  <2>2. CASE x = i
    BY <2>2, <1>5, EmptyLists, Zenon DEF AddsTo, Known
  <2>3. CASE x \notin {d, i}
    <3>1. x \in Inum
      BY SMTT(30) DEF Inum
    <3> QED
      BY <2>3, <3>1, <1>5, Zenon DEF AddsTo, Known
  <2> QED
    BY <2>1, <2>2, <2>3, Zenon
<1>6. \A j \in Inum \ (u \union {i}) : g.store[j] = None /\ g.cache[j] = None /\ j \notin g.dead
  BY Zenon DEF EntriesOK, AddsTo
<1>7. \A x \in Dir, e \in Entry : Known(f, x, e) => e.inum \in u /\ e.inum # Root /\ e.inum # x
  BY Zenon DEF EntriesOK
<1>8. \A x \in Dir, e \in Entry : Known(g, x, e) =>
        e.inum \in u \union {i} /\ e.inum # Root /\ e.inum # x
  BY <1>2, <1>3, <1>5, <1>7, Zenon
<1>9. ASSUME NEW x \in Dir, NEW z \in Dir, NEW e \in Entry, NEW e2 \in Entry,
             Known(g, x, e), Known(g, z, e2), e.inum = e2.inum
      PROVE  x = z /\ e = e2
  <2>1. Known(f, x, e) \/ (x = d /\ e = y)
    BY <1>5, <1>9, Zenon
  <2>2. Known(f, z, e2) \/ (z = d /\ e2 = y)
    BY <1>5, <1>9, Zenon
  <2>3. CASE Known(f, x, e) /\ Known(f, z, e2)
    BY <2>3, <1>9, Zenon DEF EntriesOK
  <2> QED
    BY <2>1, <2>2, <2>3, <1>2, <1>7, <1>9, Zenon
<1>10. EntriesOK(g, u \union {i})
  BY <1>6, <1>8, <1>9, SMTT(30) DEF EntriesOK
<1>11. ASSUME NEW S, Closed(f, S) PROVE Closed(g, S \union ({i} \intersect Dir))
  <2> DEFINE T == S \union ({i} \intersect Dir)
  <2>1. i \notin g.dead
    BY SMTT(30) DEF AddsTo, EntriesOK
  <2>2. Root \in T /\ T \subseteq Dir /\ T \intersect g.dead = {}
    BY <1>11, <2>1 DEF AddsTo, Closed
  <2>3. ASSUME NEW x \in T, NEW e \in Entry, Lists(flushed(g, x), e)
        PROVE  flushed(g, e.inum) # None /\ (e.inum \in Dir => e.inum \in T)
    <3>1. x \in Inum /\ x # i /\ x \in S
      BY <2>3, <2>2, EmptyLists, SMTT(30) DEF AddsTo, Inum
    <3>2. CASE x = d /\ e = y
      <4>1. <<>> # None
        BY Contents, Zenon
      <4> QED
        BY <3>2, <4>1, <1>2, Zenon DEF AddsTo
    <3>3. CASE ~(x = d /\ e = y)
      <4>1. Lists(flushed(f, x), e)
        <5>1. CASE x = d
          BY <5>1, <3>3, <2>3, <1>4, <1>A, Zenon DEF AddsTo
        <5>2. CASE x # d
          BY <5>2, <3>1, <2>3, Zenon DEF AddsTo
        <5> QED
          BY <5>1, <5>2, Zenon
      <4>2. flushed(f, e.inum) # None /\ (e.inum \in Dir => e.inum \in S)
        BY <3>1, <4>1, <1>11, Zenon DEF Closed
      <4>3. e.inum \in Inum
        BY Zenon DEF Entry
      <4>4. <<>> # None
        BY Contents, Zenon
      <4>5. Append(f.cache[d], y) \in Seq(Entry)
        BY <1>2, <1>4
      <4>6. Append(f.cache[d], y) # None
        BY <4>5, DirectoryAssumption, Zenon DEF Entry, Inum
      <4> QED
        BY <4>2, <4>3, <4>4, <4>6, <1>1, Zenon DEF AddsTo
    <3> QED
      BY <3>2, <3>3, Zenon
  <2> QED
    BY <2>2, <2>3, Zenon DEF Closed
<1> QED
  BY <1>10, <1>11, Zenon

(***************************************************************************)
(* What the second half of an unlink of nm in d, which removes t, makes of *)
(* the extents.                                                            *)
(***************************************************************************)
TakesFrom(f, g, d, nm, t) ==
  /\ FsOK(g) /\ g.dead \subseteq f.dead \union {t}
  /\ t \in g.dead => t \in f.dead \/ Has(f, t)
  /\ g.store = f.store
  /\ g.cache[d] = unlinked(f.cache[d], nm) /\ flushed(g, d) = g.cache[d]
  /\ g.cache[t] \in {None, f.cache[t]} /\ flushed(g, t) \in {None, flushed(f, t)}
  /\ \A j \in Inum \ {d, t} : g.cache[j] = f.cache[j] /\ flushed(g, j) = flushed(f, j)

(***************************************************************************)
(* unlink puts the directory without the name and removes the extent.      *)
(***************************************************************************)
LEMMA RemovedFacts ==
    ASSUME NEW f, FsOK(f), NEW d \in Dir, Has(f, d), NEW nm \in Name, NEW t \in Inum, t # d
    PROVE  TakesFrom(f, remove(put(f, d, unlinked(f.cache[d], nm)), t), d, nm, t)
<1>1. PICK v : v = unlinked(f.cache[d], nm)
  BY Zenon
<1>2. d \in Inum /\ Content(d) = Seq(Entry)
  BY Zenon DEF Inum, Content
<1>3. v \in Content(d)
  <2>1. f.cache[d] \in Seq(Entry)
    BY <1>2, Zenon DEF FsOK, Has
  <2> QED
    BY <1>1, <1>2, <2>1, Unlinked, Zenon
<1>4. PICK g : g = put(f, d, v)
  OBVIOUS
<1>5. /\ FsOK(g) /\ g.dead = f.dead \ {d} /\ g.cache[d] = v /\ g.store = f.store
      /\ \A j \in Inum \ {d} : g.cache[j] = f.cache[j]
      /\ flushed(g, d) = v
      /\ \A j \in Inum \ {d} : flushed(g, j) = flushed(f, j)
  BY <1>2, <1>3, <1>4, PutFacts
<1>6. PICK h : h = remove(g, t)
  BY SMTT(30)
<1>7. /\ FsOK(h) /\ h.store = g.store /\ h.dead \subseteq g.dead \union {t}
      /\ ~Has(g, t) => h = g
      /\ \A j \in Inum : h.cache[j] \in {None, g.cache[j]}
      /\ \A j \in Inum \ {t} : h.cache[j] = g.cache[j] /\ flushed(h, j) = flushed(g, j)
      /\ flushed(h, t) \in {None, flushed(g, t)}
  BY <1>5, <1>6, RemoveFacts, SMTT(30)
<1>8. t \in h.dead => t \in f.dead \/ Has(f, t)
  BY <1>5, <1>7, Zenon DEF Has
<1> QED
  BY <1>1, <1>2, <1>4, <1>5, <1>6, <1>7, <1>8, ZenonT(30) DEF TakesFrom

(***************************************************************************)
(* Its entry gone, nothing that can be reached leads to what was removed.  *)
(***************************************************************************)
LEMMA RemovedEntries ==
    ASSUME NEW f, FsOK(f), NEW u, EntriesOK(f, u), NEW d \in Dir \intersect u, Has(f, d),
           NEW nm \in Name, NEW t \in Inum, t # d, NEW g, TakesFrom(f, g, d, nm, t)
    PROVE  /\ EntriesOK(g, u)
           /\ \A S, y : Closed(f, S) /\ y \in Entry /\ Lists(f.cache[d], y) /\ y.name = nm
                /\ y.inum = t => Closed(g, S \ {t})
<1>1. d \in Inum /\ f.cache[d] \in Seq(Entry) /\ f.cache[d] # None
      /\ flushed(f, d) = f.cache[d]
  BY Zenon DEF FsOK, Has, Content, flushed, Inum
<1>2. /\ unlinked(f.cache[d], nm) \in Seq(Entry)
      /\ \A e \in Entry : e \in Range(unlinked(f.cache[d], nm))
                            <=> e \in Range(f.cache[d]) /\ e.name # nm
  BY <1>1, Unlinked, Zenon
<1>3. unlinked(f.cache[d], nm) # None
  BY <1>2, DirectoryAssumption, Zenon DEF Entry, Inum
<1>4. ASSUME NEW x \in Dir, NEW e \in Entry, Known(g, x, e) PROVE Known(f, x, e)
  <2>1. CASE x = d
    BY <2>1, <1>4, <1>1, <1>2, Zenon DEF TakesFrom, Known, Lists
  <2>2. CASE x = t
    BY <2>2, <1>4, Zenon DEF TakesFrom, Known, Lists
  <2>3. CASE x \notin {d, t}
    <3>1. x \in Inum
      BY Zenon DEF Inum
    <3> QED
      BY <2>3, <3>1, <1>4, Zenon DEF TakesFrom, Known
  <2> QED
    BY <2>1, <2>2, <2>3, Zenon
<1>5. \A j \in Inum \ u : g.store[j] = None /\ g.cache[j] = None /\ j \notin g.dead
  <2> SUFFICES ASSUME NEW j \in Inum \ u
               PROVE  g.store[j] = None /\ g.cache[j] = None /\ j \notin g.dead
    BY Zenon
  <2>1. f.store[j] = None /\ f.cache[j] = None /\ j \notin f.dead /\ j # d
    BY Zenon DEF EntriesOK
  <2>2. CASE j = t
    BY <2>1, <2>2, Zenon DEF TakesFrom, Has
  <2>3. CASE j # t
    BY <2>1, <2>3, Zenon DEF TakesFrom
  <2> QED
    BY <2>2, <2>3, Zenon
<1>6. EntriesOK(g, u)
  BY <1>4, <1>5, SMTT(30) DEF EntriesOK
<1>7. ASSUME NEW S, NEW y \in Entry, Closed(f, S), Lists(f.cache[d], y), y.name = nm, y.inum = t
      PROVE  Closed(g, S \ {t})
  <2>1. Known(f, d, y)
    BY <1>7, Zenon DEF Known
  <2>2. t # Root
    BY <2>1, <1>7, Zenon DEF EntriesOK
  <2>3. Root \in S \ {t} /\ S \ {t} \subseteq Dir /\ (S \ {t}) \intersect g.dead = {}
    BY <1>7, <2>2, ZenonT(30) DEF Closed, TakesFrom
  <2>4. ASSUME NEW x \in S \ {t}, NEW e \in Entry, Lists(flushed(g, x), e)
        PROVE  flushed(g, e.inum) # None /\ (e.inum \in Dir => e.inum \in S \ {t})
    <3>1. x \in Dir /\ x \in Inum /\ e.inum \in Inum
      BY <2>3, Zenon DEF Inum, Entry
    <3>2. Lists(flushed(f, x), e) /\ (x = d => e.name # nm)
      <4>1. CASE x = d
        BY <4>1, <2>4, <1>1, <1>2, ZenonT(30) DEF TakesFrom, Lists
      <4>2. CASE x # d
        BY <4>2, <2>4, <3>1, Zenon DEF TakesFrom
      <4> QED
        BY <4>1, <4>2, Zenon
    <3>3. Known(f, x, e)
      BY <3>2, Zenon DEF flushed, Known, Lists
    <3>4. e.inum # t
      <4> SUFFICES ASSUME e.inum = t PROVE FALSE
        BY SMTT(30)
      <4>1. x = d /\ e = y
        BY <2>1, <3>1, <3>3, <1>7, Zenon DEF EntriesOK
      <4> QED
        BY <4>1, <3>2, <1>7, Zenon
    <3>5. flushed(f, e.inum) # None /\ (e.inum \in Dir => e.inum \in S)
      BY <3>2, <1>7, Zenon DEF Closed
    <3> QED
      BY <3>1, <3>4, <3>5, <1>3, ZenonT(30) DEF TakesFrom
  <2> QED
    BY <2>3, <2>4, Zenon DEF Closed
<1> QED
  BY <1>6, <1>7, Zenon

----------------------------------------------------------------------------
(* What a step does to the operations of the clients. *)

Turn(c, o) ==
  DOMAIN op' = Client /\ op'[c] = o /\ \A x \in Client \ {c} : op'[x] = op[x]

\* The directories that other clients keep for an unlink are left alone.
Undisturbed(c) ==
  \A x \in Client \ {c} : op[x].at = "remove" =>
    held'[op[x].i] = held[op[x].i] /\ fs'.cache[op[x].i] = fs.cache[op[x].i]

(***************************************************************************)
(* c goes on with o, the others with what they do.                         *)
(***************************************************************************)
LEMMA OpsStay ==
    ASSUME DirInv, NEW c \in Client, NEW o, Turn(c, o), Undisturbed(c), OpOK(o, used'),
           Removing(c, o, fs', held', lost'), used \subseteq used', lost => lost'
    PROVE  OpsOK'
<1>1. ASSUME NEW x \in Client PROVE OpOK(op'[x], used')
  <2>1. OpOK(op[x], used)
    BY SMTT(30) DEF DirInv, OpsOK
  <2> QED
    BY <2>1, Zenon DEF Turn, OpOK, NameOp, RemoveOp
<1>2. ASSUME NEW x \in Client \ {c} PROVE Removing(x, op'[x], fs', held', lost')
  <2>1. Removing(x, op[x], fs, held, lost)
    BY Zenon DEF DirInv, OpsOK
  <2>2. PICK p : p = op[x]
    BY Zenon
  <2>3. op'[x] = p
    BY <2>2, Zenon DEF Turn
  <2>4. p.at = "remove" => held'[p.i] = held[p.i] /\ fs'.cache[p.i] = fs.cache[p.i]
    BY <2>2, Zenon DEF Undisturbed
  <2> QED
    BY <2>1, <2>2, <2>3, <2>4, Zenon DEF Removing, Has, Finds
<1> QED
  BY <1>1, <1>2, Zenon DEF OpsOK, Turn

(***************************************************************************)
(* A call assigns to the operation of its client only.                     *)
(***************************************************************************)
LEMMA BecomesTurn ==
    ASSUME DirInv, NEW c \in Client, NEW o, Becomes(c, o)
    PROVE  Turn(c, o)
BY Zenon DEF DirInv, OpsOK, Becomes, Turn

(***************************************************************************)
(* A client that waits for its second lock holds the first.                *)
(***************************************************************************)
LEMMA RemoverHolds ==
    ASSUME DirInv, NEW x \in Client, op[x].at = "remove"
    PROVE  op[x] \in RemoveOp(used) /\ held[op[x].i] = x /\ Has(fs, op[x].i)
<1>1. OpOK(op[x], used) /\ Removing(x, op[x], fs, held, lost)
  BY Zenon DEF DirInv, OpsOK
<1> QED
  BY <1>1, Zenon DEF OpOK, Removing, NameOp, GetattrOp

(***************************************************************************)
(* A step under the lock of i leaves alone what others keep.               *)
(***************************************************************************)
LEMMA UnderLock ==
    ASSUME DirInv, NEW c \in Client, NEW i \in Inum, Free(i),
           \A j \in Inum \ {i} : fs'.cache[j] = fs.cache[j] /\ held'[j] = held[j]
    PROVE  Undisturbed(c)
<1> SUFFICES ASSUME NEW x \in Client \ {c}, op[x].at = "remove"
             PROVE  held'[op[x].i] = held[op[x].i] /\ fs'.cache[op[x].i] = fs.cache[op[x].i]
  BY Zenon DEF Undisturbed
<1>1. PICK d : d = op[x].i
  BY Zenon
<1>2. d \in Inum /\ held[d] = x
  BY <1>1, RemoverHolds, Zenon DEF RemoveOp, Inum
<1>3. d # i
  BY <1>2, DirectoryAssumption, Zenon DEF Free
<1> QED
  BY <1>1, <1>2, <1>3, Zenon

----------------------------------------------------------------------------
(* What a step does to what the next client sees. *)

\* The step formula of EntriesStay.
EntriesStep ==
  \A d \in Dir : Visible(d) # None /\ Visible(d)' # None =>
    /\ \A e \in Entries(d) \ Entries(d)' :
         \E c \in Client : /\ op[c].at = "remove" /\ op'[c].at = "idle"
                           /\ op[c].i = d /\ op[c].name = e.name
    /\ \A e \in Entries(d)' \ Entries(d) : e.inum \notin used

\* The step formula of FileBytes.
BytesStep ==
  \A i \in File : Visible(i) # None /\ Visible(i)' \notin {None, Visible(i)} =>
    \/ \E b \in Byte, off \in 0..(MaxSize - 1) :
         Overwritten(Visible(i), Visible(i)', <<b>>, off)
    \/ Resized(Visible(i), Visible(i)')

StepOK == DirInv' /\ EntriesStep /\ BytesStep

Stays(j) == Visible(j) # None => Visible(j)' \in {None, Visible(j)}

(***************************************************************************)
(* What stays as it was, or goes, has no change to explain.                *)
(***************************************************************************)
LEMMA StaysEntries ==
    ASSUME \A j \in Dir : Stays(j)
    PROVE  EntriesStep
<1> SUFFICES ASSUME NEW d \in Dir, Visible(d) # None, Visible(d)' # None
             PROVE  Entries(d)' = Entries(d)
  BY Zenon DEF EntriesStep
<1>1. Visible(d)' = Visible(d)
  BY Zenon DEF Stays
<1> QED
  BY <1>1, Zenon DEF Entries

(***************************************************************************)
(* Files that stay as they were, or go, have no change to explain.         *)
(***************************************************************************)
LEMMA StaysBytes ==
    ASSUME \A j \in File : Stays(j)
    PROVE  BytesStep
BY Zenon DEF BytesStep, Stays

(***************************************************************************)
(* What is visible stays so when clients lock and read.                    *)
(***************************************************************************)
LEMMA SeesStays ==
    ASSUME NEW f, Reading(fs, f), NEW j \in Inum, Visible(j) # None
    PROVE  flushed(f, j) = Visible(j)
BY Zenon DEF Reading, Sees, Visible

(***************************************************************************)
(* A call that only locks i and reads it.                                  *)
(***************************************************************************)
LEMMA OpenStep ==
    ASSUME DirInv, NEW c \in Client, NEW i \in Inum, Free(i), fs' = Opened(c, i),
           UNCHANGED <<held, used, lost>>, NEW o, Turn(c, o), OpOK(o, used), o.at # "remove"
    PROVE  StepOK
<1>1. PICK f : f = Opened(c, i)
  BY SMTT(30)
<1>2. Reading(fs, f) /\ \A j \in Inum \ {i} : f.cache[j] = fs.cache[j]
  BY <1>1, OpenedReads, Zenon DEF DirInv
<1>3. OpsOK'
  <2>1. Undisturbed(c)
    BY <1>1, <1>2, UnderLock, Zenon
  <2>2. Removing(c, o, fs', held', lost')
    BY SMTT(30) DEF Removing
  <2> QED
    BY <2>1, <2>2, OpsStay, Zenon
<1>4. FsOK(f) /\ EntriesOK(f, used)
  BY <1>2, ReadingKeeps, Zenon DEF DirInv, Reading
<1>5. lost \/ \E S \in SUBSET Dir : Closed(f, S)
  BY <1>2, ReadingClosed, Zenon DEF DirInv
<1>6. DirInv'
  BY <1>1, <1>3, <1>4, <1>5, Zenon DEF DirInv
<1>7. \A j \in Inum : Stays(j)
  <2> SUFFICES ASSUME NEW j \in Inum, Visible(j) # None PROVE Visible(j)' = Visible(j)
    BY Zenon DEF Stays
  <2>1. flushed(f, j) = Visible(j)
    BY <1>2, SeesStays, Zenon
  <2> QED
    BY <1>1, <2>1, Zenon DEF Visible
<1> QED
  BY <1>6, <1>7, StaysEntries, StaysBytes, Zenon DEF StepOK, Inum

(***************************************************************************)
(* A call that locks i, reads it and puts v: into a file, or an empty      *)
(* directory.                                                              *)
(***************************************************************************)
LEMMA PutStep ==
    ASSUME DirInv, NEW c \in Client, NEW i \in used, Free(i), NEW v \in Content(i),
           i \in Dir => v = <<>>, fs' = put(Opened(c, i), i, v),
           UNCHANGED <<held, used, lost>>, NEW o, Turn(c, o), OpOK(o, used), o.at # "remove"
    PROVE  DirInv' /\ Visible(i)' = v /\ \A j \in Inum \ {i} : Stays(j)
<1>1. PICK f : f = Opened(c, i)
  BY Zenon
<1>2. i \in Inum
  BY SMTT(30) DEF DirInv
<1>3. Reading(fs, f) /\ \A j \in Inum \ {i} : f.cache[j] = fs.cache[j]
  BY <1>1, <1>2, OpenedReads, Zenon DEF DirInv
<1>4. FsOK(f) /\ EntriesOK(f, used)
  BY <1>3, ReadingKeeps, Zenon DEF DirInv, Reading
<1>5. PICK g : g = put(f, i, v)
  BY Zenon
<1>6. fs' = g
  BY <1>1, <1>5, Zenon
<1>7. /\ FsOK(g) /\ flushed(g, i) = v
      /\ \A j \in Inum \ {i} : g.cache[j] = f.cache[j] /\ flushed(g, j) = flushed(f, j)
  BY <1>2, <1>4, <1>5, PutFacts
<1>8. EntriesOK(g, used) /\ \A S : Closed(f, S) => Closed(g, S)
  BY <1>2, <1>4, <1>5, PutEntries, Zenon
<1>9. lost \/ \E S \in SUBSET Dir : Closed(g, S)
  BY <1>3, <1>8, ReadingClosed, Zenon DEF DirInv
<1>10. OpsOK'
  <2>1. Undisturbed(c)
    BY <1>2, <1>3, <1>6, <1>7, UnderLock, Zenon
  <2>2. Removing(c, o, fs', held', lost')
    BY Zenon DEF Removing
  <2> QED
    BY <2>1, <2>2, OpsStay, Zenon
<1>11. DirInv'
  BY <1>6, <1>7, <1>8, <1>9, <1>10, Zenon DEF DirInv
<1>12. ASSUME NEW j \in Inum \ {i}, Visible(j) # None PROVE Visible(j)' = Visible(j)
  <2>1. flushed(f, j) = Visible(j)
    BY <1>3, <1>12, SeesStays, Zenon
  <2> QED
    BY <1>6, <1>7, <2>1, Zenon DEF Visible
<1> QED
  BY <1>6, <1>7, <1>11, <1>12, Zenon DEF Stays, Visible

----------------------------------------------------------------------------
(* The steps. *)

(***************************************************************************)
(* A new client makes the root directory if there is none.                 *)
(***************************************************************************)
LEMMA StepConstructor ==
    ASSUME DirInv, NEW c \in Client, yfs_client(c)
    PROVE  StepOK
<1>1. PICK f : f = Opened(c, Root)
  BY Zenon
<1>2. PICK o : o = Idle
  BY SMTT(30)
<1>3. Turn(c, o) /\ OpOK(o, used) /\ o.at # "remove"
  BY <1>2, BecomesTurn, Zenon DEF yfs_client, OpOK, Idle
<1>4. Root \in used /\ Root \in Inum /\ Root \in Dir /\ Free(Root)
  BY DirectoryAssumption, Zenon DEF DirInv, Inum, yfs_client
<1>5. CASE Has(f, Root)
  BY <1>1, <1>3, <1>4, <1>5, OpenStep, Zenon DEF yfs_client
<1>6. CASE ~Has(f, Root)
  <2>1. <<>> \in Content(Root)
    BY <1>4, Contents, Zenon
  <2>2. fs' = put(Opened(c, Root), Root, <<>>)
    BY <1>1, <1>6, Zenon DEF yfs_client
  <2>3. UNCHANGED <<held, used, lost>>
    BY Zenon DEF yfs_client
  <2>4. DirInv' /\ \A j \in Inum \ {Root} : Stays(j)
    BY <1>3, <1>4, <2>1, <2>2, <2>3, PutStep, Zenon
  <2>5. Visible(Root) = None
    <3>1. Reading(fs, f) /\ flushed(f, Root) = None
      BY <1>1, <1>4, <1>6, OpenedReads, Zenon DEF DirInv
    <3> QED
      BY <1>4, <3>1, SeesStays, Zenon
  <2>6. \A j \in Inum : Stays(j)
    BY <2>4, <2>5, Zenon DEF Stays
  <2> QED
    BY <2>4, <2>6, StaysEntries, StaysBytes, Zenon DEF StepOK, Inum
<1> QED
  BY <1>5, <1>6, Zenon

(***************************************************************************)
(* getattr, open, read and readdir.                                        *)
(***************************************************************************)
LEMMA StepReads ==
    ASSUME DirInv, NEW c \in Client, NEW i \in used, Reads(c, i)
    PROVE  StepOK
<1>1. PICK o : o = op[c]
  BY Zenon
<1>2. o.at = "idle" /\ op' = op
  BY <1>1, Zenon DEF Reads, Asks
<1>3. Turn(c, o) /\ OpOK(o, used) /\ o.at # "remove"
  BY <1>1, <1>2, Zenon DEF Turn, OpOK, DirInv, OpsOK
<1>4. i \in Inum
  BY Zenon DEF DirInv
<1> QED
  BY <1>3, <1>4, OpenStep, Zenon DEF Reads

(***************************************************************************)
(* A write puts the old bytes with the new ones over them.                 *)
(***************************************************************************)
LEMMA StepWrite ==
    ASSUME DirInv, NEW c \in Client, NEW i \in File \intersect used,
           NEW off \in 0..(MaxSize - 1), NEW b \in Byte, fuseserver_write(c, i, <<b>>, off)
    PROVE  StepOK
<1>1. PICK f : f = Opened(c, i)
  BY Zenon
<1>2. PICK o : o = op[c]
  BY Zenon
<1>3. o.at = "idle" /\ op' = op
  BY <1>2, Zenon DEF fuseserver_write, Asks
<1>4. Turn(c, o) /\ OpOK(o, used) /\ o.at # "remove"
  BY <1>2, <1>3, ZenonT(30) DEF Turn, OpOK, DirInv, OpsOK
<1>5. i \in Inum /\ i \notin Dir /\ Free(i) /\ off \in Nat
  BY DirectoryAssumption DEF Inum, fuseserver_write
<1>6. CASE ~Has(f, i)
  BY <1>1, <1>4, <1>5, <1>6, OpenStep, Zenon DEF fuseserver_write
<1>7. CASE Has(f, i)
  <2>1. Reading(fs, f)
    BY <1>1, <1>5, OpenedReads, Zenon DEF DirInv
  <2>2. f.cache[i] \in Seq(Byte) /\ flushed(f, i) = f.cache[i] /\ Content(i) = Seq(Byte)
    BY <1>5, <1>7, <2>1, Zenon DEF Reading, FsOK, Content, Has, flushed
  <2>3. PICK v : v = written(f.cache[i], <<b>>, off)
    BY Zenon
  <2>4. v \in Content(i) /\ Overwritten(f.cache[i], v, <<b>>, off)
    BY <1>5, <2>2, <2>3, Written, Zenon
  <2>5. fs' = put(Opened(c, i), i, v)
    BY <1>1, <1>7, <2>3, Zenon DEF fuseserver_write
  <2>6. UNCHANGED <<held, used, lost>>
    BY Zenon DEF fuseserver_write
  <2>7. DirInv' /\ Visible(i)' = v /\ \A j \in Inum \ {i} : Stays(j)
    BY <1>4, <1>5, <2>4, <2>5, <2>6, PutStep, Zenon
  <2>8. EntriesStep
    BY <1>5, <2>7, StaysEntries, Zenon DEF Inum
  <2>9. Visible(i) # None => Overwritten(Visible(i), Visible(i)', <<b>>, off)
    <3>1. Visible(i) # None => Visible(i) = f.cache[i]
      BY <1>5, <2>1, <2>2, SeesStays, Zenon
    <3> QED
      BY <2>4, <2>7, <3>1, Zenon
  <2>10. BytesStep
    <3> SUFFICES ASSUME NEW j \in File, Visible(j) # None, Visible(j)' \notin {None, Visible(j)}
                 PROVE  \E y \in Byte, k \in 0..(MaxSize - 1) :
                          Overwritten(Visible(j), Visible(j)', <<y>>, k)
      BY Zenon DEF BytesStep
    <3>1. j = i
      BY <2>7, Zenon DEF Stays, Inum
    <3> QED
      BY <2>9, <3>1, Zenon
  <2> QED
    BY <2>7, <2>8, <2>10, Zenon DEF StepOK
<1> QED
  BY <1>6, <1>7, Zenon

(***************************************************************************)
(* A change of size cuts the bytes, or adds zeros.                         *)
(***************************************************************************)
LEMMA StepSetattr ==
    ASSUME DirInv, NEW c \in Client, NEW i \in File \intersect used, NEW n \in 0..MaxSize,
           fuseserver_setattr(c, i, n)
    PROVE  StepOK
<1>1. PICK f : f = Opened(c, i)
  BY Zenon
<1>2. PICK o : o = IF Has(f, i) THEN [at |-> "getattr", i |-> i] ELSE Idle
  BY Zenon
<1>3. i \in Inum /\ i \notin Dir /\ Free(i) /\ n \in Nat
  BY DirectoryAssumption DEF Inum, fuseserver_setattr
<1>4. Turn(c, o) /\ OpOK(o, used) /\ o.at # "remove"
  <2>1. Becomes(c, o)
    BY <1>1, <1>2, Zenon DEF fuseserver_setattr
  <2>2. OpOK(o, used) /\ o.at # "remove"
    BY <1>2, <1>3, Zenon DEF OpOK, Idle, GetattrOp
  <2> QED
    BY <2>1, <2>2, BecomesTurn, Zenon
<1>5. CASE ~Has(f, i)
  BY <1>1, <1>3, <1>4, <1>5, OpenStep, Zenon DEF fuseserver_setattr
<1>6. CASE Has(f, i)
  <2>1. Reading(fs, f)
    BY <1>1, <1>3, OpenedReads, ZenonT(30) DEF DirInv
  <2>2. f.cache[i] \in Seq(Byte) /\ flushed(f, i) = f.cache[i] /\ Content(i) = Seq(Byte)
    BY <1>3, <1>6, <2>1, Zenon DEF Reading, FsOK, Content, Has, flushed
  <2>3. PICK v : v = resize(f.cache[i], n)
    BY Zenon
  <2>4. v \in Content(i) /\ Resized(f.cache[i], v)
    BY <1>3, <2>2, <2>3, Resize, Zenon
  <2>5. fs' = put(Opened(c, i), i, v)
    BY <1>1, <1>6, <2>3, Zenon DEF fuseserver_setattr
  <2>6. UNCHANGED <<held, used, lost>>
    BY Zenon DEF fuseserver_setattr
  <2>7. DirInv' /\ Visible(i)' = v /\ \A j \in Inum \ {i} : Stays(j)
    BY <1>3, <1>4, <2>4, <2>5, <2>6, PutStep, Zenon
  <2>8. EntriesStep
    BY <1>3, <2>7, StaysEntries, Zenon DEF Inum
  <2>9. Visible(i) # None => Resized(Visible(i), Visible(i)')
    <3>1. Visible(i) # None => Visible(i) = f.cache[i]
      BY <1>3, <2>1, <2>2, SeesStays, Zenon
    <3> QED
      BY <2>4, <2>7, <3>1, Zenon
  <2>10. BytesStep
    <3> SUFFICES ASSUME NEW j \in File, Visible(j) # None, Visible(j)' \notin {None, Visible(j)}
                 PROVE  Resized(Visible(j), Visible(j)')
      BY Zenon DEF BytesStep
    <3>1. j = i
      BY <2>7, Zenon DEF Stays, Inum
    <3> QED
      BY <2>9, <3>1, Zenon
  <2> QED
    BY <2>7, <2>8, <2>10, Zenon DEF StepOK
<1> QED
  BY <1>5, <1>6, Zenon

(***************************************************************************)
(* The getattr at the end of a handler.                                    *)
(***************************************************************************)
LEMMA StepGetattr ==
    ASSUME DirInv, NEW c \in Client, getattr(c)
    PROVE  StepOK
<1>1. PICK o : o = Idle
  BY Zenon
<1>2. Turn(c, o) /\ OpOK(o, used) /\ o.at # "remove"
  BY <1>1, BecomesTurn, Zenon DEF getattr, OpOK, Idle
<1>3. PICK i : i = op[c].i
  BY Zenon
<1>4. i \in Inum
  <2>1. op[c].at = "getattr" /\ OpOK(op[c], used)
    BY ZenonT(30) DEF getattr, DirInv, OpsOK
  <2> QED
    BY <1>3, <2>1, Zenon DEF OpOK, GetattrOp, NameOp, RemoveOp
<1>5. Free(i) /\ fs' = Opened(c, i) /\ UNCHANGED <<held, used, lost>>
  BY <1>3, Zenon DEF getattr
<1> QED
  BY <1>2, <1>4, <1>5, OpenStep, Zenon

(***************************************************************************)
(* A handler on a name begins.                                             *)
(***************************************************************************)
LEMMA StepRequest ==
    ASSUME DirInv, NEW c \in Client, NEW h \in {"create", "mkdir", "lookup", "unlink"},
           NEW d \in Dir \intersect used, NEW nm \in Name, Request(c, h, d, nm)
    PROVE  StepOK
<1>1. PICK o : o = [at |-> IF h \in {"create", "mkdir"} THEN "getdir" ELSE "ilookup",
                    h |-> h, i |-> d, name |-> nm]
  BY ZenonT(30)
<1>2. o \in NameOp(used) /\ o.at # "remove"
  BY <1>1, Zenon DEF NameOp
<1>3. Becomes(c, o) /\ UNCHANGED <<fs, held, used, lost>>
  BY <1>1, Zenon DEF Request
<1>4. Turn(c, o)
  BY <1>3, BecomesTurn, Zenon
<1>5. OpsOK'
  <2>1. Undisturbed(c) /\ Removing(c, o, fs', held', lost') /\ OpOK(o, used')
    BY <1>2, <1>3, Zenon DEF Undisturbed, Removing, OpOK
  <2> QED
    BY <1>3, <1>4, <2>1, OpsStay, Zenon
<1>6. DirInv'
  BY <1>3, <1>5, Zenon DEF DirInv
<1>7. \A j : Visible(j)' = Visible(j)
  BY <1>3, Zenon DEF Visible
<1> QED
  BY <1>6, <1>7, StaysEntries, StaysBytes, Zenon DEF StepOK, Stays

(***************************************************************************)
(* A client inside a handler on a name.                                    *)
(***************************************************************************)
LEMMA NamedOp ==
    ASSUME DirInv, NEW c \in Client, op[c].at \in {"getdir", "ilookup", "add_entry", "unlink"}
    PROVE  op[c] \in NameOp(used) /\ op[c].i \in Inum
<1>1. OpOK(op[c], used)
  BY Zenon DEF DirInv, OpsOK
<1>2. op[c] \in NameOp(used)
  BY <1>1, Zenon DEF OpOK, GetattrOp, RemoveOp
<1> QED
  BY <1>2, Zenon DEF NameOp, Inum

(***************************************************************************)
(* getdir, with which create and mkdir begin.                              *)
(***************************************************************************)
LEMMA StepGetdir ==
    ASSUME DirInv, NEW c \in Client, getdir(c)
    PROVE  StepOK
<1>1. PICK p : p = op[c]
  BY Zenon
<1>2. p \in NameOp(used) /\ p.i \in Inum
  BY <1>1, NamedOp, Zenon DEF getdir
<1>3. PICK o : o = IF Has(Opened(c, p.i), p.i) THEN [p EXCEPT !.at = "ilookup"] ELSE Idle
  BY Zenon
<1>4. OpOK(o, used) /\ o.at # "remove"
  BY <1>2, <1>3, Zenon DEF OpOK, NameOp, Idle
<1>5. Becomes(c, o) /\ Free(p.i) /\ fs' = Opened(c, p.i) /\ UNCHANGED <<held, used, lost>>
  BY <1>1, <1>3, Zenon DEF getdir
<1>6. Turn(c, o)
  BY <1>5, BecomesTurn, Zenon
<1> QED
  BY <1>2, <1>4, <1>5, <1>6, OpenStep, Zenon

(***************************************************************************)
(* ilookup, and what the handlers do with its answer.                      *)
(***************************************************************************)
LEMMA StepLookup ==
    ASSUME DirInv, NEW c \in Client, Lookup(c)
    PROVE  StepOK
<1>1. PICK p : p = op[c]
  BY Zenon
<1>2. p \in NameOp(used) /\ p.i \in Inum /\ p.i \in Dir
  <2>1. p \in NameOp(used) /\ p.i \in Inum
    BY <1>1, NamedOp, Zenon DEF Lookup
  <2> QED
    BY <2>1, Zenon DEF NameOp
<1>3. PICK f : f = Opened(c, p.i)
  BY SMTT(30)
<1>4. PICK inum : inum = IF Has(f, p.i) THEN ilookup(f.cache[p.i], p.name) ELSE 0
  BY Zenon
<1>5. inum \in Inum \union {0}
  <2>1. Reading(fs, f)
    BY <1>2, <1>3, OpenedReads, ZenonT(30) DEF DirInv
  <2>2. Has(f, p.i) => f.cache[p.i] \in Seq(Entry)
    BY <1>2, <2>1, Zenon DEF Reading, FsOK, Has, Content
  <2> QED
    BY <1>4, <2>2, IlookupType, Zenon
<1>6. /\ Free(p.i) /\ fs' = Opened(c, p.i) /\ UNCHANGED <<held, used, lost>>
      /\ \/ fuseserver_createhelper(c, inum) \/ fuseserver_mkdir(c, inum)
         \/ fuseserver_lookup(c, inum) \/ fuseserver_unlink(c, inum)
  BY <1>1, <1>3, <1>4, Zenon DEF Lookup
<1>7. PICK o : /\ Becomes(c, o)
               /\ \/ o = Idle
                  \/ inum # 0 /\ o = [at |-> "getattr", i |-> inum]
                  \/ o = [p EXCEPT !.at = "add_entry"]
                  \/ o = [p EXCEPT !.at = "unlink"]
  <2>1. CASE fuseserver_createhelper(c, inum)
    BY <1>1, <2>1, Zenon DEF fuseserver_createhelper
  <2>2. CASE fuseserver_mkdir(c, inum)
    BY <1>1, <2>2, Zenon DEF fuseserver_mkdir
  <2>3. CASE fuseserver_lookup(c, inum)
    BY <1>1, <2>3, Zenon DEF fuseserver_lookup
  <2>4. CASE fuseserver_unlink(c, inum)
    BY <1>1, <2>4, Zenon DEF fuseserver_unlink
  <2> QED
    BY <1>6, <2>1, <2>2, <2>3, <2>4, Zenon
<1>8. OpOK(o, used) /\ o.at # "remove"
  BY <1>2, <1>5, <1>7 DEF OpOK, NameOp, GetattrOp, Idle
<1>9. Turn(c, o)
  BY <1>7, BecomesTurn, Zenon
<1> QED
  BY <1>2, <1>6, <1>8, <1>9, OpenStep, Zenon

(***************************************************************************)
(* create and mkdir make an entry, with a new inum.                        *)
(***************************************************************************)
LEMMA StepAddEntry ==
    ASSUME DirInv, NEW c \in Client, NEW d, d = op[c].i, op[c].at = "add_entry", Free(d),
           NEW f, f = Opened(c, d), Has(f, d), NEW i \in Inum \ used,
           fs' = added(acquire(f, c, i), d, op[c].name, i), used' = used \union {i},
           Becomes(c, [at |-> "getattr", i |-> i]), UNCHANGED <<held, lost>>
    PROVE  StepOK
<1>1. PICK nm : nm = op[c].name
  BY ZenonT(30)
<1>2. d \in Dir /\ d \in used /\ d \in Inum /\ nm \in Name /\ d # i
  BY <1>1, NamedOp, Zenon DEF NameOp
<1>3. Reading(fs, f) /\ \A j \in Inum \ {d} : f.cache[j] = fs.cache[j]
  BY <1>2, OpenedReads, ZenonT(30) DEF DirInv
<1>4. PICK g : g = acquire(f, c, i)
  BY SMTT(30)
<1>5. Reading(f, g) /\ \A j \in Inum \ {i} : g.cache[j] = f.cache[j]
  <2>1. FsOK(f)
    BY <1>3, ZenonT(30) DEF Reading
  <2> QED
    BY <1>4, <2>1, AcquireReads, ZenonT(30)
<1>6. Reading(fs, g)
  BY <1>3, <1>5, ReadingTwice, ZenonT(30)
<1>7. FsOK(g) /\ EntriesOK(g, used) /\ Has(g, d)
  BY <1>2, <1>5, <1>6, ReadingKeeps, ZenonT(30) DEF DirInv, Reading, Has
<1>8. PICK h : h = added(g, d, nm, i)
  BY ZenonT(30)
<1>9. fs' = h
  BY <1>1, <1>4, <1>8, Zenon
<1>10. AddsTo(g, h, d, nm, i)
  BY <1>2, <1>7, <1>8, AddedFacts, ZenonT(30)
<1>11. /\ EntriesOK(h, used \union {i})
       /\ \A S : Closed(g, S) => Closed(h, S \union ({i} \intersect Dir))
  BY <1>2, <1>7, <1>10, AddedEntries, ZenonT(30) DEF DirInv
<1>12. lost \/ \E S \in SUBSET Dir : Closed(h, S)
  <2> SUFFICES ASSUME ~lost PROVE \E S \in SUBSET Dir : Closed(h, S)
    BY Zenon
  <2>1. PICK S \in SUBSET Dir : Closed(fs, S)
    BY Zenon DEF DirInv
  <2>2. Closed(g, S)
    BY <1>6, <2>1, ReadingClosed, Zenon
  <2> QED
    BY <1>11, <2>1, <2>2, ZenonT(30)
<1>13. OpsOK'
  <2>1. PICK o : o = [at |-> "getattr", i |-> i]
    BY ZenonT(30)
  <2>2. Turn(c, o)
    BY <2>1, BecomesTurn, Zenon
  <2>3. OpOK(o, used') /\ Removing(c, o, fs', held', lost')
    BY <2>1, Zenon DEF OpOK, GetattrOp, Removing
  <2>4. Undisturbed(c)
    <3> SUFFICES ASSUME NEW x \in Client \ {c}, op[x].at = "remove"
                 PROVE  fs'.cache[op[x].i] = fs.cache[op[x].i]
      BY ZenonT(30) DEF Undisturbed
    <3>1. PICK k : k = op[x].i
      BY SMTT(30)
    <3>2. k \in Inum /\ k \in used /\ held[k] = x
      BY <3>1, RemoverHolds, Zenon DEF RemoveOp, Inum
    <3>3. k # d /\ k # i
      BY <3>2, DirectoryAssumption, Zenon DEF Free
    <3>4. h.cache[k] = g.cache[k]
      BY <1>10, <3>2, <3>3, ZenonT(30) DEF AddsTo
    <3> QED
      BY <1>3, <1>5, <1>9, <3>1, <3>2, <3>3, <3>4, ZenonT(30)
  <2> QED
    BY <2>2, <2>3, <2>4, OpsStay, ZenonT(30)
<1>14. DirInv'
  <2>1. FsOK(h)
    BY <1>10, ZenonT(30) DEF AddsTo
  <2> QED
    BY <1>9, <1>11, <1>12, <1>13, <2>1, ZenonT(30) DEF DirInv
<1>15. \A j \in Inum : Visible(j) # None => flushed(g, j) = Visible(j)
  BY <1>6, SeesStays, ZenonT(30)
<1>16. Visible(i) = None
  BY ZenonT(30) DEF DirInv, EntriesOK, Visible, flushed, Has
<1>17. \A j \in Inum \ {d} : Stays(j)
  <2> SUFFICES ASSUME NEW j \in Inum \ {d}, Visible(j) # None PROVE Visible(j)' = Visible(j)
    BY ZenonT(30) DEF Stays
  <2>1. j # i
    BY <1>16, ZenonT(30)
  <2>2. flushed(h, j) = flushed(g, j)
    BY <1>10, <2>1, ZenonT(30) DEF AddsTo
  <2> QED
    BY <1>9, <1>15, <2>2, ZenonT(30) DEF Visible
<1>18. BytesStep
  BY <1>2, <1>17, StaysBytes, DirectoryAssumption, ZenonT(30) DEF Inum
<1>19. EntriesStep
  <2> SUFFICES ASSUME NEW x \in Dir, Visible(x) # None, Visible(x)' # None
               PROVE  /\ Entries(x) \subseteq Entries(x)'
                      /\ \A e \in Entries(x)' \ Entries(x) : e.inum \notin used
    BY ZenonT(30) DEF EntriesStep
  <2>1. CASE x # d
    <3>1. Visible(x)' = Visible(x)
      BY <1>17, <2>1, Zenon DEF Stays, Inum
    <3> QED
      BY <3>1, ZenonT(30) DEF Entries
  <2>2. CASE x = d
    <3>1. Visible(d) = g.cache[d]
      BY <1>2, <1>7, <1>15, <2>2, ZenonT(30) DEF flushed, Has
    <3>2. PICK s : s = g.cache[d]
      BY ZenonT(30)
    <3>3. s \in Seq(Entry)
      BY <1>2, <1>7, <3>2, ZenonT(30) DEF FsOK, Has, Content
    <3>4. PICK y : y = [inum |-> i, name |-> nm]
      BY ZenonT(30)
    <3>5. Visible(d)' = Append(s, y)
      BY <1>9, <1>10, <3>2, <3>4, ZenonT(30) DEF AddsTo, Visible
    <3>6. Entries(d) = Range(s) /\ Entries(d)' = Range(Append(s, y))
      BY <1>2, <2>2, <3>1, <3>2, <3>5, DirectoryAssumption, ZenonT(30) DEF Entries
    <3>7. y \in Entry
      BY <1>2, <3>4, ZenonT(30) DEF Entry
    <3>8. Range(Append(s, y)) = Range(s) \union {y}
      BY <3>3, <3>7, AppendRange, Zenon
    <3>9. Entries(d) \subseteq Entries(d)' /\ \A e \in Entries(d)' \ Entries(d) : e = y
      BY <3>6, <3>8, Zenon
    <3>10. y.inum = i /\ i \notin used
      BY <3>4, ZenonT(30)
    <3> QED
      BY <2>2, <3>9, <3>10, Zenon
  <2> QED
    BY <2>1, <2>2, ZenonT(30)
<1> QED
  BY <1>14, <1>18, <1>19, ZenonT(30) DEF StepOK

(***************************************************************************)
(* add_entry_to_filesystem, whether it makes the entry or not.             *)
(***************************************************************************)
LEMMA StepAdd ==
    ASSUME DirInv, NEW c \in Client, add_entry_to_filesystem(c)
    PROVE  StepOK
<1>1. PICK d : d = op[c].i
  BY Zenon
<1>2. PICK f : f = Opened(c, d)
  BY Zenon
<1>3. d \in Inum
  BY <1>1, NamedOp, ZenonT(30) DEF add_entry_to_filesystem
<1>4. op[c].at = "add_entry" /\ Free(d) /\ UNCHANGED <<held, requests, lost>>
  BY <1>1, ZenonT(30) DEF add_entry_to_filesystem
<1>5. CASE \E i \in NewInums(op[c].h) :
             /\ Has(f, d) /\ fs' = added(acquire(f, c, i), d, op[c].name, i)
             /\ used' = used \union {i} /\ Becomes(c, [at |-> "getattr", i |-> i])
  <2>1. PICK i \in NewInums(op[c].h) :
             /\ Has(f, d) /\ fs' = added(acquire(f, c, i), d, op[c].name, i)
             /\ used' = used \union {i} /\ Becomes(c, [at |-> "getattr", i |-> i])
    BY <1>5, Zenon
  <2>2. i \in Inum \ used
    BY SMTT(30) DEF NewInums, Inum
  <2> QED
    BY <1>1, <1>2, <1>4, <2>1, <2>2, StepAddEntry, ZenonT(30)
<1>6. CASE /\ fs' = f /\ UNCHANGED used
           /\ IF op[c].h = "create" THEN Becomes(c, Idle)
              ELSE \E i \in Inum : Becomes(c, [at |-> "getattr", i |-> i])
  <2>1. PICK o : Becomes(c, o) /\ (o = Idle \/ \E i \in Inum : o = [at |-> "getattr", i |-> i])
    BY <1>6, Zenon
  <2>2. OpOK(o, used) /\ o.at # "remove"
    BY <2>1 DEF OpOK, GetattrOp, Idle
  <2>3. Turn(c, o)
    BY <2>1, BecomesTurn, Zenon
  <2> QED
    BY <1>2, <1>3, <1>4, <1>6, <2>2, <2>3, OpenStep, Zenon
<1> QED
  BY <1>1, <1>2, <1>5, <1>6, ZenonT(30) DEF add_entry_to_filesystem

(***************************************************************************)
(* unlink finds the entry and keeps the lock of the directory.             *)
(***************************************************************************)
LEMMA StepUnlink ==
    ASSUME DirInv, NEW c \in Client, unlink(c)
    PROVE  StepOK
<1>1. PICK p : p = op[c]
  BY Zenon
<1>2. PICK d, nm : d = p.i /\ nm = p.name
  BY SMTT(30)
<1>3. d \in Dir /\ d \in used /\ d \in Inum /\ nm \in Name
  BY <1>1, <1>2, NamedOp, ZenonT(30) DEF unlink, NameOp
<1>4. PICK f : f = Opened(c, d)
  BY Zenon
<1>5. Free(d) /\ fs' = f /\ UNCHANGED used
  BY <1>1, <1>2, <1>4, Zenon DEF unlink
<1>6. CASE ~Has(f, d)
  <2>1. PICK o : o = [at |-> "undefined"]
    BY ZenonT(30)
  <2>2. Becomes(c, o) /\ UNCHANGED <<held, lost>>
    BY <1>1, <1>2, <1>4, <1>6, <2>1, Zenon DEF unlink
  <2>3. OpOK(o, used) /\ o.at # "remove"
    BY <2>1, Zenon DEF OpOK
  <2>4. Turn(c, o)
    BY <2>2, BecomesTurn, Zenon
  <2> QED
    BY <1>3, <1>4, <1>5, <2>2, <2>3, <2>4, OpenStep, Zenon
<1>7. CASE Has(f, d)
  <2>1. Reading(fs, f) /\ \A j \in Inum \ {d} : f.cache[j] = fs.cache[j]
    BY <1>3, <1>4, OpenedReads, Zenon DEF DirInv
  <2>2. PICK dir : dir = f.cache[d]
    BY SMTT(30)
  <2>3. dir \in Seq(Entry) /\ dir # None
    BY <1>3, <1>7, <2>1, <2>2, Zenon DEF Reading, FsOK, Has, Content
  <2>4. PICK here : here = {k \in DOMAIN dir : dir[k].name = nm}
    BY Zenon
  <2>5. PICK last : last = {k \in here : \A j \in here : j <= k}
    BY Zenon
  <2>6. /\ held' = [held EXCEPT ![d] = c] /\ lost' = (lost \/ here = {})
        /\ \E i \in IF here = {} THEN Inum ELSE {dir[k].inum : k \in last} :
             Becomes(c, [at |-> "remove", i |-> d, name |-> nm, target |-> i])
    BY <1>1, <1>2, <1>4, <1>7, <2>2, <2>4, <2>5, ZenonT(30) DEF unlink
  <2>7. PICK i : /\ i \in IF here = {} THEN Inum ELSE {dir[k].inum : k \in last}
                 /\ Becomes(c, [at |-> "remove", i |-> d, name |-> nm, target |-> i])
    BY <2>6, Zenon
  <2>8. ASSUME here # {}
        PROVE  \E e \in Entry : Lists(dir, e) /\ e.name = nm /\ e.inum = i
    <3>1. PICK k \in DOMAIN dir : dir[k].name = nm /\ i = dir[k].inum
      BY <2>4, <2>5, <2>7, <2>8, ZenonT(30)
    <3>2. dir[k] \in Entry /\ dir[k] \in Range(dir)
      BY <2>3, SMTT(30) DEF Range
    <3> QED
      BY <2>3, <3>1, <3>2, Zenon DEF Lists
  <2>9. i \in Inum
    BY <2>7, <2>8, Zenon DEF Entry
  <2>10. PICK o : o = [at |-> "remove", i |-> d, name |-> nm, target |-> i]
    BY ZenonT(30)
  <2>11. Turn(c, o)
    BY <2>7, <2>10, BecomesTurn, Zenon
  <2>12. o \in RemoveOp(used)
    BY <1>3, <2>9, <2>10, Zenon DEF RemoveOp
  <2>13. /\ o.at = "remove" /\ o.i = d /\ o.name = nm /\ o.target = i
    BY <2>10, Zenon
  <2>14. /\ held' \in [Inum -> Owner] /\ held'[d] = c
         /\ \A j \in Inum \ {d} : held'[j] = held[j]
    BY <1>3, <2>6, ZenonT(30) DEF DirInv, Owner
  <2>15. (lost => lost') /\ (here = {} => lost')
    BY <2>6, ZenonT(30)
  <2>16. Removing(c, o, fs', held', lost')
    BY <1>5, <1>7, <2>2, <2>8, <2>13, <2>14, <2>15, Zenon DEF Removing, Finds
  <2>17. Undisturbed(c)
    BY <1>3, <1>5, <2>1, <2>14, UnderLock, ZenonT(30)
  <2>18. OpsOK'
    BY <1>5, <2>11, <2>12, <2>15, <2>16, <2>17, OpsStay, ZenonT(30) DEF OpOK
  <2>19. FsOK(f) /\ EntriesOK(f, used)
    BY <2>1, ReadingKeeps, Zenon DEF DirInv, Reading
  <2>20. lost \/ \E S \in SUBSET Dir : Closed(f, S)
    BY <2>1, ReadingClosed, Zenon DEF DirInv
  <2>21. DirInv'
    BY <1>5, <2>14, <2>15, <2>18, <2>19, <2>20, Zenon DEF DirInv
  <2>22. \A j \in Inum : Stays(j)
    <3> SUFFICES ASSUME NEW j \in Inum, Visible(j) # None PROVE Visible(j)' = Visible(j)
      BY Zenon DEF Stays
    <3>1. flushed(f, j) = Visible(j)
      BY <2>1, SeesStays, Zenon
    <3> QED
      BY <1>5, <3>1, Zenon DEF Visible
  <2> QED
    BY <2>21, <2>22, StaysEntries, StaysBytes, Zenon DEF StepOK, Inum
<1> QED
  BY <1>6, <1>7, Zenon

(***************************************************************************)
(* unlink, with both locks, drops the entry and removes the extent.        *)
(***************************************************************************)
LEMMA StepRemove ==
    ASSUME DirInv, NEW c \in Client, unlinkRemove(c)
    PROVE  StepOK
<1>1. PICK p : p = op[c]
  BY Zenon
<1>2. PICK d, nm, t : d = p.i /\ nm = p.name /\ t = p.target
  BY SMTT(30)
<1>3. p.at = "remove" /\ p \in RemoveOp(used) /\ held[d] = c /\ Has(fs, d)
  BY <1>1, <1>2, RemoverHolds, ZenonT(30) DEF unlinkRemove
<1>4. d \in Dir /\ d \in used /\ d \in Inum /\ nm \in Name /\ t \in Inum
  BY <1>2, <1>3, Zenon DEF RemoveOp, Inum
<1>5. Free(t) /\ t # d
  BY <1>1, <1>2, <1>3, DirectoryAssumption, Zenon DEF unlinkRemove, Free
<1>6. PICK f : f = acquire(fs, c, t)
  BY SMTT(30)
<1>7. Reading(fs, f) /\ \A j \in Inum \ {t} : f.cache[j] = fs.cache[j]
  BY <1>4, <1>6, AcquireReads, ZenonT(30) DEF DirInv
<1>8. FsOK(f) /\ EntriesOK(f, used) /\ f.cache[d] = fs.cache[d] /\ Has(f, d)
  BY <1>3, <1>4, <1>5, <1>7, ReadingKeeps, Zenon DEF DirInv, Reading, Has
<1>9. PICK g : g = remove(put(f, d, unlinked(f.cache[d], nm)), t)
  BY SMTT(30)
<1>10. /\ fs' = g /\ held' = [held EXCEPT ![d] = NoClient] /\ Becomes(c, Idle)
       /\ UNCHANGED <<used, lost>>
  BY <1>1, <1>2, <1>6, <1>9, ZenonT(30) DEF unlinkRemove
<1>11. TakesFrom(f, g, d, nm, t)
  BY <1>4, <1>5, <1>8, <1>9, RemovedFacts, ZenonT(30)
<1>12. /\ EntriesOK(g, used)
       /\ \A S, y : Closed(f, S) /\ y \in Entry /\ Lists(f.cache[d], y) /\ y.name = nm
            /\ y.inum = t => Closed(g, S \ {t})
  BY <1>4, <1>5, <1>8, <1>11, RemovedEntries, Zenon
<1>13. lost \/ \E S \in SUBSET Dir : Closed(g, S)
  <2> SUFFICES ASSUME ~lost PROVE \E S \in SUBSET Dir : Closed(g, S)
    BY Zenon
  <2>1. PICK S \in SUBSET Dir : Closed(fs, S)
    BY Zenon DEF DirInv
  <2>2. Closed(f, S)
    BY <1>7, <2>1, ReadingClosed, Zenon
  <2>3. Finds(fs, p)
    BY <1>1, <1>3, ZenonT(30) DEF DirInv, OpsOK, Removing
  <2>4. PICK y \in Entry : Lists(f.cache[d], y) /\ y.name = nm /\ y.inum = t
    BY <1>2, <1>8, <2>3, ZenonT(30) DEF Finds
  <2>5. Closed(g, S \ {t})
    BY <1>12, <2>2, <2>4, Zenon
  <2> QED
    BY <2>1, <2>5, Zenon
<1>14. held' \in [Inum -> Owner] /\ \A j \in Inum \ {d} : held'[j] = held[j]
  BY <1>10, Zenon DEF DirInv, Owner
<1>15. PICK o : o = Idle
  BY Zenon
<1>16. Turn(c, o) /\ o.at = "idle"
  BY <1>10, <1>15, BecomesTurn, Zenon DEF Idle
<1>17. OpsOK'
  <2>1. OpOK(o, used') /\ Removing(c, o, fs', held', lost')
    BY <1>16, Zenon DEF OpOK, Removing
  <2>2. Undisturbed(c)
    <3> SUFFICES ASSUME NEW x \in Client \ {c}, op[x].at = "remove"
                 PROVE  /\ held'[op[x].i] = held[op[x].i]
                        /\ fs'.cache[op[x].i] = fs.cache[op[x].i]
      BY Zenon DEF Undisturbed
    <3>1. PICK k : k = op[x].i
      BY SMTT(30)
    <3>2. k \in Inum /\ held[k] = x
      BY <3>1, RemoverHolds, ZenonT(30) DEF RemoveOp, Inum
    <3>3. k # d /\ k # t
      BY <1>3, <1>5, <3>2, DirectoryAssumption, Zenon DEF Free
    <3>4. g.cache[k] = f.cache[k]
      BY <1>11, <3>2, <3>3, ZenonT(30) DEF TakesFrom
    <3> QED
      BY <1>7, <1>10, <1>14, <3>1, <3>2, <3>3, <3>4, ZenonT(30)
  <2> QED
    BY <1>10, <1>16, <2>1, <2>2, OpsStay, ZenonT(30)
<1>18. DirInv'
  <2>1. FsOK(g)
    BY <1>11, Zenon DEF TakesFrom
  <2> QED
    BY <1>10, <1>12, <1>13, <1>14, <1>17, <2>1, ZenonT(30) DEF DirInv
<1>19. \A j \in Inum : Visible(j) # None => flushed(f, j) = Visible(j)
  BY <1>7, SeesStays, Zenon
<1>20. \A j \in Inum \ {d} : Stays(j)
  <2> SUFFICES ASSUME NEW j \in Inum \ {d}, Visible(j) # None
               PROVE  Visible(j)' \in {None, Visible(j)}
    BY SMTT(30) DEF Stays
  <2>1. flushed(g, j) \in {None, flushed(f, j)}
    BY <1>11, Zenon DEF TakesFrom
  <2> QED
    BY <1>10, <1>19, <2>1, Zenon DEF Visible
<1>21. BytesStep
  BY <1>4, <1>20, StaysBytes, DirectoryAssumption, Zenon DEF Inum
<1>22. EntriesStep
  <2> SUFFICES ASSUME NEW x \in Dir, Visible(x) # None, Visible(x)' # None
               PROVE  /\ \A e \in Entries(x) \ Entries(x)' : x = d /\ e.name = nm
                      /\ Entries(x)' \subseteq Entries(x)
    <3>1. op[c].at = "remove" /\ op'[c].at = "idle" /\ op[c].i = d /\ op[c].name = nm
      BY <1>1, <1>2, <1>3, <1>16, Zenon DEF Turn
    <3> QED
      BY <3>1, Zenon DEF EntriesStep
  <2>1. CASE x # d
    <3>1. Visible(x)' = Visible(x)
      BY <1>20, <2>1, Zenon DEF Stays, Inum
    <3> QED
      BY <3>1, Zenon DEF Entries
  <2>2. CASE x = d
    <3>1. PICK s : s = f.cache[d]
      BY Zenon
    <3>2. s \in Seq(Entry) /\ s # None
      BY <1>4, <1>8, <3>1, Zenon DEF FsOK, Has, Content
    <3>3. Visible(d) = s
      BY <1>4, <1>8, <1>19, <2>2, <3>1, ZenonT(30) DEF flushed, Has
    <3>4. Visible(d)' = unlinked(s, nm)
      BY <1>10, <1>11, <3>1, ZenonT(30) DEF TakesFrom, Visible
    <3>5. Entries(d) = Range(s) /\ Entries(d)' = Range(unlinked(s, nm))
      BY <1>4, <2>2, <3>3, <3>4, DirectoryAssumption, Zenon DEF Entries
    <3>6. /\ unlinked(s, nm) \in Seq(Entry)
          /\ \A e \in Entry : e \in Range(unlinked(s, nm)) <=> e \in Range(s) /\ e.name # nm
      BY <1>4, <3>2, Unlinked, Zenon
    <3>7. Range(s) \subseteq Entry /\ Range(unlinked(s, nm)) \subseteq Entry
      BY <3>2, <3>6 DEF Range
    <3> QED
      BY <2>2, <3>5, <3>6, <3>7, Zenon
  <2> QED
    BY <2>1, <2>2, Zenon
<1> QED
  BY <1>18, <1>21, <1>22, Zenon DEF StepOK

----------------------------------------------------------------------------
(***************************************************************************)
(* At first there is no extent, and nothing can be reached from the root.  *)
(***************************************************************************)
LEMMA DirStarts == Init => DirInv
<1> SUFFICES ASSUME Init PROVE DirInv
  BY SMTT(30)
<1>1. FsOK(fs)
  BY ZenonT(30) DEF Init, FsOK, Owner, Extent
<1>2. EntriesOK(fs, used)
  BY DirectoryAssumption, ZenonT(30) DEF Init, EntriesOK, Known, Lists, Inum
<1>3. held \in [Inum -> Owner] /\ used \subseteq Inum /\ Root \in used
  BY DirectoryAssumption, Zenon DEF Init, Owner, Inum
<1>4. OpsOK
  BY SMTT(30) DEF Init, OpsOK, OpOK, Removing
<1>5. {Root} \in SUBSET Dir /\ Closed(fs, {Root})
  BY DirectoryAssumption, Zenon DEF Init, Closed, Lists, flushed, Has, Inum
<1> QED
  BY <1>1, <1>2, <1>3, <1>4, <1>5, Zenon DEF DirInv

(***************************************************************************)
(* Every step of every client keeps the invariant and changes directories  *)
(* and files as EntriesStay and FileBytes say.                             *)
(***************************************************************************)
LEMMA DirStep ==
    ASSUME DirInv, Next
    PROVE  StepOK
<1>1. PICK c \in Client :
    \/ Step(c)
    \/ \E h \in {"create", "mkdir", "lookup", "unlink"}, d \in Dir \intersect used, nm \in Name :
         Request(c, h, d, nm)
    \/ \E i \in used : \/ fuseserver_getattr(c, i) \/ fuseserver_open(c, i)
                       \/ fuseserver_read(c, i) \/ fuseserver_readdir(c, i)
    \/ \E i \in File \intersect used, off \in 0..(MaxSize - 1), b \in Byte :
         fuseserver_write(c, i, <<b>>, off)
    \/ \E i \in File \intersect used, n \in 0..MaxSize : fuseserver_setattr(c, i, n)
  BY Zenon DEF Next
<1>2. CASE Step(c)
  BY <1>2, StepConstructor, StepGetdir, StepLookup, StepAdd, StepGetattr, StepUnlink, StepRemove, ZenonT(30)
     DEF Step
<1>3. CASE \E h \in {"create", "mkdir", "lookup", "unlink"}, d \in Dir \intersect used,
              nm \in Name : Request(c, h, d, nm)
  BY <1>3, StepRequest, Zenon
<1>4. CASE \E i \in used : \/ fuseserver_getattr(c, i) \/ fuseserver_open(c, i)
                           \/ fuseserver_read(c, i) \/ fuseserver_readdir(c, i)
  BY <1>4, StepReads, Zenon DEF fuseserver_getattr, fuseserver_open, fuseserver_read, fuseserver_readdir
<1>5. CASE \E i \in File \intersect used, off \in 0..(MaxSize - 1), b \in Byte :
             fuseserver_write(c, i, <<b>>, off)
  BY <1>5, StepWrite, Zenon
<1>6. CASE \E i \in File \intersect used, n \in 0..MaxSize : fuseserver_setattr(c, i, n)
  BY <1>6, StepSetattr, Zenon
<1> QED
  BY <1>1, <1>2, <1>3, <1>4, <1>5, <1>6, Zenon

(***************************************************************************)
(* A step that changes nothing.                                            *)
(***************************************************************************)
LEMMA DirStutters ==
    ASSUME DirInv, UNCHANGED vars
    PROVE  DirInv'
BY SMTT(30) DEF DirInv, vars, OpsOK

(***************************************************************************)
(* What can be reached from the root is in every closed set, so its        *)
(* entries have extents.                                                   *)
(***************************************************************************)
LEMMA ReachedIsClosed ==
    ASSUME DirInv
    PROVE  EntryHasExtent
<1> SUFFICES ASSUME ~lost, NEW d \in Reached, NEW e \in Entries(d)
             PROVE  Visible(e.inum) # None
  BY Zenon DEF EntryHasExtent
<1>1. PICK S \in SUBSET Dir : Closed(fs, S)
  BY SMTT(30) DEF DirInv
<1>2. ASSUME NEW x \in Dir, NEW y \in Entries(x)
      PROVE  y \in Entry /\ Lists(flushed(fs, x), y)
  <2>1. x \in Inum /\ Content(x) = Seq(Entry)
    BY Zenon DEF Inum, Content
  <2>2. Visible(x) \in Seq(Entry) \union {None}
    BY <2>1, FlushedType, Zenon DEF DirInv, Visible
  <2> QED
    BY <2>2, <1>2 DEF Entries, Visible, Lists, Range
<1>3. ASSUME NEW x \in S PROVE {y.inum : y \in Entries(x)} \intersect Dir \subseteq S
  BY <1>1, <1>2, Zenon DEF Closed
<1>4. Root \in S
  BY <1>1, Zenon DEF Closed
<1>5. d \in Dir /\ d \in S
  BY <1>3, <1>4, Zenon DEF Reached
<1> QED
  BY <1>1, <1>2, <1>5, Zenon DEF Closed, Visible

(***************************************************************************)
(* The invariant of the directories holds.                                 *)
(***************************************************************************)
LEMMA DirInvHolds == Spec => []DirInv
<1>1. DirInv /\ [Next]_vars => DirInv'
  BY DirStep, DirStutters, Zenon DEF StepOK
<1> QED
  BY <1>1, DirStarts, PTL DEF Spec

(***************************************************************************)
(* Whatever the clients create, remove and create again, an entry that can *)
(* be reached from the root has an extent, unless an unlink did not find   *)
(* its name and removed what n2i's unset result named.                     *)
(***************************************************************************)
THEOREM EntryHasExtentHolds == Spec => []EntryHasExtent
BY DirInvHolds, ReachedIsClosed, PTL

(***************************************************************************)
(* No update of a directory is lost: an entry goes by an unlink of its     *)
(* name, and one that appears is of an inum not drawn before.              *)
(***************************************************************************)
THEOREM EntriesStayHolds == Spec => EntriesStay
<1>1. DirInv /\ [Next]_vars => [EntriesStep]_vars
  BY DirStep, Zenon DEF StepOK
<1> QED
  BY <1>1, DirInvHolds, PTL DEF Spec, EntriesStay, EntriesStep

(***************************************************************************)
(* A file changes by a write to its range or a change of its size, and not *)
(* when its lock goes from client to client.                               *)
(***************************************************************************)
THEOREM FileBytesHolds == Spec => FileBytes
<1>1. DirInv /\ [Next]_vars => [BytesStep]_vars
  BY DirStep, Zenon DEF StepOK
<1> QED
  BY <1>1, DirInvHolds, PTL DEF Spec, FileBytes, BytesStep
=============================================================================
