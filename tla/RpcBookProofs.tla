--------------------------- MODULE RpcBookProofs ---------------------------
(***************************************************************************)
(* Every step of the RPC library that starts from RpcInv keeps the books   *)
(* right: the windows of acknowledgements (AckInv), the counts of users of *)
(* a handle (HandleInv) and of holders of a connection (CountInv).         *)
(***************************************************************************)
EXTENDS RpcInvariants, FiniteSetTheorems, WellFoundedInduction, TLAPS

(***************************************************************************)
(* What RpcInv says of a thread, of the server and of a pool thread.       *)
(***************************************************************************)
LEMMA ThreadKnown ==
  ASSUME RpcInv
  PROVE  /\ HandleOK(rpcc, hmap) /\ ConnsOK(rpcc, nonce, ran, conn)
         /\ \A t \in Thread : /\ ThreadOK(rpcc, nonce, ran, th[t])
                              /\ hlock = t => Binding(rpcc, th[t])
                              /\ hlock = t <=> InBind(th[t])
BY Zenon DEF RpcInv, ThreadsOK, Binding

\* A thread between the send and the return of call1.
LEMMA CallKnown ==
  ASSUME NEW rs, NEW n, NEW rn, NEW s, ThreadOK(rs, n, rn, s),
         s.at \in {"send", "wait", "over"}
  PROVE  InCallOK(rs, n, rn, s)
BY DEF ThreadOK, Idle

\* The server's connections, queue, conns_ and pool.
LEMMA ServerKnown ==
  ASSUME RpcInv
  PROVE  /\ ConnsOK(rpcc, nonce, ran, conn) /\ JobsOK(rpcc, conn, jobs) /\ SavedOK(conn, conns)
         /\ WorkersOK(rpcc, conn, nonce, ran, window, wk)
         /\ nonce \in 1..nonce /\ nonce \in Nat
BY DEF RpcInv

\* A pool thread with a job serves a connection of the client of the job.
LEMMA WorkerKnown ==
  ASSUME RpcInv, NEW w \in Worker, wk[w].at # "idle"
  PROVE  Busy(wk[w])
<1>1. BusyOK(rpcc, conn, nonce, ran, window, wk[w])
  <2>1. WorkerOK(rpcc, conn, nonce, ran, window, wk[w])
    BY ServerKnown, Zenon DEF WorkersOK
  <2>2. wk[w] # Idle
    BY SMT DEF Idle
  <2> QED
    BY <2>1, <2>2, Zenon DEF WorkerOK
<1>2. /\ wk[w] \in [at : {"check", "dup", "run", "reply", "send"}, c : {wk[w].c}, h : {wk[w].h}]
      /\ wk[w].c \in DOMAIN conn /\ HeaderOK(rpcc, conn[wk[w].c].clt, wk[w].h)
  BY <1>1, Zenon DEF BusyOK, JobOK
<1>3. conn[wk[w].c].clt = wk[w].h.clt /\ wk[w].h.xid \in Xid
  BY <1>2, Zenon DEF HeaderOK
<1>4. wk[w].h.clt \in DOMAIN rpcc
  BY <1>2, <1>3, ServerKnown, Zenon DEF ConnsOK, ConnOK
<1>5. DOMAIN rpcc \subseteq ClientId
  <2>1. PICK S : rpcc \in Seq(S)
    BY Zenon DEF RpcInv, ClientsOK, IsSeq
  <2>2. Len(rpcc) <= MaxClients /\ Len(rpcc) \in Nat /\ DOMAIN rpcc = 1..Len(rpcc)
    BY <2>1 DEF RpcInv, ClientsOK
  <2> QED
    BY <2>2, RpcAssumption DEF ClientId
<1> QED
  BY <1>2, <1>3, <1>4, <1>5, Zenon DEF Busy

\* The least of a set of numbers.
LEMMA LeastOf ==
  ASSUME NEW S \in SUBSET Nat, S # {}
  PROVE  Min(S) \in S /\ \A y \in S : Min(S) <= y
<1> DEFINE R == {p \in Nat \X Nat : p[1] < p[2]}
<1>1. IsWellFoundedOn(R, Nat)
  <2>1. R = OpToRel(<, Nat)
    BY Zenon DEF OpToRel
  <2> QED
    BY <2>1, NatLessThanWellFounded, Zenon
<1>2. PICK x \in S : \A y \in S : ~ (<<y, x>> \in R)
  BY <1>1, WFMin, Zenon
<1>3. ASSUME NEW y \in S PROVE x <= y
  <2>1. <<y, x>> \in Nat \X Nat => ~ <<y, x>>[1] < <<y, x>>[2]
    BY <1>2, Zenon
  <2> QED
    BY <2>1
<1> QED
  BY <1>3, Zenon DEF Min

\* The position at which update_xid_rep inserts x in w, and the window with x in it.
InsertAt(w, x) == Min({i \in DOMAIN w : w[i] > x} \union {Len(w) + 1})

Inserted(w, x) ==
  SubSeq(w, 1, InsertAt(w, x) - 1) \o <<x>> \o SubSeq(w, InsertAt(w, x), Len(w))

\* Everything before the position is at most x, everything from it on is above x.
LEMMA InsertAtFacts ==
  ASSUME NEW n \in Nat, NEW w, Ordered(w, n), NEW x \in Nat, w[1] < x, NEW a, a = InsertAt(w, x)
  PROVE  /\ a \in 2..(Len(w) + 1)
         /\ \A i \in DOMAIN w : (i < a => w[i] <= x) /\ (i >= a => w[i] > x)
<1> DEFINE S == {i \in DOMAIN w : w[i] > x} \union {Len(w) + 1}
<1>1. w \in Seq(Nat) /\ Len(w) \in Nat /\ Len(w) # 0 /\ DOMAIN w = 1..Len(w)
  BY DEF Ordered
<1>2. S \in SUBSET Nat /\ S # {} /\ S \subseteq 1..(Len(w) + 1)
  BY <1>1
<1>3. a = Min(S)
  BY Zenon DEF InsertAt
<1>4. a \in S /\ \A y \in S : a <= y
  BY <1>2, <1>3, LeastOf, Zenon
<1>5. 1 \notin S
  BY <1>1
<1>6. a \in 2..(Len(w) + 1)
  <2>1. a \in 1..(Len(w) + 1) /\ a # 1
    BY <1>2, <1>4, <1>5, Zenon
  <2> QED
    BY <1>1, <2>1
<1>7. ASSUME NEW i \in DOMAIN w, i < a PROVE w[i] <= x
  <2>1. i \notin S
    BY <1>1, <1>4, <1>6, <1>7
  <2> QED
    BY <1>1, <2>1
<1>8. ASSUME NEW i \in DOMAIN w, i >= a PROVE w[i] > x
  <2>1. a \in DOMAIN w /\ w[a] > x
    BY <1>1, <1>4, <1>6, <1>8
  <2>2. w[a] <= w[i]
    BY <1>8, <2>1, Zenon DEF Ordered
  <2> QED
    BY <1>1, <2>1, <2>2
<1> QED
  BY <1>6, <1>7, <1>8, Zenon

\* Two sequences of numbers one after the other.
IsJoin(p, q, u) ==
  /\ u \in Seq(Nat) /\ Len(u) = Len(p) + Len(q)
  /\ \A i \in 1..Len(p) : u[i] = p[i]
  /\ \A i \in 1..Len(q) : u[Len(p) + i] = q[i]

\* This is what \o makes of them.
LEMMA Joined ==
  ASSUME NEW p \in Seq(Nat), NEW q \in Seq(Nat)
  PROVE  IsJoin(p, q, p \o q)
<1>0. PICK u : u = p \o q
  BY Zenon
<1>1. /\ u \in Seq(Nat) /\ Len(u) = Len(p) + Len(q)
      /\ \A i \in 1 .. Len(p) + Len(q) : u[i] = IF i <= Len(p) THEN p[i] ELSE q[i - Len(p)]
  BY <1>0, SMTT(30)
<1>2. Len(p) \in Nat /\ Len(q) \in Nat
  OBVIOUS
<1>3. ASSUME NEW i \in 1..Len(p) PROVE u[i] = p[i]
  BY <1>1, <1>2
<1>4. ASSUME NEW i \in 1..Len(q) PROVE u[Len(p) + i] = q[i]
  <2>1. PICK k : k = Len(p) + i
    BY Zenon
  <2>2. k \in 1 .. Len(p) + Len(q) /\ ~(k <= Len(p)) /\ k - Len(p) = i
    BY <1>2, <2>1
  <2>3. u[k] = IF k <= Len(p) THEN p[k] ELSE q[k - Len(p)]
    BY <1>1, <2>2, Zenon
  <2>4. u[k] = q[k - Len(p)]
    BY <2>2, <2>3, Zenon
  <2> QED
    BY <2>1, <2>2, <2>4, Zenon
<1> QED
  BY <1>0, <1>1, <1>3, <1>4, Zenon DEF IsJoin

\* A stretch of a sequence of numbers.
IsStretch(s, l, m, u) ==
  /\ u \in Seq(Nat) /\ Len(u) = m + 1 - l
  /\ \A i \in 1..(m + 1 - l) : u[i] = s[l + i - 1]

\* This is what SubSeq makes of it.
LEMMA Stretched ==
  ASSUME NEW s \in Seq(Nat), NEW l \in 1..(Len(s) + 1), NEW m \in 0..Len(s), l <= m + 1
  PROVE  IsStretch(s, l, m, SubSeq(s, l, m))
<1>1. l \in Int /\ m \in Int /\ Len(s) \in Nat
  OBVIOUS
<1>2. \A i \in l .. m : s[i] \in Nat
  OBVIOUS
<1>3. /\ SubSeq(s, l, m) \in Seq(Nat)
      /\ Len(SubSeq(s, l, m)) = IF l <= m THEN m - l + 1 ELSE 0
      /\ \A i \in 1 .. m - l + 1 : SubSeq(s, l, m)[i] = s[l + i - 1]
  BY <1>1, <1>2
<1>4. m - l + 1 = m + 1 - l /\ (~(l <= m) => m + 1 - l = 0)
  BY <1>1
<1>5. PICK u : u = SubSeq(s, l, m)
  BY Zenon
<1>6. /\ u \in Seq(Nat) /\ Len(u) = m + 1 - l
      /\ \A i \in 1..(m + 1 - l) : u[i] = s[l + i - 1]
  BY <1>3, <1>4, <1>5, Zenon
<1> QED
  BY <1>5, <1>6, Zenon DEF IsStretch

\* The elements of the window with x in it.
IsInsert(w, x, a, v) ==
  /\ v \in Seq(Nat) /\ Len(v) = Len(w) + 1
  /\ \A i \in 1..(a - 1) : v[i] = w[i]
  /\ v[a] = x
  /\ \A i \in a..Len(w) : v[i + 1] = w[i]

\* x goes in at position a.
LEMMA InsertedElements ==
  ASSUME NEW w \in Seq(Nat), NEW x \in Nat, NEW a \in 1..(Len(w) + 1)
  PROVE  IsInsert(w, x, a, SubSeq(w, 1, a - 1) \o <<x>> \o SubSeq(w, a, Len(w)))
<1>1. PICK p, q, r, u, v : /\ p = SubSeq(w, 1, a - 1) /\ q = SubSeq(w, a, Len(w))
                           /\ r = <<x>> /\ u = p \o r /\ v = u \o q
  BY Zenon
<1>2. /\ a - 1 \in 0..Len(w) /\ Len(w) \in Nat /\ a \in Nat /\ 1 \in 1..(Len(w) + 1)
      /\ 1 <= a - 1 + 1 /\ a <= Len(w) + 1 /\ Len(w) \in 0..Len(w) /\ a - 1 + 1 - 1 = a - 1
  OBVIOUS
<1>3. /\ p \in Seq(Nat) /\ Len(p) = a - 1 + 1 - 1
      /\ \A i \in 1..(a - 1 + 1 - 1) : p[i] = w[1 + i - 1]
  <2>1. IsStretch(w, 1, a - 1, p)
    BY <1>1, <1>2, Stretched, Zenon
  <2> QED
    BY <2>1, Zenon DEF IsStretch
<1>4. /\ q \in Seq(Nat) /\ Len(q) = Len(w) + 1 - a
      /\ \A i \in 1..(Len(w) + 1 - a) : q[i] = w[a + i - 1]
  <2>1. IsStretch(w, a, Len(w), q)
    BY <1>1, <1>2, Stretched, Zenon
  <2> QED
    BY <2>1, Zenon DEF IsStretch
<1>5. r \in Seq(Nat) /\ Len(r) = 1 /\ r[1] = x
  BY <1>1
<1>6. /\ u \in Seq(Nat) /\ Len(u) = Len(p) + Len(r)
      /\ \A i \in 1..Len(p) : u[i] = p[i]
      /\ \A i \in 1..Len(r) : u[Len(p) + i] = r[i]
  <2>1. IsJoin(p, r, u)
    BY <1>1, <1>3, <1>5, Joined, Zenon
  <2> QED
    BY <2>1, Zenon DEF IsJoin
<1>7. Len(u) = a /\ Len(p) = a - 1
  BY <1>2, <1>3, <1>5, <1>6
<1>8. /\ v \in Seq(Nat) /\ Len(v) = Len(u) + Len(q)
      /\ \A i \in 1..Len(u) : v[i] = u[i]
      /\ \A i \in 1..Len(q) : v[Len(u) + i] = q[i]
  <2>1. IsJoin(u, q, v)
    BY <1>1, <1>4, <1>6, Joined, Zenon
  <2> QED
    BY <2>1, Zenon DEF IsJoin
<1>9. Len(v) = Len(w) + 1
  <2>1. Len(v) = a + (Len(w) + 1 - a)
    BY <1>4, <1>7, <1>8, Zenon
  <2> QED
    BY <1>2, <2>1
<1>10. ASSUME NEW i \in 1..(a - 1) PROVE v[i] = w[i]
  <2>1. i \in 1..Len(u) /\ i \in 1..Len(p) /\ 1 + i - 1 = i
    BY <1>2, <1>7
  <2>2. v[i] = u[i] /\ u[i] = p[i]
    BY <1>6, <1>8, <2>1, Zenon
  <2>3. p[i] = w[1 + i - 1]
    BY <1>2, <1>3, Zenon
  <2> QED
    BY <2>1, <2>2, <2>3, Zenon
<1>11. v[a] = x
  <2>1. a \in 1..Len(u) /\ 1 \in 1..Len(r) /\ Len(p) + 1 = a
    BY <1>2, <1>5, <1>7
  <2>2. u[Len(p) + 1] = r[1] /\ v[a] = u[a]
    BY <1>6, <1>8, <2>1, Zenon
  <2> QED
    BY <1>5, <2>1, <2>2, Zenon
<1>12. ASSUME NEW i \in a..Len(w) PROVE v[i + 1] = w[i]
  <2>1. PICK j : j = i + 1 - a
    BY Zenon
  <2>2. /\ j \in 1..Len(q) /\ j \in 1..(Len(w) + 1 - a)
        /\ Len(u) + j = i + 1 /\ a + j - 1 = i
    BY <1>2, <1>4, <1>7, <2>1
  <2>3. v[Len(u) + j] = q[j] /\ q[j] = w[a + j - 1]
    BY <1>4, <1>8, <2>2, Zenon
  <2> QED
    BY <2>2, <2>3, Zenon
<1>13. IsInsert(w, x, a, v)
  BY <1>8, <1>9, <1>10, <1>11, <1>12, Zenon DEF IsInsert
<1> QED
  BY <1>1, <1>13, Zenon

\* Inserting keeps the window in order and adds x.
OneIn(w, x, v) ==
  /\ v[1] = w[1]
  /\ \A y : (\E i \in DOMAIN v : v[i] = y) <=> (y = x \/ \E i \in DOMAIN w : w[i] = y)

\* So does update_xid_rep.
LEMMA InsertKeepsOrder ==
  ASSUME NEW n \in Nat, NEW w, Ordered(w, n), NEW x \in Nat, w[1] < x, x < n,
         NEW v, v = Inserted(w, x)
  PROVE  Ordered(v, n) /\ OneIn(w, x, v)
<1>1. PICK a : a = InsertAt(w, x)
  BY Zenon
<1>2. w \in Seq(Nat) /\ Len(w) \in Nat /\ Len(w) # 0 /\ DOMAIN w = 1..Len(w)
  BY DEF Ordered
<1>3. /\ a \in 2..(Len(w) + 1)
      /\ \A i \in DOMAIN w : (i < a => w[i] <= x) /\ (i >= a => w[i] > x)
  BY <1>1, InsertAtFacts, Zenon
<1>4. a \in 1..(Len(w) + 1) /\ v = SubSeq(w, 1, a - 1) \o <<x>> \o SubSeq(w, a, Len(w))
  BY <1>1, <1>2, <1>3 DEF Inserted
<1>5. /\ v \in Seq(Nat) /\ Len(v) = Len(w) + 1
      /\ \A i \in 1..(a - 1) : v[i] = w[i]
      /\ v[a] = x
      /\ \A i \in a..Len(w) : v[i + 1] = w[i]
  <2>1. IsInsert(w, x, a, v)
    BY <1>2, <1>4, InsertedElements, Zenon
  <2> QED
    BY <2>1, Zenon DEF IsInsert
<1>6. DOMAIN v = 1..(Len(w) + 1) /\ v[1] = w[1]
  BY <1>2, <1>3, <1>5
<1>14. a \in Nat /\ Len(w) \in Nat /\ 2 <= a /\ a <= Len(w) + 1
  <2>1. a \in 2..(Len(w) + 1) /\ Len(w) \in Nat
    BY <1>2, <1>3, Zenon
  <2> QED
    BY <2>1
<1>13. ASSUME NEW j \in 1..(Len(w) + 1), j > a
       PROVE  j - 1 \in DOMAIN w /\ w[j - 1] > x /\ v[j] = w[j - 1]
  <2>1. PICK i : i = j - 1
    BY Zenon
  <2>2. i \in a..Len(w) /\ i + 1 = j /\ i \in DOMAIN w /\ i >= a
    BY <1>2, <1>3, <1>13, <2>1
  <2>3. v[i + 1] = w[i] /\ w[i] > x
    BY <1>3, <1>5, <2>2, Zenon
  <2> QED
    BY <2>1, <2>2, <2>3, Zenon
<1>7. ASSUME NEW i \in DOMAIN v, NEW j \in DOMAIN v, i <= j PROVE v[i] <= v[j]
  <2>1. i \in 1..(Len(w) + 1) /\ j \in 1..(Len(w) + 1)
    BY <1>6, Zenon
  <2>2. CASE j < a
    <3>1. i \in DOMAIN w /\ j \in DOMAIN w /\ v[i] = w[i] /\ v[j] = w[j]
      <4>1. /\ i \in 1..(a - 1) /\ j \in 1..(a - 1)
            /\ i \in 1..Len(w) /\ j \in 1..Len(w)
        BY <1>7, <1>14, <2>1, <2>2
      <4> QED
        BY <1>2, <1>5, <4>1, Zenon
    <3> QED
      BY <1>7, <3>1, Zenon DEF Ordered
  <2>3. CASE i < a /\ j >= a
    <3>1. i \in DOMAIN w /\ v[i] = w[i] /\ w[i] <= x
      <4>1. i \in 1..(a - 1) /\ i \in 1..Len(w)
        BY <1>14, <2>1, <2>3
      <4> QED
        BY <1>2, <1>3, <1>5, <2>3, <4>1, Zenon
    <3>2. j # a => j - 1 \in DOMAIN w /\ w[j - 1] > x /\ v[j] = w[j - 1]
      BY <1>3, <1>13, <2>1, <2>3
    <3>3. j = a => v[j] = x
      BY <1>5, Zenon
    <3> QED
      BY <1>2, <3>1, <3>2, <3>3
  <2>4. CASE i >= a
    <3>1. j # a => j - 1 \in DOMAIN w /\ w[j - 1] > x /\ v[j] = w[j - 1]
      BY <1>3, <1>7, <1>13, <2>1, <2>4
    <3>2. i # a => i - 1 \in DOMAIN w /\ v[i] = w[i - 1]
      BY <1>3, <1>13, <2>1, <2>4
    <3>3. v[a] = x
      BY <1>5, Zenon
    <3>4. CASE i = a
      BY <1>2, <3>1, <3>3, <3>4
    <3>5. CASE i # a
      <4>1. j # a /\ i - 1 <= j - 1
        BY <1>3, <1>7, <2>1, <2>4, <3>5
      <4>2. w[i - 1] <= w[j - 1]
        BY <3>1, <3>2, <3>5, <4>1, Zenon DEF Ordered
      <4> QED
        BY <3>1, <3>2, <3>5, <4>1, <4>2, Zenon
    <3> QED
      BY <3>4, <3>5, Zenon
  <2> QED
    BY <1>3, <2>1, <2>2, <2>3, <2>4
<1>8. ASSUME NEW i \in DOMAIN v PROVE v[i] = x \/ \E j \in DOMAIN w : v[i] = w[j]
  <2>1. i \in 1..(Len(w) + 1)
    BY <1>6, Zenon
  <2>2. CASE i < a
    <3>1. i \in DOMAIN w /\ v[i] = w[i]
      <4>1. i \in 1..(a - 1) /\ i \in 1..Len(w)
        BY <1>14, <2>1, <2>2
      <4> QED
        BY <1>2, <1>5, <4>1, Zenon
    <3> QED
      BY <3>1, Zenon
  <2>3. CASE i = a
    BY <1>5, <2>3, Zenon
  <2>4. CASE i > a
    <3>1. i - 1 \in DOMAIN w /\ v[i] = w[i - 1]
      BY <1>13, <2>1, <2>4, Zenon
    <3> QED
      BY <3>1, Zenon
  <2> QED
    BY <1>3, <2>1, <2>2, <2>3, <2>4
<1>9. ASSUME NEW j \in DOMAIN w PROVE \E i \in DOMAIN v : v[i] = w[j]
  <2>1. CASE j < a
    <3>1. j \in DOMAIN v /\ v[j] = w[j]
      BY <1>2, <1>3, <1>5, <1>6, <2>1
    <3> QED
      BY <3>1, Zenon
  <2>2. CASE j >= a
    <3>1. j + 1 \in DOMAIN v /\ j \in a..Len(w)
      BY <1>2, <1>3, <1>6, <2>2
    <3>2. v[j + 1] = w[j]
      BY <1>5, <3>1, Zenon
    <3> QED
      BY <3>1, <3>2, Zenon
  <2> QED
    BY <1>2, <1>3, <2>1, <2>2
<1>10. a \in DOMAIN v /\ v[a] = x
  BY <1>2, <1>3, <1>5, <1>6
<1>11. \A i \in DOMAIN v : v[i] < n
  BY <1>8, Zenon DEF Ordered
<1>12. Ordered(v, n)
  BY <1>2, <1>5, <1>7, <1>11 DEF Ordered
<1> QED
  BY <1>6, <1>8, <1>9, <1>10, <1>12 DEF OneIn

\* What is popped from the front stays covered by the front, and nothing else is.
LEMMA Compresses ==
  ASSUME NEW n \in Nat, NEW v, Ordered(v, n), NEW f,
         f = Min({g \in DOMAIN v : \A j \in DOMAIN v : v[j] # v[g] + 1}),
         NEW w, w = SubSeq(v, f, Len(v))
  PROVE  WindowFits(w, n) /\ \A y \in Nat : Covered(w, y) <=> Covered(v, y)
<1> DEFINE S == {g \in DOMAIN v : \A j \in DOMAIN v : v[j] # v[g] + 1}
<1>1. v \in Seq(Nat) /\ Len(v) \in Nat /\ Len(v) # 0 /\ DOMAIN v = 1..Len(v)
  BY DEF Ordered
<1>2. Len(v) \in S
  <2>1. Len(v) \in DOMAIN v
    BY <1>1
  <2>2. ASSUME NEW j \in DOMAIN v PROVE v[j] # v[Len(v)] + 1
    <3>1. v[j] <= v[Len(v)] /\ v[j] \in Nat /\ v[Len(v)] \in Nat
      BY <1>1, <2>1 DEF Ordered
    <3> QED
      BY <3>1
  <2> QED
    BY <2>1, <2>2, Zenon
<1>3. S \in SUBSET Nat /\ S # {}
  <2>1. DOMAIN v \subseteq Nat
    BY <1>1
  <2>2. S \subseteq DOMAIN v
    BY Zenon
  <2> QED
    BY <1>2, <2>1, <2>2, Zenon
<1>4. f \in S /\ \A g \in S : f <= g
  BY <1>3, LeastOf, Zenon
<1>5. f \in 1..Len(v) /\ \A j \in DOMAIN v : v[j] # v[f] + 1
  BY <1>1, <1>4, Zenon
<1>15. Len(v) \in Nat /\ f \in Nat /\ 1 <= f /\ f <= Len(v)
  <2>1. f \in 1..Len(v) /\ Len(v) \in Nat
    BY <1>1, <1>5, Zenon
  <2> QED
    BY <2>1
<1>16. \A j \in DOMAIN v : v[j] \in Nat
  BY <1>1
<1>6. ASSUME NEW g \in 1..(f - 1) PROVE \E j \in DOMAIN v : v[j] = v[g] + 1
  <2>1. g \in DOMAIN v /\ ~(f <= g)
    <3>1. g \in 1..Len(v) /\ ~(f <= g)
      BY <1>15
    <3> QED
      BY <1>1, <3>1, Zenon
  <2>2. g \notin S
    BY <1>4, <2>1, Zenon
  <2> QED
    BY <2>1, <2>2, Zenon
<1> HIDE DEF S
<1>7. /\ w \in Seq(Nat) /\ Len(w) = Len(v) + 1 - f
      /\ \A i \in 1..(Len(v) + 1 - f) : w[i] = v[f + i - 1]
  <2>1. f \in 1..(Len(v) + 1) /\ Len(v) \in 0..Len(v) /\ f <= Len(v) + 1
    BY <1>15
  <2>2. IsStretch(v, f, Len(v), w)
    BY <1>1, <2>1, Stretched, Zenon
  <2> QED
    BY <2>2, Zenon DEF IsStretch
<1>8. /\ DOMAIN w = 1..(Len(v) + 1 - f) /\ Len(w) # 0 /\ w[1] = v[f]
      /\ 1 \in DOMAIN v /\ f \in DOMAIN v
  <2>1. /\ 1 \in 1..(Len(v) + 1 - f) /\ f + 1 - 1 = f /\ Len(v) + 1 - f # 0
        /\ 1 \in 1..Len(v) /\ f \in 1..Len(v)
    BY <1>15
  <2>2. DOMAIN w = 1..Len(w)
    BY <1>7
  <2>3. w[1] = v[f + 1 - 1]
    BY <1>7, <2>1, Zenon
  <2> QED
    BY <1>1, <1>7, <2>1, <2>2, <2>3, Zenon
<1>9. ASSUME NEW i \in DOMAIN w PROVE f + i - 1 \in DOMAIN v /\ w[i] = v[f + i - 1]
  <2>1. i \in 1..(Len(v) + 1 - f)
    BY <1>8, Zenon
  <2>2. f \in 1..Len(v) /\ Len(v) \in Nat
    BY <1>1, <1>5, Zenon
  <2>3. f + i - 1 \in 1..Len(v)
    BY <2>1, <2>2
  <2> QED
    BY <1>1, <1>7, <2>1, <2>3, Zenon
<1>10. ASSUME NEW i \in DOMAIN w, NEW j \in DOMAIN w, i <= j PROVE w[i] <= w[j]
  <2>1. f + i - 1 <= f + j - 1
    <3>1. i \in 1..(Len(v) + 1 - f) /\ j \in 1..(Len(v) + 1 - f)
      BY <1>8, Zenon
    <3> QED
      BY <1>10, <1>15, <3>1
  <2> QED
    BY <1>9, <2>1, Zenon DEF Ordered
<1>11. Ordered(w, n)
  <2>1. \A i \in DOMAIN w : w[i] < n
    BY <1>9, Zenon DEF Ordered
  <2> QED
    BY <1>7, <1>8, <1>10, <2>1, Zenon DEF Ordered
<1>12. Compressed(w)
  <2>1. ASSUME NEW j \in DOMAIN w PROVE w[j] # v[f] + 1
    BY <1>5, <1>9, Zenon
  <2> QED
    BY <1>8, <2>1, Zenon DEF Compressed
<1>13. ASSUME NEW y \in Nat, Covered(v, y) PROVE Covered(w, y)
  <2>1. v[1] <= v[f] /\ v[1] \in Nat /\ v[f] \in Nat
    <3>1. 1 <= f
      BY <1>15
    <3>2. \A i, j \in DOMAIN v : i <= j => v[i] <= v[j]
      BY Zenon DEF Ordered
    <3>3. v[1] \in Nat /\ v[f] \in Nat
      BY <1>8, <1>16, Zenon
    <3> QED
      BY <1>8, <3>1, <3>2, <3>3, Zenon
  <2>2. CASE y <= v[1]
    <3>1. y <= v[f]
      BY <2>1, <2>2
    <3> QED
      BY <1>8, <3>1, Zenon DEF Covered
  <2>3. CASE y > v[1]
    <3>1. PICK i \in DOMAIN v : v[i] = y
      <4>1. ~(y <= v[1])
        BY <2>1, <2>3
      <4> QED
        BY <1>13, <4>1, Zenon DEF Covered
    <3>2. CASE i <= f
      <4>1. v[i] <= v[f]
        BY <1>8, <3>2, Zenon DEF Ordered
      <4> QED
        BY <1>8, <3>1, <4>1, Zenon DEF Covered
    <3>3. CASE i > f
      <4>1. PICK j : j = i - f + 1
        BY Zenon
      <4>2. j \in DOMAIN w /\ f + j - 1 = i
        <5>1. i \in 1..Len(v) /\ f \in 1..Len(v) /\ Len(v) \in Nat
          BY <1>1, <1>5, Zenon
        <5>2. j \in 1..(Len(v) + 1 - f) /\ f + j - 1 = i
          BY <1>15, <3>3, <4>1, <5>1
        <5> QED
          BY <1>8, <5>2, Zenon
      <4>3. w[j] = v[i]
        BY <1>9, <4>2, Zenon
      <4> QED
        BY <3>1, <4>2, <4>3, Zenon DEF Covered
    <3> QED
      <4>1. i \in 1..Len(v)
        BY <1>1, <3>1, Zenon
      <4>2. i <= f \/ i > f
        BY <1>15, <4>1
      <4> QED
        BY <3>2, <3>3, <4>2, Zenon
  <2> QED
    BY <2>1, <2>2, <2>3
<1>14. ASSUME NEW y \in Nat, Covered(w, y) PROVE Covered(v, y)
  <2>1. CASE \E i \in DOMAIN w : w[i] = y
    BY <1>9, <2>1, Zenon DEF Covered
  <2>2. CASE y <= w[1]
    <3> DEFINE G == {g \in DOMAIN v : v[g] >= y}
    <3>1. G \in SUBSET Nat /\ f \in G
      <4>1. DOMAIN v \subseteq Nat
        BY <1>1
      <4>2. v[f] >= y
        <5>1. v[f] \in Nat /\ y <= v[f]
          BY <1>8, <1>16, <2>2, Zenon
        <5> QED
          BY <5>1
      <4> QED
        BY <1>8, <4>1, <4>2, Zenon
    <3>2. PICK g : g = Min(G)
      BY Zenon
    <3>3. g \in G /\ \A i \in G : g <= i
      <4>1. G # {}
        BY <3>1, Zenon
      <4> QED
        BY <3>1, <3>2, <4>1, LeastOf, Zenon
    <3>4. g \in DOMAIN v /\ v[g] >= y /\ g <= f
      BY <3>1, <3>3, Zenon
    <3>5. CASE g = 1
      BY <3>4, <3>5, <1>1, Zenon DEF Covered
    <3>6. CASE g # 1
      <4>1. g - 1 \in DOMAIN v /\ g - 1 \in 1..(f - 1) /\ g - 1 \notin G
        <5>1. g \in 1..Len(v) /\ f \in 1..Len(v) /\ Len(v) \in Nat /\ g <= f
          BY <1>1, <1>5, <3>4, Zenon
        <5>2. g - 1 \in 1..Len(v) /\ g - 1 \in 1..(f - 1) /\ ~(g <= g - 1)
          BY <3>6, <5>1
        <5> QED
          BY <1>1, <3>3, <5>2, Zenon
      <4>2. v[g - 1] < y /\ v[g - 1] \in Nat
        <5>1. v[g - 1] \in Nat /\ ~(v[g - 1] >= y)
          BY <1>16, <4>1, Zenon
        <5> QED
          BY <5>1
      <4>3. PICK j \in DOMAIN v : v[j] = v[g - 1] + 1
        BY <1>6, <4>1, Zenon
      <4>4. j >= g
        <5>1. j <= g - 1 => v[j] <= v[g - 1]
          BY <4>1, Zenon DEF Ordered
        <5>2. ~(j <= g - 1)
          BY <4>2, <4>3, <5>1
        <5>3. g \in 1..Len(v) /\ j \in 1..Len(v)
          BY <1>1, <3>4, <4>3, Zenon
        <5> QED
          BY <1>15, <5>2, <5>3
      <4>5. v[g] <= v[j] /\ v[g] \in Nat
        <5>1. g <= j
          <6>1. g \in 1..Len(v) /\ j \in 1..Len(v)
            BY <1>1, <3>4, <4>3, Zenon
          <6> QED
            BY <1>15, <4>4, <6>1
        <5> QED
          BY <1>16, <3>4, <4>3, <5>1, Zenon DEF Ordered
      <4>6. v[j] = y
        BY <3>4, <4>2, <4>3, <4>5
      <4> QED
        BY <4>6, Zenon DEF Covered
    <3> QED
      BY <3>5, <3>6, Zenon
  <2> QED
    BY <1>14, <2>1, <2>2, Zenon DEF Covered
<1> QED
  BY <1>11, <1>12, <1>13, <1>14, Zenon DEF WindowFits

\* update_xid_rep: afterwards the window covers what it covered before, and x.
LEMMA UpdateXidRep ==
  ASSUME NEW n \in Nat, NEW w, WindowFits(w, n), NEW x \in Nat, x < n,
         NEW u, u = update_xid_rep(w, x)
  PROVE  WindowFits(u, n) /\ \A y \in Nat : Covered(u, y) <=> (Covered(w, y) \/ y = x)
<1>1. Ordered(w, n) /\ w \in Seq(Nat) /\ w[1] \in Nat /\ Head(w) = w[1]
  BY DEF WindowFits, Ordered
<1>2. CASE x <= w[1]
  <2>1. u = w
    BY <1>1, <1>2, Zenon DEF update_xid_rep
  <2>2. Covered(w, x)
    BY <1>2, Zenon DEF Covered
  <2> QED
    BY <2>1, <2>2, Zenon
<1>3. CASE x > w[1]
  <2>1. PICK v, f : /\ v = Inserted(w, x)
                    /\ f = Min({g \in DOMAIN v : \A j \in DOMAIN v : v[j] # v[g] + 1})
    BY Zenon
  <2>2. u = SubSeq(v, f, Len(v))
    <3>1. ~(x <= Head(w))
      BY <1>1, <1>3
    <3> QED
      BY <2>1, <3>1, Zenon DEF update_xid_rep, Inserted, InsertAt
  <2>3. w[1] < x
    BY <1>1, <1>3, Zenon
  <2>4. /\ Ordered(v, n) /\ v[1] = w[1]
        /\ \A y : (\E i \in DOMAIN v : v[i] = y) <=> (y = x \/ \E i \in DOMAIN w : w[i] = y)
    <3>1. Ordered(v, n) /\ OneIn(w, x, v)
      BY <1>1, <2>1, <2>3, InsertKeepsOrder, Zenon
    <3> QED
      BY <3>1, Zenon DEF OneIn
  <2>5. WindowFits(u, n) /\ \A y \in Nat : Covered(u, y) <=> Covered(v, y)
    BY <2>1, <2>2, <2>4, Compresses, ZenonT(30)
  <2>6. \A y \in Nat : Covered(v, y) <=> (Covered(w, y) \/ y = x)
    BY <2>4, Zenon DEF Covered
  <2> QED
    BY <2>5, <2>6, Zenon
<1> QED
  BY <1>1, <1>2, <1>3

\* Every call a thread is in has drawn its xid.
Drawn(rs, ts) ==
  \A t \in Thread : InCall1(ts[t]) =>
    /\ ts[t].h.clt \in DOMAIN rs
    /\ ts[t].h.xid \in Nat /\ ts[t].h.xid < rs[ts[t].h.clt].xid

\* The clients rs and rs2 agree on the windows and the numbers of their calls, k aside.
SameCalls(rs, rs2, k) ==
  /\ DOMAIN rs2 = DOMAIN rs
  /\ \A j \in DOMAIN rs \ {k} : rs2[j].window = rs[j].window /\ rs2[j].xid = rs[j].xid

\* A thread that moves on within its call, or is in none.
Lingers(s, u) ==
  /\ InCall1(u) <=> InCall1(s)
  /\ InCall1(s) => u.h = s.h /\ u.ret = s.ret

\* Steps that are not about calls.
LEMMA AckQuiet ==
  ASSUME NEW rs, NEW ts, WindowsFit(rs, ts), NEW rs2, NEW ts2, DOMAIN rs2 = DOMAIN rs,
         \A k \in DOMAIN rs : rs2[k].window = rs[k].window /\ rs2[k].xid = rs[k].xid,
         \A t \in Thread : Lingers(ts[t], ts2[t])
  PROVE  WindowsFit(rs2, ts2)
<1>1. ASSUME NEW k, NEW x PROVE Open(ts2, k, x) <=> Open(ts, k, x)
  BY Zenon DEF Open, OpenAt, Lingers
<1>2. Distinct(ts2)
  BY Zenon DEF WindowsFit, Distinct, Lingers
<1>3. ASSUME NEW k \in DOMAIN rs2 PROVE Acknowledged(rs2, ts2, k)
  <2>1. Acknowledged(rs, ts, k) /\ rs2[k].window = rs[k].window /\ rs2[k].xid = rs[k].xid
    BY <1>3, Zenon DEF WindowsFit
  <2> QED
    BY <1>1, <2>1, Zenon DEF Acknowledged
<1> QED
  BY <1>2, <1>3, Zenon DEF WindowsFit

\* call1 draws a number above all that the client has drawn, which is open from now on.
LEMMA AckCall ==
  ASSUME NEW rs, NEW ts, WindowsFit(rs, ts), Drawn(rs, ts), NEW t \in Thread, ~InCall1(ts[t]),
         NEW rs2, NEW ts2, NEW k \in DOMAIN rs, SameCalls(rs, rs2, k), rs[k].xid \in Nat \ {0},
         rs2[k].window = rs[k].window, rs2[k].xid = rs[k].xid + 1,
         \A u \in Thread \ {t} : ts2[u] = ts[u],
         InCall1(ts2[t]), ts2[t].ret = "none", ts2[t].h.clt = k, ts2[t].h.xid = rs[k].xid
  PROVE  WindowsFit(rs2, ts2)
<1>1. ASSUME NEW j, NEW x PROVE Open(ts2, j, x) <=> (Open(ts, j, x) \/ (j = k /\ x = rs[k].xid))
  BY DEF Open, OpenAt
<1>2. Distinct(ts2)
  <2>1. ASSUME NEW u \in Thread \ {t}, InCall1(ts2[u]), ts2[u].h.clt = k
        PROVE  ts2[u].h.xid # rs[k].xid
    BY <2>1 DEF Drawn
  <2>2. ASSUME NEW u \in Thread, NEW v \in Thread, InCall1(ts2[u]), InCall1(ts2[v]),
               ts2[u].h.clt = ts2[v].h.clt, ts2[u].h.xid = ts2[v].h.xid
        PROVE  u = v
    <3>1. CASE u = t \/ v = t
      BY <2>1, <2>2, <3>1
    <3>2. CASE u # t /\ v # t
      BY <2>2, <3>2 DEF WindowsFit, Distinct
    <3> QED
      BY <3>1, <3>2, Zenon
  <2> QED
    BY <2>2, Zenon DEF Distinct
<1>3. ASSUME NEW j \in DOMAIN rs2, j # k PROVE Acknowledged(rs2, ts2, j)
  <2>1. /\ Acknowledged(rs, ts, j) /\ rs2[j].window = rs[j].window /\ rs2[j].xid = rs[j].xid
        /\ \A x : Open(ts2, j, x) <=> Open(ts, j, x)
    BY <1>1, <1>3, Zenon DEF WindowsFit, SameCalls
  <2> QED
    BY <2>1, Zenon DEF Acknowledged
<1>4. Acknowledged(rs2, ts2, k)
  <2>1. PICK w, n : w = rs[k].window /\ n = rs[k].xid
    BY Zenon
  <2>2. /\ WindowFits(w, n) /\ n \in Nat \ {0} /\ rs2[k].window = w /\ rs2[k].xid = n + 1
        /\ \A x \in 1..(n - 1) : Covered(w, x) <=> ~Open(ts, k, x)
    BY <2>1, Zenon DEF WindowsFit, Acknowledged
  <2>3. /\ w \in Seq(Nat) /\ Len(w) # 0 /\ \A i \in DOMAIN w : w[i] < n /\ w[i] \in Nat
        /\ 1 \in DOMAIN w
    BY <2>2 DEF WindowFits, Ordered
  <2>4. WindowFits(w, n + 1)
    <3>1. \A i \in DOMAIN w : w[i] < n + 1
      BY <2>2, <2>3
    <3> QED
      BY <2>2, <3>1, Zenon DEF WindowFits, Ordered
  <2>5. ~Covered(w, n)
    BY <2>2, <2>3 DEF Covered
  <2>6. Open(ts2, k, n) /\ \A x : x # n => (Open(ts2, k, x) <=> Open(ts, k, x))
    BY <1>1, <2>1, Zenon
  <2>7. \A x \in 1..(n + 1 - 1) : x = n \/ x \in 1..(n - 1)
    BY <2>2
  <2>8. \A x \in 1..(n + 1 - 1) : Covered(w, x) <=> ~Open(ts2, k, x)
    BY <2>2, <2>5, <2>6, <2>7, Zenon
  <2> QED
    BY <2>2, <2>4, <2>8 DEF Acknowledged
<1> QED
  BY <1>2, <1>3, <1>4, Zenon DEF WindowsFit

\* got_pdu, and the end of call1: call x of client k is open no more, and covered.
LEMMA AckClose ==
  ASSUME NEW rs, NEW ts, WindowsFit(rs, ts), NEW rs2, NEW ts2, NEW k \in DOMAIN rs,
         SameCalls(rs, rs2, k), rs[k].xid \in Nat, NEW x \in Nat, x < rs[k].xid,
         rs2[k].window = update_xid_rep(rs[k].window, x), rs2[k].xid = rs[k].xid,
         \A j, y : Open(ts2, j, y) <=> (Open(ts, j, y) /\ ~(j = k /\ y = x)),
         Distinct(ts2)
  PROVE  WindowsFit(rs2, ts2)
<1>1. ASSUME NEW j \in DOMAIN rs2, j # k PROVE Acknowledged(rs2, ts2, j)
  <2>1. /\ Acknowledged(rs, ts, j) /\ rs2[j].window = rs[j].window /\ rs2[j].xid = rs[j].xid
        /\ \A y : Open(ts2, j, y) <=> Open(ts, j, y)
    BY <1>1, Zenon DEF WindowsFit, SameCalls
  <2> QED
    BY <2>1, Zenon DEF Acknowledged
<1>2. Acknowledged(rs2, ts2, k)
  <2>1. PICK w, u, n : w = rs[k].window /\ n = rs[k].xid /\ u = update_xid_rep(w, x)
    BY Zenon
  <2>2. /\ WindowFits(w, n) /\ n \in Nat /\ x < n /\ rs2[k].window = u /\ rs2[k].xid = n
        /\ \A y \in 1..(n - 1) : Covered(w, y) <=> ~Open(ts, k, y)
    BY <2>1, Zenon DEF WindowsFit, Acknowledged
  <2>3. WindowFits(u, n) /\ \A y \in Nat : Covered(u, y) <=> (Covered(w, y) \/ y = x)
    BY <2>1, <2>2, UpdateXidRep
  <2>4. \A y \in 1..(n - 1) : y \in Nat
    BY <2>2
  <2>5. \A y \in 1..(n - 1) : Covered(u, y) <=> ~Open(ts2, k, y)
    BY <2>2, <2>3, <2>4, Zenon
  <2> QED
    BY <2>2, <2>3, <2>5, Zenon DEF Acknowledged
<1> QED
  BY <1>1, <1>2, Zenon DEF WindowsFit, SameCalls

\* The calls threads are in are of clients that exist.
LEMMA CallsDrawn ==
  ASSUME RpcInv
  PROVE  Drawn(rpcc, th) /\ \A k \in DOMAIN rpcc : rpcc[k].xid \in Nat \ {0, 1}
<1>1. ASSUME NEW t \in Thread, InCall1(th[t])
      PROVE  /\ th[t].h.clt \in DOMAIN rpcc
             /\ th[t].h.xid \in Nat /\ th[t].h.xid < rpcc[th[t].h.clt].xid
  <2>1. InCallOK(rpcc, nonce, ran, th[t])
    BY <1>1, ThreadKnown, CallKnown, Zenon DEF InCall1
  <2> QED
    BY <2>1 DEF InCallOK, HeaderOK, Xid
<1>2. \A k \in DOMAIN rpcc : rpcc[k].xid \in Nat \ {0, 1}
  BY Zenon DEF RpcInv, ClientsOK, ClientOK
<1> QED
  BY <1>1, <1>2, Zenon DEF Drawn

\* A thread calls through its handle.
LEMMA AckStepCall ==
  ASSUME RpcInv, AckInv, NEW t \in Thread, Call(t)
  PROVE  AckInv'
<1>1. PICK k : k = th[t].k
  BY Zenon
<1>2. PICK h : h = [clt |-> k, xid |-> rpcc[k].xid, srv |-> rpcc[k].srv,
                    xid_rep |-> Head(rpcc[k].window)]
  BY Zenon
<1>3. PICK s : s = [at |-> "send", ch |-> 0, ret |-> "none", val |-> 0, h |-> h]
  BY Zenon
<1>4. /\ th[t].at = "have"
      /\ rpcc' = [rpcc EXCEPT ![k].xid = rpcc[k].xid + 1]
      /\ th' = [th EXCEPT ![t] = s]
  BY <1>1, <1>2, <1>3, Zenon DEF Call, call1
<1>5. ~InCall1(th[t]) /\ k \in DOMAIN rpcc
  <2>1. ThreadOK(rpcc, nonce, ran, th[t])
    BY ThreadKnown, Zenon
  <2> QED
    BY <1>1, <1>4, <2>1 DEF ThreadOK, InCallOK, Idle, InCall1
<1>6. ClientOK(nonce, rpcc[k])
  BY <1>5, Zenon DEF RpcInv, ClientsOK
<1>7. PICK x : x = [rpcc[k] EXCEPT !.xid = rpcc[k].xid + 1]
  BY Zenon
<1>8. x.window = rpcc[k].window /\ x.xid = rpcc[k].xid + 1 /\ rpcc[k].xid \in Nat \ {0}
  BY <1>6, <1>7, Zenon DEF ClientOK
<1>9. PICK rs : rs = rpcc'
  BY Zenon
<1>10. DOMAIN rs = DOMAIN rpcc /\ rs[k] = x /\ \A j \in DOMAIN rpcc \ {k} : rs[j] = rpcc[j]
  BY <1>4, <1>5, <1>7, <1>9, Zenon
<1>11. SameCalls(rpcc, rs, k) /\ rs[k].window = rpcc[k].window /\ rs[k].xid = rpcc[k].xid + 1
  BY <1>8, <1>10, Zenon DEF SameCalls
<1>12. PICK ts : ts = th'
  BY Zenon
<1>13. ts[t] = s /\ \A u \in Thread \ {t} : ts[u] = th[u]
  BY <1>4, <1>12, Zenon DEF RpcInv, ThreadsOK
<1>14. InCall1(s) /\ s.ret = "none" /\ s.h.clt = k /\ s.h.xid = rpcc[k].xid
  BY <1>2, <1>3, Zenon DEF InCall1
<1>15. WindowsFit(rs, ts)
  <2>1. Drawn(rpcc, th) /\ WindowsFit(rpcc, th)
    BY CallsDrawn, Zenon DEF AckInv
  <2>2. /\ InCall1(ts[t]) /\ ts[t].ret = "none" /\ ts[t].h.clt = k /\ ts[t].h.xid = rpcc[k].xid
    BY <1>13, <1>14, Zenon
  <2> QED
    BY <1>5, <1>8, <1>11, <1>13, <2>1, <2>2, AckCall, Zenon
<1> QED
  BY <1>9, <1>12, <1>15, Zenon DEF AckInv

(***************************************************************************)
(* What the steps of the threads do to calls and handles.                  *)
(***************************************************************************)
\* rpcc' differs from rs in the window of k, from which call x is acknowledged.
Closes1(rs, rs2, k, x) ==
  /\ SameCalls(rs, rs2, k)
  /\ rs2[k].window = update_xid_rep(rs[k].window, x) /\ rs2[k].xid = rs[k].xid

\* get_handle makes a client and its bind.
LEMMA BindFacts ==
  ASSUME RpcInv, NEW t \in Thread, get_handle(t), ~hmap.in, NEW k, k = Len(rpcc) + 1
  PROVE  /\ hlock = NoThread /\ hlock' = t /\ hmap' = hmap /\ th[t].at = "idle"
         /\ \A u \in Thread \ {t} : th'[u] = th[u]
         /\ InCall1(th'[t]) /\ th'[t].ret = "none" /\ th'[t].h.clt = k /\ th'[t].h.xid = 1
         /\ DOMAIN rpcc' = DOMAIN rpcc \union {k} /\ k \notin DOMAIN rpcc
         /\ \A j \in DOMAIN rpcc : rpcc'[j] = rpcc[j]
         /\ rpcc'[k].window = <<0>> /\ rpcc'[k].xid = 2
<1>1. PICK cs : cs = Append(rpcc, NewRpcc)
  BY Zenon
<1>2. PICK S : rpcc \in Seq(S)
  BY Zenon DEF RpcInv, ClientsOK, IsSeq
<1>3. Len(rpcc) \in Nat /\ DOMAIN rpcc = 1..Len(rpcc) /\ k \in Nat /\ k \notin DOMAIN rpcc
  BY <1>2
<1>4. /\ DOMAIN cs = DOMAIN rpcc \union {k}
      /\ cs[k] = NewRpcc /\ \A j \in DOMAIN rpcc : cs[j] = rpcc[j]
  <2>1. rpcc \in Seq(S \union {NewRpcc})
    BY <1>2
  <2>2. /\ cs \in Seq(S \union {NewRpcc}) /\ Len(cs) = k
        /\ cs[k] = NewRpcc /\ \A j \in 1..Len(rpcc) : cs[j] = rpcc[j]
    BY <1>1, <2>1
  <2>3. DOMAIN cs = 1..k
    BY <2>2
  <2>4. 1..k = 1..Len(rpcc) \union {k}
    BY <1>3
  <2> QED
    BY <1>3, <2>2, <2>3, <2>4, Zenon
<1>5. PICK s : s = [at |-> "send", ch |-> 0, ret |-> "none", val |-> 0,
                    h |-> [clt |-> k, xid |-> cs[k].xid, srv |-> cs[k].srv,
                           xid_rep |-> Head(cs[k].window)]]
  BY Zenon
<1>6. /\ hlock = NoThread /\ hlock' = t /\ hmap' = hmap /\ th[t].at = "idle"
      /\ rpcc' = [cs EXCEPT ![k].xid = cs[k].xid + 1]
      /\ th' = [th EXCEPT ![t] = s]
  BY <1>1, <1>5, Zenon DEF get_handle, call1
<1>7. cs[k].xid = 1 /\ cs[k].window = <<0>>
  BY <1>4 DEF NewRpcc
<1>8. th'[t] = s /\ \A u \in Thread \ {t} : th'[u] = th[u]
  BY <1>6, Zenon DEF RpcInv, ThreadsOK
<1>9. InCall1(s) /\ s.ret = "none" /\ s.h.clt = k /\ s.h.xid = 1
  BY <1>5, <1>7, Zenon DEF InCall1
<1>10. PICK x : x = [NewRpcc EXCEPT !.xid = 2]
  BY Zenon
<1>11. x.window = <<0>> /\ x.xid = 2
  BY <1>10, Zenon DEF NewRpcc
<1>12. rpcc' = [cs EXCEPT ![k] = x]
  <2>1. cs[k].xid + 1 = 2
    BY <1>7
  <2>2. x = [cs[k] EXCEPT !.xid = 2]
    BY <1>4, <1>10, Zenon
  <2> QED
    BY <1>6, <2>1, <2>2, Zenon
<1>13. /\ DOMAIN rpcc' = DOMAIN rpcc \union {k} /\ rpcc'[k] = x
       /\ \A j \in DOMAIN rpcc : rpcc'[j] = rpcc[j]
  BY <1>3, <1>4, <1>12, Zenon
<1>14. InCall1(th'[t]) /\ th'[t].ret = "none" /\ th'[t].h.clt = k /\ th'[t].h.xid = 1
  BY <1>8, <1>9, Zenon
<1>15. rpcc'[k].window = <<0>> /\ rpcc'[k].xid = 2
  BY <1>11, <1>13, Zenon
<1> QED
  BY <1>3, <1>6, <1>8, <1>13, <1>14, <1>15, Zenon

\* A request is sent, again or for the first time, or the deadline of a call passes.
LEMMA WithinCall ==
  ASSUME RpcInv, NEW t \in Thread, Transmit(t) \/ Retransmit(t) \/ Expire(t)
  PROVE  /\ InCall1(th[t]) /\ InCall1(th'[t]) /\ th'[t].h = th[t].h /\ th'[t].ret = th[t].ret
         /\ \A u \in Thread \ {t} : th'[u] = th[u]
         /\ DOMAIN rpcc' = DOMAIN rpcc
         /\ \A k \in DOMAIN rpcc : rpcc'[k].window = rpcc[k].window /\ rpcc'[k].xid = rpcc[k].xid
         /\ hmap' = hmap /\ hlock' = hlock
<1>1. InCall1(th[t]) /\ hmap' = hmap /\ hlock' = hlock
  BY Zenon DEF Transmit, Retransmit, Expire, InCall1
<1>2. InCallOK(rpcc, nonce, ran, th[t]) /\ DOMAIN th = Thread
  BY <1>1, ThreadKnown, CallKnown, Zenon DEF InCall1, RpcInv, ThreadsOK
<1> DEFINE Goes == /\ InCall1(th'[t]) /\ th'[t].h = th[t].h /\ th'[t].ret = th[t].ret
                   /\ \A u \in Thread \ {t} : th'[u] = th[u]
<1>4. ASSUME Transmit(t) PROVE Goes
  <2>1. PICK c : th' = [th EXCEPT ![t].at = "wait", ![t].ch = IF c = 0 THEN @ ELSE c]
    BY <1>4, Zenon DEF Transmit
  <2>2. PICK u : u = [th[t] EXCEPT !.at = "wait", !.ch = IF c = 0 THEN @ ELSE c]
    BY Zenon
  <2>3. th' = [th EXCEPT ![t] = u]
    BY <2>1, <2>2, Zenon
  <2>4. u.at = "wait" /\ u.h = th[t].h /\ u.ret = th[t].ret
    BY <1>2, <2>2, Zenon DEF InCallOK
  <2>5. u.at \in {"send", "wait", "over"}
    BY <2>4, Zenon
  <2>6. th'[t] = u /\ \A v \in Thread \ {t} : th'[v] = th[v]
    BY <1>2, <2>3, Zenon
  <2> QED
    BY <2>4, <2>5, <2>6, Zenon DEF InCall1
<1>5. ASSUME Retransmit(t) \/ Expire(t) PROVE Goes
  <2>1. PICK a \in {"send", "over"} : th' = [th EXCEPT ![t].at = a]
    BY <1>5, Zenon DEF Retransmit, Expire
  <2>2. PICK u : u = [th[t] EXCEPT !.at = a]
    BY Zenon
  <2>3. th' = [th EXCEPT ![t] = u]
    BY <2>1, <2>2, Zenon
  <2>4. u.at = a /\ u.h = th[t].h /\ u.ret = th[t].ret
    BY <1>2, <2>2, Zenon DEF InCallOK
  <2>5. u.at \in {"send", "wait", "over"}
    BY <2>1, <2>4, Zenon
  <2>6. th'[t] = u /\ \A v \in Thread \ {t} : th'[v] = th[v]
    BY <1>2, <2>3, Zenon
  <2> QED
    BY <2>4, <2>5, <2>6, Zenon DEF InCall1
<1>6. /\ DOMAIN rpcc' = DOMAIN rpcc
      /\ \A k \in DOMAIN rpcc : rpcc'[k].window = rpcc[k].window /\ rpcc'[k].xid = rpcc[k].xid
  <2>1. CASE Retransmit(t) \/ Expire(t)
    BY <2>1, Zenon DEF Retransmit, Expire
  <2>2. CASE Transmit(t)
    <3>1. PICK k, c : rpcc' = [rpcc EXCEPT ![k].chan = c]
      BY <2>2, Zenon DEF Transmit
    <3>2. ASSUME NEW j \in DOMAIN rpcc
          PROVE  rpcc'[j].window = rpcc[j].window /\ rpcc'[j].xid = rpcc[j].xid
      <4>1. ClientOK(nonce, rpcc[j])
        BY Zenon DEF RpcInv, ClientsOK
      <4>2. rpcc'[j] = rpcc[j] \/ rpcc'[j] = [rpcc[j] EXCEPT !.chan = c]
        BY <3>1, Zenon
      <4> QED
        BY <4>1, <4>2, Zenon DEF ClientOK
    <3> QED
      BY <3>1, <3>2, Zenon
  <2> QED
    BY <2>1, <2>2, Zenon
<1> QED
  BY <1>1, <1>4, <1>5, <1>6, Zenon DEF Goes

\* What changes the window of client k, bound and srv aside.
LEMMA ClosesOne ==
  ASSUME RpcInv, NEW k \in DOMAIN rpcc, NEW x, NEW v, v = update_xid_rep(rpcc[k].window, x),
         NEW y, y.window = v, y.xid = rpcc[k].xid, NEW rs, rs = [rpcc EXCEPT ![k] = y]
  PROVE  Closes1(rpcc, rs, k, x)
<1>1. DOMAIN rs = DOMAIN rpcc /\ rs[k] = y /\ \A j \in DOMAIN rpcc \ {k} : rs[j] = rpcc[j]
  BY Zenon
<1> QED
  BY <1>1, Zenon DEF Closes1, SameCalls

\* The threads ts2 after the one that waits for reply r of client k got it.
Replied(ts, ts2, k, r) ==
  \A t \in Thread :
    /\ OpenAt(ts[t], k, r.xid) => ts2[t].at = ts[t].at /\ ts2[t].h = ts[t].h /\ ts2[t].ret = r.ret
    /\ ~OpenAt(ts[t], k, r.xid) => ts2[t] = ts[t]

\* got_pdu gives a reply to the thread that waits for it.
LEMMA GotPduFacts ==
  ASSUME RpcInv, NEW c \in DOMAIN conn, ClientGotPdu(c),
         NEW k, k = conn[c].clt, NEW r, r = Head(conn[c].down)
  PROVE  /\ k \in DOMAIN rpcc /\ r.xid \in Nat /\ r.xid < rpcc[k].xid /\ r.ret # "none"
         /\ Closes1(rpcc, rpcc', k, r.xid)
         /\ Replied(th, th', k, r)
         /\ hmap' = hmap /\ hlock' = hlock
<1>1. PICK v : v = update_xid_rep(rpcc[k].window, r.xid)
  BY Zenon
<1>2. /\ conn[c].down # <<>>
      /\ rpcc' = [rpcc EXCEPT ![k].window = v]
      /\ th' = [t \in Thread |-> IF OpenAt(th[t], k, r.xid)
                                THEN [th[t] EXCEPT !.ret = r.ret, !.val = r.val] ELSE th[t]]
      /\ hmap' = hmap /\ hlock' = hlock
  BY <1>1, Zenon DEF ClientGotPdu, OpenAt, InCall1
<1>3. ConnOK(rpcc, nonce, ran, conn[c])
  BY Zenon DEF RpcInv, ConnsOK
<1>4. k \in DOMAIN rpcc
  BY <1>3, Zenon DEF ConnOK
<1>5. ReplyOK(rpcc, nonce, ran, k, r)
  <2>1. PICK S, q : q = conn[c].down /\ q \in Seq(S)
    BY <1>3, Zenon DEF ConnOK, IsSeq
  <2>2. q # <<>> /\ r = Head(q)
    BY <1>2, <2>1, Zenon
  <2>3. 1 \in DOMAIN q /\ r = q[1]
    BY <2>1, <2>2
  <2> QED
    BY <1>3, <2>1, <2>3, Zenon DEF ConnOK
<1>6. Closes1(rpcc, rpcc', k, r.xid)
  <2>1. ClientOK(nonce, rpcc[k])
    BY <1>4, Zenon DEF RpcInv, ClientsOK
  <2>2. PICK y : y = [rpcc[k] EXCEPT !.window = v]
    BY Zenon
  <2>3. y.window = v /\ y.xid = rpcc[k].xid
    BY <2>1, <2>2, Zenon DEF ClientOK
  <2>4. rpcc' = [rpcc EXCEPT ![k] = y]
    BY <1>2, <2>2, Zenon
  <2> QED
    BY <1>1, <1>4, <2>3, <2>4, ClosesOne, Zenon
<1>7. ASSUME NEW t \in Thread, OpenAt(th[t], k, r.xid)
      PROVE  th'[t].at = th[t].at /\ th'[t].h = th[t].h /\ th'[t].ret = r.ret
  <2>1. InCallOK(rpcc, nonce, ran, th[t])
    BY <1>7, ThreadKnown, CallKnown DEF OpenAt, InCall1
  <2>2. th'[t] = [th[t] EXCEPT !.ret = r.ret, !.val = r.val]
    BY <1>2, <1>7, Zenon
  <2> QED
    BY <2>1, <2>2, Zenon DEF InCallOK
<1>8. ASSUME NEW t \in Thread, ~OpenAt(th[t], k, r.xid) PROVE th'[t] = th[t]
  BY <1>2, <1>8, Zenon
<1> QED
  BY <1>2, <1>4, <1>5, <1>6, <1>7, <1>8, Zenon DEF ReplyOK, Replied

\* call1 returns, to its caller or to bind.
LEMMA ReturnFacts ==
  ASSUME RpcInv, NEW t \in Thread, Return(t), NEW k, k = th[t].h.clt, NEW x, x = th[t].h.xid
  PROVE  /\ InCall1(th[t]) /\ k \in DOMAIN rpcc /\ Closes1(rpcc, rpcc', k, x)
         /\ \A u \in Thread \ {t} : th'[u] = th[u]
         /\ \/ /\ hlock # t /\ hlock' = hlock /\ hmap' = hmap
               /\ th'[t] = [at |-> "done", k |-> k]
            \/ /\ hlock = t /\ hlock' = NoThread /\ hmap' = hmap /\ th'[t] = Idle
            \/ /\ hlock = t /\ hlock' = NoThread
               /\ hmap' = [in |-> TRUE, refcnt |-> 1, del |-> FALSE]
               /\ th'[t] = [at |-> "have", k |-> k]
<1>1. PICK v : v = update_xid_rep(rpcc[k].window, x)
  BY Zenon
<1>2. InCall1(th[t]) /\ Closed(t) = [rpcc EXCEPT ![k].window = v]
  BY <1>1, Zenon DEF Return, Closed, InCall1
<1>3. k \in DOMAIN rpcc /\ DOMAIN th = Thread
  BY <1>2, CallsDrawn, Zenon DEF Drawn, RpcInv, ThreadsOK
<1>4. ClientOK(nonce, rpcc[k])
  BY <1>3, Zenon DEF RpcInv, ClientsOK
<1>5. Closes1(rpcc, Closed(t), k, x)
  <2>1. PICK y : y = [rpcc[k] EXCEPT !.window = v]
    BY Zenon
  <2>2. y.window = v /\ y.xid = rpcc[k].xid
    BY <1>4, <2>1, Zenon DEF ClientOK
  <2>3. Closed(t) = [rpcc EXCEPT ![k] = y]
    BY <1>2, <2>1, Zenon
  <2> QED
    BY <1>1, <1>3, <2>2, <2>3, ClosesOne, Zenon
<1>6. CASE hlock # t
  <2>1. /\ rpcc' = Closed(t) /\ hlock' = hlock /\ hmap' = hmap
        /\ th' = [th EXCEPT ![t] = [at |-> "done", k |-> k]]
    BY <1>6, Zenon DEF Return
  <2> QED
    BY <1>2, <1>3, <1>5, <1>6, <2>1, Zenon
<1>7. CASE hlock = t /\ th[t].ret # "ok"
  <2>1. rpcc' = Closed(t) /\ hlock' = NoThread /\ hmap' = hmap /\ th' = [th EXCEPT ![t] = Idle]
    BY <1>7, Zenon DEF Return, bind
  <2> QED
    BY <1>2, <1>3, <1>5, <1>7, <2>1, Zenon
<1>8. CASE hlock = t /\ th[t].ret = "ok"
  <2>1. PICK val, y : /\ val = th[t].val
                      /\ y = [rpcc[k] EXCEPT !.window = v, !.bound = TRUE, !.srv = val]
    BY Zenon
  <2>2. /\ rpcc' = [Closed(t) EXCEPT ![k].bound = TRUE, ![k].srv = val]
        /\ hmap' = [in |-> TRUE, refcnt |-> 1, del |-> FALSE]
        /\ th' = [th EXCEPT ![t] = [at |-> "have", k |-> k]] /\ hlock' = NoThread
    BY <1>8, <2>1, Zenon DEF Return, bind
  <2>3. rpcc' = [rpcc EXCEPT ![k] = y]
    BY <1>2, <1>3, <2>1, <2>2, Zenon
  <2>4. y.window = v /\ y.xid = rpcc[k].xid
    <3>1. PICK z : z = rpcc[k]
      BY Zenon
    <3>2. y = [z EXCEPT !.window = v, !.bound = TRUE, !.srv = val] /\ ClientOK(nonce, z)
      BY <1>4, <2>1, <3>1, Zenon
    <3> QED
      BY <3>1, <3>2, Zenon DEF ClientOK
  <2>5. Closes1(rpcc, rpcc', k, x)
    BY <1>1, <1>3, <2>3, <2>4, ClosesOne, Zenon
  <2> QED
    BY <1>2, <1>3, <1>8, <2>2, <2>5, Zenon
<1> QED
  BY <1>6, <1>7, <1>8, Zenon

\* A thread gets a handle.
LEMMA AckStepGetHandle ==
  ASSUME RpcInv, AckInv, NEW t \in Thread, get_handle(t)
  PROVE  AckInv'
<1>1. CASE ~hmap.in
  <2>1. PICK k, rs, ts : k = Len(rpcc) + 1 /\ rs = rpcc' /\ ts = th'
    BY Zenon
  <2>2. /\ th[t].at = "idle"
        /\ \A u \in Thread \ {t} : ts[u] = th[u]
        /\ InCall1(ts[t]) /\ ts[t].ret = "none" /\ ts[t].h.clt = k /\ ts[t].h.xid = 1
        /\ DOMAIN rs = DOMAIN rpcc \union {k} /\ k \notin DOMAIN rpcc
        /\ \A j \in DOMAIN rpcc : rs[j] = rpcc[j]
        /\ rs[k].window = <<0>> /\ rs[k].xid = 2
    BY <1>1, <2>1, BindFacts, Zenon
  <2>3. PICK cs : cs = [j \in DOMAIN rs |-> IF j = k THEN [xid |-> 1, window |-> <<0>>] ELSE rs[j]]
    BY Zenon
  <2>4. /\ DOMAIN cs = DOMAIN rs /\ k \in DOMAIN rs /\ cs[k].xid = 1 /\ cs[k].window = <<0>>
        /\ \A j \in DOMAIN rpcc : cs[j] = rpcc[j]
    BY <2>2, <2>3, Zenon
  <2>5. Drawn(rpcc, th) /\ WindowsFit(rpcc, th)
    BY CallsDrawn, Zenon DEF AckInv
  <2>6. Drawn(cs, th)
    BY <2>2, <2>4, <2>5, Zenon DEF Drawn
  <2>7. WindowsFit(cs, th)
    <3>1. Acknowledged(cs, th, k)
      <4>1. PICK w : w = <<0>>
        BY Zenon
      <4>2. w \in Seq(Nat) /\ Len(w) = 1 /\ DOMAIN w = {1} /\ w[1] = 0
        BY <4>1
      <4>3. WindowFits(w, 1)
        BY <4>2 DEF WindowFits, Ordered, Compressed
      <4>4. 1..(1 - 1) = {}
        OBVIOUS
      <4> QED
        BY <2>4, <4>1, <4>3, <4>4, Zenon DEF Acknowledged
    <3>2. ASSUME NEW j \in DOMAIN cs, j # k PROVE Acknowledged(cs, th, j)
      <4>1. j \in DOMAIN rpcc /\ cs[j] = rpcc[j]
        BY <2>2, <2>4, <3>2, Zenon
      <4> QED
        BY <2>5, <4>1, Zenon DEF WindowsFit, Acknowledged
    <3> QED
      BY <2>5, <3>1, <3>2, Zenon DEF WindowsFit
  <2>8. SameCalls(cs, rs, k)
    BY <2>2, <2>4 DEF SameCalls
  <2>9. ~InCall1(th[t])
    BY <2>2, Zenon DEF InCall1
  <2>10. /\ cs[k].xid \in Nat \ {0} /\ rs[k].window = cs[k].window /\ rs[k].xid = cs[k].xid + 1
         /\ ts[t].h.xid = cs[k].xid /\ k \in DOMAIN cs
         /\ InCall1(ts[t]) /\ ts[t].ret = "none" /\ ts[t].h.clt = k
         /\ \A u \in Thread \ {t} : ts[u] = th[u]
    BY <2>2, <2>4
  <2>11. WindowsFit(rs, ts)
    BY <2>6, <2>7, <2>8, <2>9, <2>10, AckCall, Zenon
  <2> QED
    BY <2>1, <2>11, Zenon DEF AckInv
<1>2. CASE hmap.in
  <2>1. PICK s : s = [at |-> "have", k |-> Len(rpcc)]
    BY Zenon
  <2>2. th[t].at = "idle" /\ th' = [th EXCEPT ![t] = s] /\ rpcc' = rpcc
    BY <1>2, <2>1, Zenon DEF get_handle
  <2>3. \A u \in Thread : Lingers(th[u], th'[u])
    BY <2>1, <2>2, Zenon DEF Lingers, InCall1, RpcInv, ThreadsOK
  <2> QED
    BY <2>2, <2>3, AckQuiet, Zenon DEF AckInv
<1> QED
  BY <1>1, <1>2, Zenon

\* A request is sent, or the deadline of a call passes.
LEMMA AckStepWithin ==
  ASSUME RpcInv, AckInv, NEW t \in Thread, Transmit(t) \/ Retransmit(t) \/ Expire(t)
  PROVE  AckInv'
<1>1. PICK rs, ts : rs = rpcc' /\ ts = th'
  BY Zenon
<1>2. /\ InCall1(th[t]) /\ InCall1(ts[t]) /\ ts[t].h = th[t].h /\ ts[t].ret = th[t].ret
      /\ \A u \in Thread \ {t} : ts[u] = th[u]
      /\ DOMAIN rs = DOMAIN rpcc
      /\ \A k \in DOMAIN rpcc : rs[k].window = rpcc[k].window /\ rs[k].xid = rpcc[k].xid
  BY <1>1, WithinCall, Zenon
<1>3. \A u \in Thread : Lingers(th[u], ts[u])
  BY <1>2, Zenon DEF Lingers
<1>4. WindowsFit(rpcc, th)
  BY Zenon DEF AckInv
<1>5. WindowsFit(rs, ts)
  BY <1>2, <1>3, <1>4, AckQuiet, SMTT(30)
<1> QED
  BY <1>1, <1>5, Zenon DEF AckInv

\* A reply is read.
LEMMA AckStepGotPdu ==
  ASSUME RpcInv, AckInv, NEW c \in DOMAIN conn, ClientGotPdu(c)
  PROVE  AckInv'
<1>1. PICK k, r, rs, ts : k = conn[c].clt /\ r = Head(conn[c].down) /\ rs = rpcc' /\ ts = th'
  BY Zenon
<1>2. /\ k \in DOMAIN rpcc /\ r.xid \in Nat /\ r.xid < rpcc[k].xid /\ r.ret # "none"
      /\ Closes1(rpcc, rs, k, r.xid)
      /\ Replied(th, ts, k, r)
  BY <1>1, GotPduFacts, Zenon
<1>3. ASSUME NEW t \in Thread
      PROVE  /\ InCall1(ts[t]) <=> InCall1(th[t])
             /\ InCall1(th[t]) => ts[t].h = th[t].h
             /\ \A j, y : OpenAt(ts[t], j, y) <=> (OpenAt(th[t], j, y) /\ ~(j = k /\ y = r.xid))
  <2>1. CASE OpenAt(th[t], k, r.xid)
    BY <1>2, <2>1, Zenon DEF Replied, OpenAt, InCall1
  <2>2. CASE ~OpenAt(th[t], k, r.xid)
    BY <1>2, <2>2, Zenon DEF Replied, OpenAt
  <2> QED
    BY <2>1, <2>2, Zenon
<1>4. \A j, y : Open(ts, j, y) <=> (Open(th, j, y) /\ ~(j = k /\ y = r.xid))
  BY <1>3, Zenon DEF Open
<1>5. Distinct(ts)
  <2>1. Distinct(th)
    BY Zenon DEF AckInv, WindowsFit
  <2> QED
    BY <1>3, <2>1, Zenon DEF Distinct
<1>6. WindowsFit(rs, ts)
  <2>1. rpcc[k].xid \in Nat /\ WindowsFit(rpcc, th)
    BY <1>2, CallsDrawn, Zenon DEF AckInv
  <2>2. PICK x : x = r.xid
    BY Zenon
  <2>3. /\ SameCalls(rpcc, rs, k) /\ x \in Nat /\ x < rpcc[k].xid
        /\ rs[k].window = update_xid_rep(rpcc[k].window, x) /\ rs[k].xid = rpcc[k].xid
        /\ \A j, y : Open(ts, j, y) <=> (Open(th, j, y) /\ ~(j = k /\ y = x))
    BY <1>2, <1>4, <2>2, Zenon DEF Closes1
  <2> QED
    BY <1>2, <1>5, <2>1, <2>3, AckClose
<1> QED
  BY <1>1, <1>6, Zenon DEF AckInv

\* call1 returns.
LEMMA AckStepReturn ==
  ASSUME RpcInv, AckInv, NEW t \in Thread, Return(t)
  PROVE  AckInv'
<1>1. PICK k, x, rs, ts : k = th[t].h.clt /\ x = th[t].h.xid /\ rs = rpcc' /\ ts = th'
  BY Zenon
<1>2. /\ InCall1(th[t]) /\ k \in DOMAIN rpcc /\ Closes1(rpcc, rs, k, x)
      /\ \A u \in Thread \ {t} : ts[u] = th[u]
  BY <1>1, ReturnFacts, ZenonT(30)
<1>3. ~InCall1(ts[t])
  <2>1. \/ ts[t] = [at |-> "done", k |-> k] \/ ts[t] = Idle \/ ts[t] = [at |-> "have", k |-> k]
    BY <1>1, ReturnFacts, ZenonT(30)
  <2> QED
    BY <2>1 DEF InCall1, Idle
<1>4. Distinct(th)
  BY Zenon DEF AckInv, WindowsFit
<1>5. Distinct(ts)
  BY <1>2, <1>3, <1>4 DEF Distinct
<1>6. \A j, y : Open(ts, j, y) <=> (Open(th, j, y) /\ ~(j = k /\ y = x))
  <2>1. ASSUME NEW u \in Thread, OpenAt(th[u], k, x) PROVE u = t
    BY <1>1, <1>2, <1>4, <2>1 DEF Distinct, OpenAt
  <2>2. ASSUME NEW j, NEW y, OpenAt(th[t], j, y) PROVE j = k /\ y = x
    BY <1>1, <2>2, Zenon DEF OpenAt
  <2>3. ASSUME NEW j, NEW y PROVE ~OpenAt(ts[t], j, y)
    BY <1>3, Zenon DEF OpenAt
  <2> QED
    BY <1>2, <2>1, <2>2, <2>3, ZenonT(30) DEF Open
<1>7. WindowsFit(rs, ts)
  <2>1. rpcc[k].xid \in Nat /\ x \in Nat /\ x < rpcc[k].xid
    BY <1>1, <1>2, CallsDrawn, Zenon DEF Drawn
  <2> QED
    BY <1>2, <1>5, <1>6, <2>1, AckClose, Zenon DEF AckInv, Closes1
<1> QED
  BY <1>1, <1>7, Zenon DEF AckInv

\* A handle is given up or deleted.
LEMMA AckStepHandle ==
  ASSUME RpcInv, AckInv, \/ \E t \in Thread : done_handle(t)
                         \/ delete_handle
  PROVE  AckInv'
<1>1. CASE delete_handle
  BY <1>1, Zenon DEF delete_handle, AckInv
<1>2. ASSUME NEW t \in Thread, done_handle(t) PROVE AckInv'
  <2>1. th[t].at = "done" /\ th' = [th EXCEPT ![t] = Idle] /\ rpcc' = rpcc
    BY <1>2, Zenon DEF done_handle
  <2>2. \A u \in Thread : Lingers(th[u], th'[u])
    BY <2>1, Zenon DEF Lingers, InCall1, Idle, RpcInv, ThreadsOK
  <2> QED
    BY <2>1, <2>2, AckQuiet, Zenon DEF AckInv
<1> QED
  BY <1>1, <1>2, Zenon

\* With this invariant the front of the window is the last call before the oldest open one.
LEMMA FrontIsLast ==
  ASSUME RpcInv, AckInv
  PROVE  AcknowledgesAllClosed
<1>1. SUFFICES ASSUME NEW k \in DOMAIN rpcc
               PROVE  Head(rpcc[k].window) + 1 =
                        Min({rpcc[k].xid} \union
                            {th[t].h.xid : t \in {u \in Thread : InCall(u) /\ th[u].ret = "none"
                                                                 /\ th[u].h.clt = k}})
  BY Zenon DEF AcknowledgesAllClosed
<1>2. PICK w, n : w = rpcc[k].window /\ n = rpcc[k].xid
  BY Zenon
<1> DEFINE O == {th[t].h.xid : t \in {u \in Thread : InCall(u) /\ th[u].ret = "none"
                                                     /\ th[u].h.clt = k}}
           S == {n} \union O
<1>3. /\ WindowFits(w, n) /\ n \in Nat
      /\ \A x \in 1..(n - 1) : Covered(w, x) <=> ~Open(th, k, x)
  BY <1>2, CallsDrawn, Zenon DEF AckInv, WindowsFit, Acknowledged
<1>4. /\ Head(w) = w[1] /\ w[1] \in Nat /\ w[1] < n
      /\ \A j \in DOMAIN w : w[j] # w[1] + 1
  BY <1>3 DEF WindowFits, Ordered, Compressed
<1>5. \A x : x \in O <=> Open(th, k, x)
  BY Zenon DEF InCall, Open, OpenAt, InCall1
<1>6. ASSUME NEW x \in O PROVE x \in Nat /\ x < n /\ x >= w[1] + 1
  <2>1. PICK t \in Thread : OpenAt(th[t], k, x)
    BY <1>5, Zenon DEF Open
  <2>2. x \in Nat /\ x < n
    BY <1>2, <2>1, CallsDrawn, Zenon DEF Drawn, OpenAt
  <2>3. CASE x = 0
    <3>1. HeaderOK(rpcc, k, th[t].h)
      BY <2>1, ThreadKnown, CallKnown, Zenon DEF OpenAt, InCall1, InCallOK
    <3> QED
      BY <2>1, <2>3, <3>1 DEF HeaderOK, Xid, OpenAt
  <2>4. CASE x # 0
    <3>1. x \in 1..(n - 1)
      BY <1>3, <2>2, <2>4
    <3>2. ~Covered(w, x)
      BY <1>3, <1>5, <3>1, Zenon
    <3> QED
      BY <1>4, <2>2, <3>2 DEF Covered
  <2> QED
    BY <2>2, <2>3, <2>4, Zenon
<1>7. w[1] + 1 \in S
  <2>1. CASE w[1] + 1 = n
    BY <2>1, Zenon
  <2>2. CASE w[1] + 1 # n
    <3>1. w[1] + 1 \in 1..(n - 1) /\ ~(w[1] + 1 <= w[1])
      BY <1>3, <1>4, <2>2
    <3>2. ~Covered(w, w[1] + 1)
      BY <1>4, <3>1, Zenon DEF Covered
    <3> QED
      BY <1>3, <1>5, <3>1, <3>2, Zenon
  <2> QED
    BY <2>1, <2>2, Zenon
<1> HIDE DEF O
<1>8. S \in SUBSET Nat /\ S # {} /\ \A x \in S : w[1] + 1 <= x
  BY <1>3, <1>4, <1>6
<1>9. Min(S) \in S /\ \A x \in S : Min(S) <= x
  BY <1>8, LeastOf, Zenon
<1>10. Min(S) = w[1] + 1
  <2>1. PICK m : m = Min(S)
    BY Zenon
  <2>2. m \in Nat /\ m <= w[1] + 1 /\ w[1] + 1 <= m
    BY <1>7, <1>8, <1>9, <2>1, Zenon
  <2> QED
    BY <1>4, <2>1, <2>2
<1> QED
  BY <1>2, <1>4, <1>10, Zenon DEF O

(***************************************************************************)
(* The steps that change nothing that handle_mgr counts.                   *)
(***************************************************************************)
\* The thread keeps using its client, or none.
Steady(s, u) ==
  /\ u.at = "idle" <=> s.at = "idle"
  /\ s.at # "idle" => Uses(u) = Uses(s)

\* When every thread is steady the count of users stays right.
LEMMA HandleQuiet ==
  ASSUME NEW rs, NEW hm, NEW hl, NEW ts, HandleFits(rs, hm, hl, ts), NEW rs2, NEW ts2,
         Len(rs2) = Len(rs), \A t \in Thread : Steady(ts[t], ts2[t])
  PROVE  HandleFits(rs2, hm, hl, ts2)
<1>1. Users(ts2) = Users(ts)
  BY Zenon DEF Users, Steady
<1> QED
  BY <1>1, Zenon DEF HandleFits, Steady

\* The threads are finitely many.
LEMMA UsersFinite ==
  ASSUME NEW ts
  PROVE  IsFiniteSet(Users(ts)) /\ Cardinality(Users(ts)) \in Nat
<1>1. Users(ts) \in SUBSET Thread /\ IsFiniteSet(Thread)
  BY RpcAssumption, Zenon DEF Users
<1>2. IsFiniteSet(Users(ts))
  BY <1>1, FS_Subset, Zenon
<1> QED
  BY <1>2, FS_CardinalityType, Zenon

\* As many clients as before.
LEMMA AsMany ==
  ASSUME RpcInv, RpcInv', DOMAIN rpcc' = DOMAIN rpcc
  PROVE  Len(rpcc') = Len(rpcc)
<1>1. PICK rs : rs = rpcc'
  BY Zenon
<1>2. IsSeq(rpcc) /\ IsSeq(rs) /\ DOMAIN rs = DOMAIN rpcc
  BY <1>1, Zenon DEF RpcInv, ClientsOK
<1>3. PICK m, n \in Nat : m = Len(rs) /\ n = Len(rpcc) /\ 1..m = 1..n
  <2>1. Len(rs) \in Nat /\ Len(rpcc) \in Nat /\ DOMAIN rs = 1..Len(rs)
        /\ DOMAIN rpcc = 1..Len(rpcc)
    BY <1>2 DEF IsSeq
  <2> QED
    BY <1>2, <2>1, Zenon
<1>4. m = n
  <2>1. m <= n
    <3>1. m # 0 => m \in 1..n
      BY <1>3
    <3> QED
      BY <3>1
  <2>2. n <= m
    <3>1. n # 0 => n \in 1..m
      BY <1>3
    <3> QED
      BY <3>1
  <2> QED
    BY <2>1, <2>2
<1> QED
  BY <1>1, <1>3, <1>4, Zenon

\* A thread gets a handle: with the first one the entry is made later, by bind; otherwise
\* the entry counts one more.
LEMMA HandleStepGet ==
  ASSUME RpcInv, HandleInv, NEW t \in Thread, get_handle(t)
  PROVE  HandleInv'
<1>1. HandleFits(rpcc, hmap, hlock, th) /\ NoThread \notin Thread /\ DOMAIN th = Thread
  BY RpcAssumption, Zenon DEF HandleInv, RpcInv, ThreadsOK
<1>2. CASE ~hmap.in
  <2>1. /\ hlock = NoThread /\ hlock' = t /\ hmap' = hmap
        /\ \A u \in Thread \ {t} : th'[u] = th[u]
    BY <1>2, BindFacts, Zenon
  <2>2. \A u \in Thread : th[u].at = "idle"
    BY <1>1, <1>2, <2>1, Zenon DEF HandleFits
  <2> QED
    BY <1>2, <2>1, <2>2, Zenon DEF HandleInv, HandleFits
<1>3. CASE hmap.in
  <2>1. PICK s : s = [at |-> "have", k |-> Len(rpcc)]
    BY Zenon
  <2>2. /\ th[t].at = "idle" /\ hlock = NoThread /\ hmap' = [hmap EXCEPT !.refcnt = @ + 1]
        /\ th' = [th EXCEPT ![t] = s] /\ rpcc' = rpcc /\ hlock' = hlock
    BY <1>3, <2>1, Zenon DEF get_handle
  <2>3. PICK ts, hm : ts = th' /\ hm = hmap'
    BY Zenon
  <2>4. ts[t] = s /\ \A u \in Thread \ {t} : ts[u] = th[u]
    BY <1>1, <2>2, <2>3, Zenon
  <2>5. s.at = "have" /\ Uses(s) = Len(rpcc)
    BY <2>1, Zenon DEF Uses, InCall1
  <2>6. hm.in /\ hm.refcnt = hmap.refcnt + 1
    BY <1>3, <2>2, <2>3, ThreadKnown, Zenon DEF HandleOK
  <2>7. Users(ts) = Users(th) \union {t} /\ t \notin Users(th)
    BY <2>2, <2>4, <2>5, Zenon DEF Users
  <2>8. hm.refcnt = Cardinality(Users(ts))
    <3>1. Cardinality(Users(th) \union {t}) = Cardinality(Users(th)) + 1
      BY <2>7, UsersFinite, FS_AddElement, Zenon
    <3> QED
      BY <1>1, <1>3, <2>6, <2>7, <3>1, Zenon DEF HandleFits
  <2>9. ASSUME NEW u \in Thread, ts[u].at # "idle" PROVE Len(rpcc) = Uses(ts[u])
    <3>1. CASE u = t
      BY <2>4, <2>5, <3>1, Zenon
    <3>2. CASE u # t
      BY <1>1, <2>2, <2>4, <2>9, <3>2, Zenon DEF HandleFits
    <3> QED
      BY <3>1, <3>2, Zenon
  <2>10. HandleFits(rpcc, hm, hlock, ts)
    BY <1>1, <2>2, <2>6, <2>8, <2>9, Zenon DEF HandleFits
  <2> QED
    BY <2>2, <2>3, <2>10, Zenon DEF HandleInv
<1> QED
  BY <1>2, <1>3, Zenon

\* Steps of a thread within its call, and into it.
LEMMA HandleStepCall ==
  ASSUME RpcInv, RpcInv', HandleInv, NEW t \in Thread,
         Call(t) \/ Transmit(t) \/ Retransmit(t) \/ Expire(t)
  PROVE  HandleInv'
<1>1. CASE Call(t)
  <2>1. PICK k, s : /\ k = th[t].k
                    /\ s = [at |-> "send", ch |-> 0, ret |-> "none", val |-> 0,
                            h |-> [clt |-> k, xid |-> rpcc[k].xid, srv |-> rpcc[k].srv,
                                   xid_rep |-> Head(rpcc[k].window)]]
    BY Zenon
  <2>2. /\ th[t].at = "have" /\ rpcc' = [rpcc EXCEPT ![k].xid = rpcc[k].xid + 1]
        /\ th' = [th EXCEPT ![t] = s] /\ hmap' = hmap /\ hlock' = hlock
    BY <1>1, <2>1, Zenon DEF Call, call1
  <2>3. DOMAIN rpcc' = DOMAIN rpcc
    BY <2>2, Zenon
  <2>4. s.at = "send" /\ s.h.clt = k
    BY <2>1, Zenon
  <2>5. Steady(th[t], s)
    BY <2>1, <2>2, <2>4, Zenon DEF Steady, Uses, InCall1
  <2>6. \A u \in Thread : Steady(th[u], th'[u])
    BY <2>2, <2>5, Zenon DEF Steady, RpcInv, ThreadsOK
  <2>7. Len(rpcc') = Len(rpcc)
    BY <2>3, AsMany, Zenon
  <2> QED
    BY <2>2, <2>6, <2>7, HandleQuiet, Zenon DEF HandleInv
<1>2. CASE Transmit(t) \/ Retransmit(t) \/ Expire(t)
  <2>1. /\ InCall1(th[t]) /\ InCall1(th'[t]) /\ th'[t].h = th[t].h
        /\ \A u \in Thread \ {t} : th'[u] = th[u]
        /\ DOMAIN rpcc' = DOMAIN rpcc /\ hmap' = hmap /\ hlock' = hlock
    BY <1>2, WithinCall, Zenon
  <2>2. \A u \in Thread : Steady(th[u], th'[u])
    BY <2>1, Zenon DEF Steady, Uses, InCall1
  <2> QED
    BY <2>1, <2>2, AsMany, HandleQuiet, Zenon DEF HandleInv
<1> QED
  BY <1>1, <1>2, Zenon

\* A reply is read.
LEMMA HandleStepGotPdu ==
  ASSUME RpcInv, RpcInv', HandleInv, NEW c \in DOMAIN conn, ClientGotPdu(c)
  PROVE  HandleInv'
<1>1. PICK k, r : k = conn[c].clt /\ r = Head(conn[c].down)
  BY Zenon
<1>2. Closes1(rpcc, rpcc', k, r.xid) /\ Replied(th, th', k, r) /\ hmap' = hmap /\ hlock' = hlock
  BY <1>1, GotPduFacts, Zenon
<1>3. DOMAIN rpcc' = DOMAIN rpcc
  BY <1>2, Zenon DEF Closes1, SameCalls
<1>4. \A u \in Thread : Steady(th[u], th'[u])
  BY <1>2, Zenon DEF Replied, OpenAt, InCall1, Steady, Uses
<1> QED
  BY <1>2, <1>3, <1>4, AsMany, HandleQuiet, Zenon DEF HandleInv

\* A call returns; when it was bind's, the entry is made for this thread, the only one.
LEMMA HandleStepReturn ==
  ASSUME RpcInv, RpcInv', HandleInv, NEW t \in Thread, Return(t)
  PROVE  HandleInv'
<1>1. PICK k, x, ts : k = th[t].h.clt /\ x = th[t].h.xid /\ ts = th'
  BY Zenon
<1>2. /\ InCall1(th[t]) /\ Closes1(rpcc, rpcc', k, x)
      /\ \A u \in Thread \ {t} : ts[u] = th[u]
      /\ \/ /\ hlock # t /\ hlock' = hlock /\ hmap' = hmap
            /\ ts[t] = [at |-> "done", k |-> k]
         \/ /\ hlock = t /\ hlock' = NoThread /\ hmap' = hmap /\ ts[t] = Idle
         \/ /\ hlock = t /\ hlock' = NoThread
            /\ hmap' = [in |-> TRUE, refcnt |-> 1, del |-> FALSE]
            /\ ts[t] = [at |-> "have", k |-> k]
  BY <1>1, ReturnFacts, ZenonT(30)
<1>3. Len(rpcc') = Len(rpcc)
  <2>1. DOMAIN rpcc' = DOMAIN rpcc
    BY <1>2, Zenon DEF Closes1, SameCalls
  <2> QED
    BY <2>1, AsMany, Zenon
<1>4. HandleFits(rpcc, hmap, hlock, th) /\ NoThread \notin Thread
  BY RpcAssumption, Zenon DEF HandleInv
<1>5. CASE hlock # t
  <2>1. hlock' = hlock /\ hmap' = hmap /\ ts[t] = [at |-> "done", k |-> k]
    BY <1>2, <1>5, Zenon
  <2>2. Steady(th[t], ts[t])
    BY <1>1, <1>2, <2>1 DEF Steady, Uses, InCall1
  <2>3. \A u \in Thread : Steady(th[u], ts[u])
    BY <1>2, <2>2, Zenon DEF Steady
  <2> QED
    BY <1>1, <1>3, <1>4, <2>1, <2>3, HandleQuiet, Zenon DEF HandleInv
<1>6. CASE hlock = t
  <2>1. ~hmap.in /\ \A u \in Thread \ {t} : ts[u].at = "idle"
    BY <1>2, <1>4, <1>6, Zenon DEF HandleFits
  <2>2. CASE hmap' = hmap /\ ts[t] = Idle /\ hlock' = NoThread
    BY <1>1, <2>1, <2>2 DEF HandleInv, HandleFits, Idle
  <2>3. CASE /\ hmap' = [in |-> TRUE, refcnt |-> 1, del |-> FALSE] /\ hlock' = NoThread
             /\ ts[t] = [at |-> "have", k |-> k]
    <3>1. Users(ts) = {t}
      BY <2>1, <2>3 DEF Users
    <3>2. Cardinality(Users(ts)) = 1
      BY <3>1, FS_Singleton, Zenon
    <3>3. k = Len(rpcc) /\ Uses(ts[t]) = k
      BY <1>1, <1>6, <2>3, ThreadKnown DEF Binding, Uses, InCall1
    <3>4. hmap'.in /\ hmap'.refcnt = 1
      BY <2>3, Zenon
    <3> QED
      BY <1>1, <1>3, <2>1, <2>3, <3>2, <3>3, <3>4, ZenonT(30) DEF HandleInv, HandleFits
  <2> QED
    BY <1>2, <1>6, <2>2, <2>3, Zenon
<1> QED
  BY <1>5, <1>6, Zenon

\* A thread gives up its handle: the entry counts one less, and goes when it was to be
\* deleted and this was the last one.
LEMMA HandleStepDone ==
  ASSUME RpcInv, HandleInv, NEW t \in Thread, done_handle(t)
  PROVE  HandleInv'
<1>1. HandleFits(rpcc, hmap, hlock, th) /\ NoThread \notin Thread /\ DOMAIN th = Thread
  BY RpcAssumption, Zenon DEF HandleInv, RpcInv, ThreadsOK
<1>2. PICK ts, hm : ts = th' /\ hm = hmap'
  BY Zenon
<1>3. /\ th[t].at = "done" /\ hlock = NoThread /\ hlock' = hlock /\ rpcc' = rpcc
      /\ th' = [th EXCEPT ![t] = Idle]
  BY Zenon DEF done_handle
<1>4. ts[t] = Idle /\ \A u \in Thread \ {t} : ts[u] = th[u]
  BY <1>1, <1>2, <1>3, Zenon
<1>5. hmap.in /\ hmap.refcnt = Cardinality(Users(th))
  BY <1>1, <1>3, Zenon DEF HandleFits
<1>6. Users(ts) = Users(th) \ {t} /\ t \in Users(th)
  BY <1>3, <1>4 DEF Users, Idle
<1>7. Cardinality(Users(ts)) = hmap.refcnt - 1 /\ IsFiniteSet(Users(ts))
  BY <1>5, <1>6, UsersFinite, FS_RemoveElement
<1>8. ASSUME NEW u \in Thread, ts[u].at # "idle" PROVE u \in Users(ts) /\ Len(rpcc) = Uses(ts[u])
  BY <1>1, <1>3, <1>4, <1>8 DEF HandleFits, Idle, Users
<1>9. CASE hm.in /\ hm.refcnt = hmap.refcnt - 1
  BY <1>1, <1>2, <1>3, <1>7, <1>8, <1>9, Zenon DEF HandleInv, HandleFits
<1>10. CASE ~hm.in /\ hmap.refcnt - 1 = 0
  <2>1. Users(ts) = {}
    BY <1>7, <1>10, FS_EmptySet, Zenon
  <2> QED
    BY <1>1, <1>2, <1>3, <1>8, <1>10, <2>1, Zenon DEF HandleInv, HandleFits
<1>11. (hm.in /\ hm.refcnt = hmap.refcnt - 1) \/ (~hm.in /\ hmap.refcnt - 1 = 0)
  <2>1. CASE hmap.del
    <3>1. delete_handle_wo(hmap.refcnt - 1)
      BY <2>1, Zenon DEF done_handle
    <3>2. CASE hmap.refcnt - 1 = 0
      BY <1>2, <3>1, <3>2 DEF delete_handle_wo, NoHandle
    <3>3. CASE hmap.refcnt - 1 # 0
      <4>1. hm = [hmap EXCEPT !.del = TRUE, !.refcnt = hmap.refcnt - 1]
        BY <1>2, <3>1, <3>3, Zenon DEF delete_handle_wo
      <4>2. hm.in = hmap.in /\ hm.refcnt = hmap.refcnt - 1
        BY <4>1, ThreadKnown, Zenon DEF HandleOK
      <4> QED
        BY <1>5, <4>2, Zenon
    <3> QED
      BY <3>2, <3>3, Zenon
  <2>2. CASE ~hmap.del
    <3>1. hm = [hmap EXCEPT !.refcnt = hmap.refcnt - 1]
      BY <1>2, <2>2, Zenon DEF done_handle
    <3> QED
      BY <1>5, <3>1, ThreadKnown, Zenon DEF HandleOK
  <2> QED
    BY <2>1, <2>2, Zenon
<1> QED
  BY <1>9, <1>10, <1>11, Zenon

\* A handle is deleted: at once where no thread uses it.
LEMMA HandleStepDelete ==
  ASSUME RpcInv, HandleInv, delete_handle
  PROVE  HandleInv'
<1>1. HandleFits(rpcc, hmap, hlock, th)
  BY Zenon DEF HandleInv
<1>2. /\ hlock = NoThread /\ hmap.in /\ delete_handle_wo(hmap.refcnt)
      /\ rpcc' = rpcc /\ th' = th /\ hlock' = hlock
  BY Zenon DEF delete_handle
<1>3. hmap.refcnt = Cardinality(Users(th))
  BY <1>1, <1>2, Zenon DEF HandleFits
<1>4. CASE hmap.refcnt = 0
  <2>1. Users(th) = {}
    BY <1>3, <1>4, UsersFinite, FS_EmptySet, Zenon
  <2>2. ~hmap'.in
    BY <1>2, <1>4 DEF delete_handle_wo, NoHandle
  <2> QED
    BY <1>1, <1>2, <2>1, <2>2, Zenon DEF HandleInv, HandleFits, Users
<1>5. CASE hmap.refcnt # 0
  <2>1. PICK hm : hm = hmap'
    BY Zenon
  <2>2. hm = [hmap EXCEPT !.del = TRUE, !.refcnt = hmap.refcnt]
    BY <1>2, <1>5, <2>1, Zenon DEF delete_handle_wo
  <2>3. hm.in = hmap.in /\ hm.refcnt = hmap.refcnt
    BY <2>2, ThreadKnown, Zenon DEF HandleOK
  <2> QED
    BY <1>1, <1>2, <2>1, <2>3 DEF HandleInv, HandleFits
<1> QED
  BY <1>4, <1>5, Zenon

(***************************************************************************)
(* Counting.                                                               *)
(***************************************************************************)
\* One element e more or less.
Differ(A, B, e) ==
  /\ IsFiniteSet(B) /\ Cardinality(A) \in Nat /\ Cardinality(B) \in Nat
  /\ (e \in A <=> e \in B) => Cardinality(B) = Cardinality(A)
  /\ e \notin A /\ e \in B => Cardinality(B) = Cardinality(A) + 1
  /\ e \in A /\ e \notin B => Cardinality(A) = Cardinality(B) + 1

\* The size of a set that gains or loses at most one element.
LEMMA OneChange ==
  ASSUME NEW A, IsFiniteSet(A), NEW e, NEW B, B \ {e} = A \ {e}
  PROVE  Differ(A, B, e)
<1>1. CASE e \in A /\ e \notin B
  <2>1. B = A \ {e}
    BY <1>1, Zenon
  <2>2. IsFiniteSet(B) /\ Cardinality(B) = Cardinality(A) - 1
    BY <1>1, <2>1, FS_RemoveElement, Zenon
  <2> QED
    BY <1>1, <2>2, FS_CardinalityType DEF Differ
<1>2. CASE e \notin A /\ e \in B
  <2>1. B = A \union {e}
    BY <1>2, Zenon
  <2>2. IsFiniteSet(B) /\ Cardinality(B) = Cardinality(A) + 1
    BY <1>2, <2>1, FS_AddElement, Zenon
  <2> QED
    BY <1>2, <2>2, FS_CardinalityType, Zenon DEF Differ
<1>3. CASE e \in A <=> e \in B
  <2>1. B = A
    BY <1>3
  <2> QED
    BY <1>3, <2>1, FS_CardinalityType, Zenon DEF Differ
<1> QED
  BY <1>1, <1>2, <1>3, Zenon

\* Whether the job of a pool thread is on connection c, and whether d is c.
OnIt(s, c) == IF s.at # "idle" /\ s.c = c THEN 1 ELSE 0

Is(d, c) == IF d = c THEN 1 ELSE 0

\* The numbers of holders.
NQueued(js, c) == Cardinality(Queued(js, c))

NServing(ws, c) == Cardinality(Serving(ws, c))

NSaving(ks, c) == Cardinality(Saving(ks, c))

\* An empty queue.
LEMMA EmptyIsSeq == IsSeq(<<>>)
<1>1. <<>> \in Seq({})
  OBVIOUS
<1> QED
  BY <1>1, Zenon DEF IsSeq

\* They are numbers.
LEMMA HoldersAre ==
  ASSUME NEW js, IsSeq(js), NEW ws, NEW ks, NEW c
  PROVE  /\ IsFiniteSet(Queued(js, c)) /\ IsFiniteSet(Serving(ws, c)) /\ IsFiniteSet(Saving(ks, c))
         /\ NQueued(js, c) \in Nat /\ NServing(ws, c) \in Nat /\ NSaving(ks, c) \in Nat
<1>1. IsFiniteSet(DOMAIN js)
  <2>1. PICK T : js \in Seq(T)
    BY Zenon DEF IsSeq
  <2>2. DOMAIN js = 1..Len(js) /\ 1 \in Int /\ Len(js) \in Int
    BY <2>1
  <2>3. IsFiniteSet(1..Len(js))
    BY <2>2, FS_Interval, Zenon
  <2> QED
    BY <2>2, <2>3, Zenon
<1>2. IsFiniteSet(ClientId)
  <2>1. 1 \in Int /\ MaxClients \in Int
    BY RpcAssumption
  <2> QED
    BY <2>1, FS_Interval, Zenon DEF ClientId
<1>3. IsFiniteSet(Worker)
  BY RpcAssumption, Zenon
<1>4. Queued(js, c) \in SUBSET DOMAIN js
  BY Zenon DEF Queued
<1>5. Serving(ws, c) \in SUBSET Worker
  BY Zenon DEF Serving
<1>6. Saving(ks, c) \in SUBSET ClientId
  BY Zenon DEF Saving
<1>7. IsFiniteSet(Queued(js, c)) /\ IsFiniteSet(Serving(ws, c)) /\ IsFiniteSet(Saving(ks, c))
  BY <1>1, <1>2, <1>3, <1>4, <1>5, <1>6, FS_Subset, Zenon
<1> QED
  BY <1>7, FS_CardinalityType, Zenon DEF NQueued, NServing, NSaving

\* A pool thread takes a job or is done with it.
LEMMA ServingChanges ==
  ASSUME NEW ws, NEW w \in Worker, NEW ws2, \A v \in Worker \ {w} : ws2[v] = ws[v], NEW c
  PROVE  /\ NServing(ws, c) \in Nat /\ NServing(ws2, c) \in Nat
         /\ NServing(ws2, c) + OnIt(ws[w], c) = NServing(ws, c) + OnIt(ws2[w], c)
         /\ NServing(ws, c) >= OnIt(ws[w], c)
<1>1. PICK A, B : A = Serving(ws, c) /\ B = Serving(ws2, c)
  BY Zenon
<1>2. B \ {w} = A \ {w}
  BY <1>1, Zenon DEF Serving
<1>3. IsFiniteSet(A)
  <2>1. A \in SUBSET Worker /\ IsFiniteSet(Worker)
    BY <1>1, RpcAssumption, Zenon DEF Serving
  <2> QED
    BY <2>1, FS_Subset, Zenon
<1>4. Differ(A, B, w)
  BY <1>2, <1>3, OneChange, Zenon
<1>5. /\ OnIt(ws[w], c) = IF w \in A THEN 1 ELSE 0
      /\ OnIt(ws2[w], c) = IF w \in B THEN 1 ELSE 0
  BY <1>1, Zenon DEF OnIt, Serving
<1>6. w \in A => Cardinality(A) # 0
  BY <1>3, FS_EmptySet, Zenon
<1>7. NServing(ws, c) = Cardinality(A) /\ NServing(ws2, c) = Cardinality(B)
  BY <1>1, Zenon DEF NServing
<1> QED
  BY <1>4, <1>5, <1>6, <1>7 DEF Differ

\* dispatch saves another connection of a client.
LEMMA SavingChanges ==
  ASSUME NEW ks, NEW k \in ClientId, NEW ks2, \A j \in ClientId \ {k} : ks2[j] = ks[j], NEW c
  PROVE  /\ NSaving(ks, c) \in Nat /\ NSaving(ks2, c) \in Nat
         /\ NSaving(ks2, c) + Is(ks[k], c) = NSaving(ks, c) + Is(ks2[k], c)
<1>1. PICK A, B : A = Saving(ks, c) /\ B = Saving(ks2, c)
  BY Zenon
<1>2. B \ {k} = A \ {k}
  BY <1>1, Zenon DEF Saving
<1>3. IsFiniteSet(A)
  BY <1>1, HoldersAre, EmptyIsSeq, Zenon
<1>4. Differ(A, B, k)
  BY <1>2, <1>3, OneChange, Zenon
<1>5. /\ Is(ks[k], c) = IF k \in A THEN 1 ELSE 0
      /\ Is(ks2[k], c) = IF k \in B THEN 1 ELSE 0
  BY <1>1, Zenon DEF Is, Saving
<1>6. NSaving(ks, c) = Cardinality(A) /\ NSaving(ks2, c) = Cardinality(B)
  BY <1>1, Zenon DEF NSaving
<1> QED
  BY <1>4, <1>5, <1>6 DEF Differ

\* A job is queued.
LEMMA QueuedAppend ==
  ASSUME NEW js, IsSeq(js), NEW j, NEW c
  PROVE  /\ IsSeq(Append(js, j)) /\ NQueued(js, c) \in Nat
         /\ NQueued(Append(js, j), c) = NQueued(js, c) + Is(j.c, c)
<1>1. PICK T : js \in Seq(T)
  BY Zenon DEF IsSeq
<1>2. PICK ls, n : ls = Append(js, j) /\ n = Len(js) + 1
  BY Zenon
<1>3. js \in Seq(T \union {j})
  BY <1>1
<1>4. /\ ls \in Seq(T \union {j}) /\ DOMAIN ls = DOMAIN js \union {n} /\ n \notin DOMAIN js
      /\ ls[n] = j /\ \A i \in DOMAIN js : ls[i] = js[i]
  BY <1>2, <1>3
<1>5. PICK A, B : A = Queued(js, c) /\ B = Queued(ls, c)
  BY Zenon
<1>6. B \ {n} = A \ {n} /\ n \notin A
  BY <1>4, <1>5, Zenon DEF Queued
<1>7. IsFiniteSet(A)
  BY <1>5, HoldersAre, Zenon
<1>8. Differ(A, B, n)
  BY <1>6, <1>7, OneChange, Zenon
<1>9. Is(j.c, c) = IF n \in B THEN 1 ELSE 0
  BY <1>4, <1>5, Zenon DEF Queued, Is
<1>10. NQueued(js, c) = Cardinality(A) /\ NQueued(ls, c) = Cardinality(B)
  BY <1>5, Zenon DEF NQueued
<1>11. IsSeq(ls)
  BY <1>4, Zenon DEF IsSeq
<1>12. NQueued(js, c) \in Nat /\ NQueued(ls, c) = NQueued(js, c) + Is(j.c, c)
  BY <1>6, <1>8, <1>9, <1>10 DEF Differ
<1> QED
  BY <1>2, <1>11, <1>12, Zenon

\* The first job leaves the queue.
LEMMA QueuedTail ==
  ASSUME NEW js, IsSeq(js), js # <<>>, NEW c
  PROVE  /\ IsSeq(Tail(js)) /\ NQueued(js, c) \in Nat /\ NQueued(Tail(js), c) \in Nat
         /\ NQueued(js, c) = NQueued(Tail(js), c) + Is(Head(js).c, c)
<1>1. PICK T : js \in Seq(T)
  BY Zenon DEF IsSeq
<1>2. PICK ls, j : ls = Tail(js) /\ j = Head(js)
  BY Zenon
<1>3. /\ ls \in Seq(T) /\ j = js[1] /\ 1 \in DOMAIN js /\ DOMAIN js \subseteq Nat \ {0}
      /\ DOMAIN ls \subseteq Nat \ {0}
      /\ \A i \in DOMAIN js : i # 1 => i - 1 \in DOMAIN ls
      /\ \A i \in DOMAIN ls : i + 1 \in DOMAIN js /\ ls[i] = js[i + 1]
  BY <1>1, <1>2
<1>4. PICK A, B, C : A = Queued(js, c) /\ B = Queued(ls, c) /\ C = A \ {1}
  BY Zenon
<1>5. IsFiniteSet(A) /\ IsFiniteSet(C)
  <2>1. IsFiniteSet(A)
    BY <1>4, HoldersAre, Zenon
  <2> QED
    BY <1>4, <2>1, FS_RemoveElement, Zenon
<1>6. Cardinality(B) = Cardinality(C) /\ IsFiniteSet(B)
  <2>1. PICK f : f = [i \in C |-> i - 1]
    BY Zenon
  <2>2. ASSUME NEW i \in C PROVE f[i] = i - 1 /\ i - 1 \in B
    <3>1. i \in DOMAIN js /\ js[i].c = c /\ i # 1 /\ i \in Nat
      BY <1>3, <1>4, Zenon DEF Queued
    <3>2. i - 1 \in DOMAIN ls
      BY <1>3, <3>1, Zenon
    <3>3. ls[i - 1] = js[(i - 1) + 1] /\ (i - 1) + 1 = i
      BY <1>3, <3>1, <3>2
    <3> QED
      BY <1>4, <2>1, <3>1, <3>2, <3>3, Zenon DEF Queued
  <2>3. f \in [C -> B]
    BY <2>1, <2>2, Zenon
  <2>4. ASSUME NEW i \in C, NEW k \in C, f[i] = f[k] PROVE i = k
    <3>1. i \in Nat /\ k \in Nat
      BY <1>3, <1>4, Zenon DEF Queued
    <3>2. i - 1 = k - 1
      BY <2>2, <2>4, Zenon
    <3> QED
      BY <3>1, <3>2
  <2>5. ASSUME NEW b \in B PROVE \E i \in C : f[i] = b
    <3>1. b \in DOMAIN ls /\ ls[b].c = c /\ b \in Nat \ {0}
      BY <1>3, <1>4, Zenon DEF Queued
    <3>2. b + 1 \in DOMAIN js /\ js[b + 1].c = c /\ b + 1 # 1
      BY <1>3, <3>1
    <3>3. b + 1 \in C /\ (b + 1) - 1 = b
      BY <1>4, <3>1, <3>2 DEF Queued
    <3> QED
      BY <2>2, <3>3, Zenon
  <2>6. f \in Bijection(C, B)
    BY <2>3, <2>4, <2>5, Zenon DEF Bijection, Injection, Surjection, IsInjective
  <2>7. ExistsBijection(C, B)
    BY <2>6, Zenon DEF ExistsBijection
  <2> QED
    BY <1>5, <2>7, FS_Bijection
<1>7. C \ {1} = A \ {1} /\ 1 \notin C
  BY <1>4, Zenon
<1>8. Differ(A, C, 1)
  BY <1>5, <1>7, OneChange, Zenon
<1>9. Is(j.c, c) = IF 1 \in A THEN 1 ELSE 0
  BY <1>3, <1>4, Zenon DEF Queued, Is
<1>10. NQueued(js, c) = Cardinality(A) /\ NQueued(ls, c) = Cardinality(B)
  BY <1>4, Zenon DEF NQueued
<1>11. IsSeq(ls)
  BY <1>3, Zenon DEF IsSeq
<1>12. /\ NQueued(js, c) \in Nat /\ NQueued(ls, c) \in Nat
       /\ NQueued(js, c) = NQueued(ls, c) + Is(j.c, c)
  BY <1>6, <1>7, <1>8, <1>9, <1>10 DEF Differ
<1> QED
  BY <1>2, <1>11, <1>12, Zenon

(***************************************************************************)
(* Connections that are counted.                                           *)
(***************************************************************************)
IsConn(x) ==
  x \in [clt : {x.clt}, inst : {x.inst}, cdead : {x.cdead}, sdead : {x.sdead},
         up : {x.up}, down : {x.down}, rpdu : {x.rpdu}, ref : {x.ref}]

AreConns(cs) == 0 \notin DOMAIN cs /\ \A c \in DOMAIN cs : IsConn(cs[c])

\* A connection becomes y: its count grows by a and shrinks by b.
Recount(x, y, a, b) ==
  /\ IsConn(y) /\ y.inst = x.inst /\ (x.sdead => y.sdead)
  /\ x.ref \in Int => y.ref = (x.ref + a) - b

\* One reference to connection p more, one to q less; 0 is no connection.
Recounted(cs, ds, p, q) ==
  /\ DOMAIN ds = DOMAIN cs
  /\ \A c \in DOMAIN cs : Recount(cs[c], ds[c], Is(p, c), Is(q, c))

\* A change of counts leaves connections connections.
LEMMA AreConnsStay ==
  ASSUME NEW cs, AreConns(cs), NEW ds, NEW p, NEW q, Recounted(cs, ds, p, q)
  PROVE  AreConns(ds)
BY Zenon DEF AreConns, Recounted, Recount

\* The connections of the invariant.
LEMMA ConnsCount ==
  ASSUME RpcInv
  PROVE  AreConns(conn) /\ Recounted(conn, conn, 0, 0)
<1>1. ConnsOK(rpcc, nonce, ran, conn)
  BY ServerKnown, Zenon
<1>2. PICK T : conn \in Seq(T)
  BY <1>1, Zenon DEF ConnsOK, IsSeq
<1>3. 0 \notin DOMAIN conn
  BY <1>2
<1>4. ASSUME NEW c \in DOMAIN conn PROVE IsConn(conn[c])
  <2>1. PICK x : x = conn[c]
    BY Zenon
  <2>2. ConnOK(rpcc, nonce, ran, x)
    BY <1>1, <2>1, Zenon DEF ConnsOK
  <2>3. IsConn(x)
    BY <2>2, Zenon DEF ConnOK, IsConn
  <2> QED
    BY <2>1, <2>3, Zenon
<1>5. ASSUME NEW c \in DOMAIN conn PROVE Recount(conn[c], conn[c], Is(0, c), Is(0, c))
  <2>1. 0 # c
    BY <1>3, Zenon
  <2> QED
    BY <1>4, <2>1 DEF Recount, Is
<1> QED
  BY <1>3, <1>4, <1>5, Zenon DEF AreConns, Recounted

\* Connection c alone changes; EXCEPT changes nothing where there is none.
LEMMA OneRecounted ==
  ASSUME NEW cs, AreConns(cs), NEW c, NEW y, NEW p, NEW q, p \in {0, c}, q \in {0, c},
         c \in DOMAIN cs => Recount(cs[c], y, Is(p, c), Is(q, c)),
         NEW ds, ds = [cs EXCEPT ![c] = y]
  PROVE  Recounted(cs, ds, p, q)
<1>1. DOMAIN ds = DOMAIN cs
  BY Zenon
<1>2. ASSUME NEW e \in DOMAIN cs PROVE Recount(cs[e], ds[e], Is(p, e), Is(q, e))
  <2>1. CASE e = c
    BY <2>1, Zenon
  <2>2. CASE e # c
    <3>1. ds[e] = cs[e] /\ IsConn(cs[e]) /\ 0 # e
      BY <2>2, Zenon DEF AreConns
    <3>2. Is(p, e) = 0 /\ Is(q, e) = 0
      BY <2>2, <3>1 DEF Is
    <3> QED
      BY <3>1, <3>2 DEF Recount
  <2> QED
    BY <2>1, <2>2, Zenon
<1> QED
  BY <1>1, <1>2, Zenon DEF Recounted

\* incref, decref, and the reply that is sent before a decref.
LEMMA RefRecounted ==
  ASSUME NEW cs, AreConns(cs), NEW c, NEW r
  PROVE  /\ Recounted(cs, incref(cs, c), c, 0)
         /\ Recounted(cs, decref(cs, c), 0, c)
         /\ Recounted(cs, Sent(cs, c, r), 0, c)
<1>1. PICK x : x = cs[c]
  BY Zenon
<1>2. c \in DOMAIN cs => IsConn(x) /\ 0 # c
  BY <1>1, Zenon DEF AreConns
<1>3. PICK y : y = [x EXCEPT !.ref = @ + 1]
  BY Zenon
<1>4. PICK z : z = [x EXCEPT !.ref = @ - 1]
  BY Zenon
<1>5. PICK d : d = IF cs[c].sdead THEN cs[c].down ELSE Append(cs[c].down, r)
  BY Zenon
<1>6. PICK u : u = [z EXCEPT !.down = d]
  BY Zenon
<1>7. c \in DOMAIN cs => Recount(x, y, Is(c, c), Is(0, c))
  <2>1. ASSUME c \in DOMAIN cs PROVE IsConn(y) /\ y.inst = x.inst /\ y.sdead = x.sdead /\ y.ref = x.ref + 1
    BY <1>2, <1>3, <2>1, Zenon DEF IsConn
  <2> QED
    BY <1>2, <2>1 DEF Recount, Is
<1>8. c \in DOMAIN cs => Recount(x, z, Is(0, c), Is(c, c)) /\ Recount(x, u, Is(0, c), Is(c, c))
  <2>1. ASSUME c \in DOMAIN cs
        PROVE  /\ IsConn(z) /\ z.inst = x.inst /\ z.sdead = x.sdead /\ z.ref = x.ref - 1
               /\ IsConn(u) /\ u.inst = x.inst /\ u.sdead = x.sdead /\ u.ref = x.ref - 1
    <3>1. IsConn(z) /\ z.inst = x.inst /\ z.sdead = x.sdead /\ z.ref = x.ref - 1
      BY <1>2, <1>4, <2>1, Zenon DEF IsConn
    <3>2. IsConn(u) /\ u.inst = z.inst /\ u.sdead = z.sdead /\ u.ref = z.ref
      BY <1>6, <3>1, Zenon DEF IsConn
    <3> QED
      BY <3>1, <3>2, Zenon
  <2> QED
    BY <1>2, <2>1 DEF Recount, Is
<1>9. incref(cs, c) = [cs EXCEPT ![c] = y]
  BY <1>1, <1>3, Zenon DEF incref
<1>10. decref(cs, c) = [cs EXCEPT ![c] = z]
  BY <1>1, <1>4, Zenon DEF decref
<1>11. Recounted(cs, incref(cs, c), c, 0)
  BY <1>1, <1>7, <1>9, OneRecounted, Zenon
<1>12. Recounted(cs, decref(cs, c), 0, c)
  BY <1>1, <1>8, <1>10, OneRecounted, Zenon
<1>13. Recounted(cs, Sent(cs, c, r), 0, c)
  <2>1. CASE c \in DOMAIN cs
    <3>1. x.down = z.down
      BY <1>2, <1>4, <2>1, Zenon DEF IsConn
    <3>2. Sent(cs, c, r) = [cs EXCEPT ![c] = u]
      BY <1>1, <1>4, <1>5, <1>6, <1>10, <2>1, <3>1, ZenonT(30) DEF Sent
    <3> QED
      BY <1>1, <1>8, <3>2, OneRecounted, Zenon
  <2>2. CASE c \notin DOMAIN cs
    <3>1. PICK ds, v : ds = decref(cs, c)
                       /\ v = [ds[c] EXCEPT !.down = IF cs[c].sdead THEN @ ELSE Append(@, r)]
      BY Zenon
    <3>2. Sent(cs, c, r) = [ds EXCEPT ![c] = v] /\ DOMAIN ds = DOMAIN cs
      BY <3>1, Zenon DEF Sent, decref
    <3>3. Sent(cs, c, r) = [cs EXCEPT ![c] = v]
      BY <1>10, <2>2, <3>1, <3>2, Zenon
    <3> QED
      BY <2>2, <3>3, OneRecounted, Zenon
  <2> QED
    BY <2>1, <2>2, Zenon
<1> QED
  BY <1>11, <1>12, <1>13, Zenon

\* Two changes one after the other.
LEMMA RecountTwice ==
  ASSUME NEW cs, NEW ds, NEW es, NEW p, NEW q, NEW p2, NEW q2, NEW p3, NEW q3,
         Recounted(cs, ds, p, q), Recounted(ds, es, p2, q2),
         \A c \in DOMAIN cs : Is(p, c) + Is(p2, c) + Is(q3, c) = Is(q, c) + Is(q2, c) + Is(p3, c)
  PROVE  Recounted(cs, es, p3, q3)
<1>1. ASSUME NEW c \in DOMAIN cs PROVE Recount(cs[c], es[c], Is(p3, c), Is(q3, c))
  <2>1. PICK x, y, z : x = cs[c] /\ y = ds[c] /\ z = es[c]
    BY Zenon
  <2>2. Recount(x, y, Is(p, c), Is(q, c)) /\ Recount(y, z, Is(p2, c), Is(q2, c))
    BY <2>1, Zenon DEF Recounted
  <2>3. PICK a, b, a2, b2, a3, b3 \in Int :
          /\ a = Is(p, c) /\ b = Is(q, c) /\ a2 = Is(p2, c) /\ b2 = Is(q2, c)
          /\ a3 = Is(p3, c) /\ b3 = Is(q3, c) /\ a + a2 + b3 = b + b2 + a3
    <3>1. Is(p, c) \in Int /\ Is(q, c) \in Int /\ Is(p2, c) \in Int /\ Is(q2, c) \in Int
          /\ Is(p3, c) \in Int /\ Is(q3, c) \in Int
      BY DEF Is
    <3> QED
      BY <3>1, ZenonT(30)
  <2>4. x.ref \in Int => z.ref = (x.ref + a3) - b3
    <3>1. x.ref \in Int => y.ref = (x.ref + a) - b
      BY <2>2, <2>3, Zenon DEF Recount
    <3>2. y.ref \in Int => z.ref = (y.ref + a2) - b2
      BY <2>2, <2>3, Zenon DEF Recount
    <3> QED
      BY <2>3, <3>1, <3>2
  <2>5. Recount(x, z, a3, b3)
    BY <2>2, <2>4, Zenon DEF Recount
  <2> QED
    BY <2>1, <2>3, <2>5, Zenon
<1>2. DOMAIN es = DOMAIN cs
  BY Zenon DEF Recounted
<1> QED
  BY <1>1, <1>2, Zenon DEF Recounted

\* The holders of a connection.
LEMMA HoldersSum ==
  ASSUME NEW js, IsSeq(js), NEW ws, NEW ks, NEW c
  PROVE  /\ HoldersOf(js, ws, ks, c) = 1 + NQueued(js, c) + NServing(ws, c) + NSaving(ks, c)
         /\ HoldersOf(js, ws, ks, c) \in Nat \ {0}
<1>1. HoldersOf(js, ws, ks, c) = 1 + NQueued(js, c) + NServing(ws, c) + NSaving(ks, c)
  BY Zenon DEF HoldersOf, NQueued, NServing, NSaving
<1>2. NQueued(js, c) \in Nat /\ NServing(ws, c) \in Nat /\ NSaving(ks, c) \in Nat
  BY HoldersAre, Zenon
<1> QED
  BY <1>1, <1>2

\* A connection whose count changes at least as its holders do: a reference is only
\* added where the listener still has its own.
LEMMA StillCounts ==
  ASSUME NEW n, NEW x, NEW m \in Nat \ {0}, Counts(n, x, m), NEW y, NEW a \in {0, 1}, NEW b \in {0, 1},
         Recount(x, y, a, b), NEW m2 \in Nat \ {0}, m2 + b <= m + a,
         a = 1 => b = 1 \/ m >= 2 \/ x.ref # 0
  PROVE  Counts(n, y, m2)
<1>1. x.inst \in Nat /\ x.inst <= n /\ y.inst = x.inst /\ (x.sdead => y.sdead)
  BY Zenon DEF Counts, Recount
<1>2. ASSUME x.inst = n
      PROVE  y.ref \in Nat /\ (y.ref >= m2 \/ (y.ref = 0 /\ m2 = 1)) /\ (y.ref = 0 => x.ref = 0)
  <2>1. PICK u, v : u = x.ref /\ v = y.ref
    BY Zenon
  <2>2. u \in Nat /\ (u >= m \/ (u = 0 /\ m = 1))
    BY <1>2, <2>1, ZenonT(30) DEF Counts
  <2>3. v = (u + a) - b
    BY <2>1, <2>2 DEF Recount
  <2>4. a = 1 => b = 1 \/ m >= 2 \/ u # 0
    BY <2>1, Zenon
  <2>5. v \in Nat /\ (v >= m2 \/ (v = 0 /\ m2 = 1)) /\ (v = 0 => u = 0)
    BY <2>2, <2>3, <2>4
  <2> QED
    BY <2>1, <2>5, Zenon
<1>3. x.inst = n /\ x.ref = 0 => x.sdead
  BY Zenon DEF Counts
<1> QED
  BY <1>1, <1>2, <1>3, Zenon DEF Counts

\* Counts stay right when references and holders change together.
LEMMA StillFit ==
  ASSUME NEW n, NEW cs, NEW js, NEW ws, NEW ks, CountsFit(n, cs, js, ws, ks), IsSeq(js),
         NEW ds, NEW js2, NEW ws2, NEW ks2, IsSeq(js2), NEW p, NEW q, Recounted(cs, ds, p, q),
         \A c \in DOMAIN cs :
           HoldersOf(js2, ws2, ks2, c) + Is(q, c) <= HoldersOf(js, ws, ks, c) + Is(p, c),
         p \in DOMAIN cs => HoldersOf(js, ws, ks, p) >= 2 \/ cs[p].ref # 0
  PROVE  CountsFit(n, ds, js2, ws2, ks2)
<1>1. ASSUME NEW c \in DOMAIN cs PROVE Counts(n, ds[c], HoldersOf(js2, ws2, ks2, c))
  <2>1. PICK m, m2 \in Nat \ {0} : m = HoldersOf(js, ws, ks, c) /\ m2 = HoldersOf(js2, ws2, ks2, c)
    <3>1. HoldersOf(js, ws, ks, c) \in Nat \ {0} /\ HoldersOf(js2, ws2, ks2, c) \in Nat \ {0}
      BY HoldersSum, Zenon
    <3> QED
      BY <3>1, Zenon
  <2>2. PICK a, b \in {0, 1} : a = Is(p, c) /\ b = Is(q, c)
    BY Zenon DEF Is
  <2>3. Counts(n, cs[c], m) /\ Recount(cs[c], ds[c], a, b)
    BY <2>1, <2>2, Zenon DEF CountsFit, Recounted
  <2>4. m2 + b <= m + a
    BY <2>1, <2>2, Zenon
  <2>5. a = 1 => m >= 2 \/ cs[c].ref # 0
    BY <2>1, <2>2 DEF Is
  <2>6. Counts(n, ds[c], m2)
    BY <2>3, <2>4, <2>5, StillCounts
  <2> QED
    BY <2>1, <2>6, Zenon
<1> QED
  BY <1>1, Zenon DEF CountsFit, Recounted

(***************************************************************************)
(* The steps that count no reference.                                      *)
(***************************************************************************)
LEMMA CountQuiet ==
  ASSUME RpcInv, CountInv, UNCHANGED <<nonce, jobs, wk, conns>>, Recounted(conn, conn', 0, 0)
  PROVE  CountInv'
<1>1. IsSeq(jobs) /\ 0 \notin DOMAIN conn
  BY ServerKnown, ConnsCount, Zenon DEF JobsOK, AreConns
<1>2. ASSUME NEW c \in DOMAIN conn
      PROVE  HoldersOf(jobs, wk, conns, c) + Is(0, c) <= HoldersOf(jobs, wk, conns, c) + Is(0, c)
  <2>1. HoldersOf(jobs, wk, conns, c) \in Nat /\ Is(0, c) \in Nat
    BY <1>1, HoldersSum, Zenon DEF Is
  <2> QED
    BY <2>1
<1>3. CountsFit(nonce, conn', jobs, wk, conns)
  <2>1. PICK ds : ds = conn'
    BY Zenon
  <2>2. Recounted(conn, ds, 0, 0)
    BY <2>1, Zenon
  <2>3. CountsFit(nonce, ds, jobs, wk, conns)
    BY <1>1, <1>2, <2>2, StillFit, Zenon DEF CountInv
  <2> QED
    BY <2>1, <2>3, Zenon
<1> QED
  BY <1>3, Zenon DEF CountInv

\* One connection becomes y, with the same count.
LEMMA CountOne ==
  ASSUME RpcInv, CountInv, UNCHANGED <<nonce, jobs, wk, conns>>, NEW c \in DOMAIN conn, NEW y,
         conn' = [conn EXCEPT ![c] = y], IsConn(y), y.inst = conn[c].inst, y.ref = conn[c].ref,
         conn[c].sdead => y.sdead
  PROVE  CountInv'
<1>1. AreConns(conn)
  BY ConnsCount, Zenon
<1>2. Recount(conn[c], y, Is(0, c), Is(0, c))
  BY <1>1 DEF Recount, Is, AreConns
<1>3. Recounted(conn, conn', 0, 0)
  <2>1. PICK ds : ds = conn'
    BY Zenon
  <2>2. ds = [conn EXCEPT ![c] = y]
    BY <2>1, Zenon
  <2>3. Recounted(conn, ds, 0, 0)
    BY <1>1, <1>2, <2>2, OneRecounted, Zenon
  <2> QED
    BY <2>1, <2>3, Zenon
<1> QED
  BY <1>3, CountQuiet, Zenon

\* A handle is deleted and its connection closed: on the client's side.
LEMMA CountClose ==
  ASSUME RpcInv, CountInv, UNCHANGED <<nonce, jobs, wk, conns>>, NEW n, delete_handle_wo(n)
  PROVE  CountInv'
<1>1. CASE n = 0
  <2>1. PICK ds, ch : ds = conn' /\ ch = rpcc[Len(rpcc)].chan
    BY Zenon
  <2>2. ds = [c \in DOMAIN conn |-> IF c = ch THEN [conn[c] EXCEPT !.cdead = TRUE] ELSE conn[c]]
    BY <1>1, <2>1, Zenon DEF delete_handle_wo, closeconn
  <2>3. ASSUME NEW c \in DOMAIN conn PROVE Recount(conn[c], ds[c], Is(0, c), Is(0, c))
    <3>1. PICK x, y : x = conn[c] /\ y = [x EXCEPT !.cdead = TRUE]
      BY Zenon
    <3>2. IsConn(x) /\ 0 # c
      BY <3>1, ConnsCount, Zenon DEF AreConns
    <3>3. IsConn(y) /\ y.inst = x.inst /\ y.sdead = x.sdead /\ y.ref = x.ref
      BY <3>1, <3>2, Zenon DEF IsConn
    <3>4. ds[c] = x \/ ds[c] = y
      BY <2>2, <3>1, Zenon
    <3>5. Recount(x, x, Is(0, c), Is(0, c)) /\ Recount(x, y, Is(0, c), Is(0, c))
      BY <3>2, <3>3 DEF Recount, Is
    <3> QED
      BY <3>1, <3>4, <3>5, Zenon
  <2>4. DOMAIN ds = DOMAIN conn
    BY <2>2, Zenon
  <2>5. Recounted(conn, ds, 0, 0)
    BY <2>3, <2>4, Zenon DEF Recounted
  <2> QED
    BY <2>1, <2>5, CountQuiet, Zenon
<1>2. CASE n # 0
  <2>1. conn' = conn
    BY <1>2, Zenon DEF delete_handle_wo
  <2> QED
    BY <2>1, ConnsCount, CountQuiet, Zenon
<1> QED
  BY <1>1, <1>2, Zenon

\* The listener accepts a connection, and drops dead ones that nobody else refers to.
LEMMA CountConnect ==
  ASSUME RpcInv, CountInv, UNCHANGED <<nonce, jobs, wk, conns>>, NEW k, NEW h, conn' = connect(k, h)
  PROVE  CountInv'
<1>1. PICK ds : ds = conn'
  BY Zenon
<1>2. PICK es, z, l : /\ es = Collect(conn) /\ l = Len(es) + 1
                      /\ z = [clt |-> k, inst |-> nonce, cdead |-> FALSE, sdead |-> FALSE,
                              up |-> <<h>>, down |-> <<>>, rpdu |-> NoPdu, ref |-> 1]
  BY Zenon
<1>3. ds = Append(es, z)
  BY <1>1, <1>2, Zenon DEF connect
<1>4. /\ DOMAIN es = DOMAIN conn
      /\ \A c \in DOMAIN conn : es[c] = IF conn[c].sdead /\ conn[c].ref = 1
                                        THEN [conn[c] EXCEPT !.ref = 0] ELSE conn[c]
  BY <1>2, Zenon DEF Collect
<1>5. IsSeq(es) /\ IsSeq(jobs)
  <2>1. PICK S : conn \in Seq(S)
    BY ServerKnown, Zenon DEF ConnsOK, IsSeq
  <2>2. Len(conn) \in Nat /\ es = [c \in 1..Len(conn) |-> es[c]]
    BY <1>2, <2>1 DEF Collect
  <2>3. PICK T : T = {es[c] : c \in 1..Len(conn)}
    BY Zenon
  <2>4. es \in Seq(T)
    BY <2>2, <2>3
  <2> QED
    BY <2>4, ServerKnown, Zenon DEF IsSeq, JobsOK
<1>6. /\ DOMAIN ds = DOMAIN es \union {l} /\ l \notin DOMAIN es
      /\ ds[l] = z /\ \A c \in DOMAIN es : ds[c] = es[c]
  <2>1. PICK T : es \in Seq(T)
    BY <1>5, Zenon DEF IsSeq
  <2>2. es \in Seq(T \union {z})
    BY <2>1
  <2> QED
    BY <1>2, <1>3, <2>2
<1>7. ASSUME NEW c \in DOMAIN conn PROVE Counts(nonce, ds[c], HoldersOf(jobs, wk, conns, c))
  <2>1. PICK m, x, y : m = HoldersOf(jobs, wk, conns, c) /\ x = conn[c] /\ y = [x EXCEPT !.ref = 0]
    BY Zenon
  <2>2. Counts(nonce, x, m) /\ m \in Nat \ {0}
    BY <1>5, <2>1, HoldersSum, Zenon DEF CountInv, CountsFit
  <2>3. ds[c] = IF x.sdead /\ x.ref = 1 THEN y ELSE x
    BY <1>4, <1>6, <2>1, Zenon
  <2>4. y.inst = x.inst /\ y.sdead = x.sdead /\ y.ref = 0
    <3>1. IsConn(x)
      BY <2>1, ConnsCount, Zenon DEF AreConns
    <3> QED
      BY <2>1, <3>1, Zenon DEF IsConn
  <2>5. x.sdead /\ x.ref = 1 => Counts(nonce, y, m)
    BY <2>2, <2>4 DEF Counts
  <2>6. Counts(nonce, ds[c], m)
    BY <2>2, <2>3, <2>5, ZenonT(30)
  <2> QED
    BY <2>1, <2>6, Zenon
<1>8. Counts(nonce, ds[l], HoldersOf(jobs, wk, conns, l))
  <2>1. l \notin DOMAIN conn
    BY <1>4, <1>6, Zenon
  <2>2. Queued(jobs, l) = {}
    BY <2>1, ServerKnown, Zenon DEF Queued, JobsOK, JobOK
  <2>3. Serving(wk, l) = {}
    BY <2>1, WorkerKnown, Zenon DEF Serving, Busy
  <2>4. Saving(conns, l) = {}
    <3>1. l # 0
      <4>1. PICK T : es \in Seq(T)
        BY <1>5, Zenon DEF IsSeq
      <4> QED
        BY <1>2, <4>1
    <3> QED
      BY <2>1, <3>1, ServerKnown, ZenonT(30) DEF Saving, SavedOK
  <2>5. HoldersOf(jobs, wk, conns, l) = 1
    BY <2>2, <2>3, <2>4, FS_EmptySet DEF HoldersOf
  <2>6. z.inst = nonce /\ z.ref = 1 /\ nonce \in Nat
    BY <1>2, ServerKnown, Zenon
  <2> QED
    BY <1>6, <2>5, <2>6 DEF Counts
<1>9. CountsFit(nonce, ds, jobs, wk, conns)
  BY <1>4, <1>6, <1>7, <1>8, Zenon DEF CountsFit
<1> QED
  BY <1>1, <1>9, Zenon DEF CountInv

\* call1 sends its request.
LEMMA CountTransmit ==
  ASSUME RpcInv, CountInv, NEW t \in Thread, Transmit(t)
  PROVE  CountInv'
<1>1. PICK h, c : /\ conn' = IF c = 0 THEN conn
                             ELSE IF c \in DOMAIN conn THEN [conn EXCEPT ![c].up = Append(@, h)]
                             ELSE connect(h.clt, h)
                  /\ UNCHANGED <<nonce, jobs, wk, conns>>
  BY Zenon DEF Transmit, serverVars
<1>2. CASE c = 0
  <2>1. conn' = conn
    BY <1>1, <1>2, Zenon
  <2> QED
    BY <1>1, <2>1, ConnsCount, CountQuiet, Zenon
<1>3. CASE c # 0 /\ c \in DOMAIN conn
  <2>1. PICK x, q : x = conn[c] /\ q = Append(x.up, h)
    BY Zenon
  <2>2. PICK y : y = [x EXCEPT !.up = q]
    BY Zenon
  <2>3. conn' = [conn EXCEPT ![c] = y]
    BY <1>1, <1>3, <2>1, <2>2, Zenon
  <2>4. IsConn(x)
    BY <1>3, <2>1, ConnsCount, Zenon DEF AreConns
  <2>5. IsConn(y) /\ y.inst = x.inst /\ y.sdead = x.sdead /\ y.ref = x.ref
    BY <2>2, <2>4, Zenon DEF IsConn
  <2> QED
    BY <1>1, <1>3, <2>1, <2>3, <2>5, CountOne, Zenon
<1>4. CASE c # 0 /\ c \notin DOMAIN conn
  <2>1. conn' = connect(h.clt, h)
    BY <1>1, <1>4, Zenon
  <2> QED
    BY <1>1, <2>1, CountConnect, Zenon
<1> QED
  BY <1>2, <1>3, <1>4, Zenon

\* The other steps of the threads.
LEMMA CountThread ==
  ASSUME RpcInv, CountInv,
         \/ delete_handle
         \/ \E t \in Thread : \/ get_handle(t) \/ Call(t) \/ Retransmit(t) \/ Expire(t)
                              \/ Return(t) \/ done_handle(t)
  PROVE  CountInv'
<1>1. UNCHANGED <<nonce, jobs, wk, conns>>
  BY Zenon DEF delete_handle, get_handle, Call, Retransmit, Expire, Return, done_handle, serverVars
<1>2. conn' = conn \/ \E n : delete_handle_wo(n)
  BY Zenon DEF delete_handle, get_handle, Call, Retransmit, Expire, Return, done_handle
<1>3. CASE conn' = conn
  BY <1>1, <1>3, ConnsCount, CountQuiet, Zenon
<1> QED
  BY <1>1, <1>2, <1>3, CountClose, Zenon

\* A reply is read; a connection breaks or ends.
LEMMA CountConnection ==
  ASSUME RpcInv, CountInv, NEW c \in DOMAIN conn, ClientGotPdu(c) \/ Break(c) \/ Eof(c)
  PROVE  CountInv'
<1>1. UNCHANGED <<nonce, jobs, wk, conns>>
  BY Zenon DEF ClientGotPdu, Break, Eof, serverVars
<1>2. PICK x : x = conn[c]
  BY Zenon
<1>3. IsConn(x)
  BY <1>2, ConnsCount, Zenon DEF AreConns
<1>4. PICK y : /\ conn' = [conn EXCEPT ![c] = y]
               /\ IsConn(y) /\ y.inst = x.inst /\ y.ref = x.ref /\ (x.sdead => y.sdead)
  <2>1. PICK y : /\ conn' = [conn EXCEPT ![c] = y]
                 /\ \/ \E q : y = [x EXCEPT !.down = q]
                    \/ \E q : y = [x EXCEPT !.cdead = TRUE, !.up = q]
                    \/ \E q : y = [x EXCEPT !.sdead = TRUE, !.down = q]
                    \/ y = [x EXCEPT !.cdead = TRUE]
                    \/ y = [x EXCEPT !.sdead = TRUE]
    <3>1. CASE ClientGotPdu(c)
      <4>1. PICK q, y : q = Tail(x.down) /\ y = [x EXCEPT !.down = q]
        BY Zenon
      <4>2. conn' = [conn EXCEPT ![c] = y]
        BY <1>2, <3>1, <4>1, ZenonT(30) DEF ClientGotPdu
      <4> QED
        BY <4>1, <4>2, Zenon
    <3>2. CASE Break(c)
      <4>1. \/ \E m : conn' = [conn EXCEPT ![c] = [x EXCEPT !.cdead = TRUE, !.up = SubSeq(@, 1, m)]]
            \/ \E m : conn' = [conn EXCEPT ![c] = [x EXCEPT !.sdead = TRUE, !.down = SubSeq(@, 1, m)]]
        BY <1>2, <3>2, ZenonT(30) DEF Break
      <4>2. ASSUME NEW m, conn' = [conn EXCEPT ![c] = [x EXCEPT !.cdead = TRUE, !.up = SubSeq(@, 1, m)]]
            PROVE  \E y, q : conn' = [conn EXCEPT ![c] = y] /\ y = [x EXCEPT !.cdead = TRUE, !.up = q]
        BY <4>2, Zenon
      <4>3. ASSUME NEW m, conn' = [conn EXCEPT ![c] = [x EXCEPT !.sdead = TRUE, !.down = SubSeq(@, 1, m)]]
            PROVE  \E y, q : conn' = [conn EXCEPT ![c] = y] /\ y = [x EXCEPT !.sdead = TRUE, !.down = q]
        BY <4>3, Zenon
      <4> QED
        BY <4>1, <4>2, <4>3, ZenonT(30)
    <3>3. CASE Eof(c)
      <4>1. \/ conn' = [conn EXCEPT ![c] = [x EXCEPT !.cdead = TRUE]]
            \/ conn' = [conn EXCEPT ![c] = [x EXCEPT !.sdead = TRUE]]
        BY <1>2, <3>3, Zenon DEF Eof
      <4> QED
        BY <4>1, Zenon
    <3> QED
      BY <3>1, <3>2, <3>3, Zenon
  <2>2. ASSUME NEW q, y = [x EXCEPT !.down = q]
        PROVE  IsConn(y) /\ y.inst = x.inst /\ y.ref = x.ref /\ (x.sdead => y.sdead)
    BY <1>3, <2>2, Zenon DEF IsConn
  <2>3. ASSUME NEW q, y = [x EXCEPT !.cdead = TRUE, !.up = q]
        PROVE  IsConn(y) /\ y.inst = x.inst /\ y.ref = x.ref /\ (x.sdead => y.sdead)
    BY <1>3, <2>3, Zenon DEF IsConn
  <2>4. ASSUME NEW q, y = [x EXCEPT !.sdead = TRUE, !.down = q]
        PROVE  IsConn(y) /\ y.inst = x.inst /\ y.ref = x.ref /\ (x.sdead => y.sdead)
    BY <1>3, <2>4, Zenon DEF IsConn
  <2>5. ASSUME y = [x EXCEPT !.cdead = TRUE]
        PROVE  IsConn(y) /\ y.inst = x.inst /\ y.ref = x.ref /\ (x.sdead => y.sdead)
    BY <1>3, <2>5, Zenon DEF IsConn
  <2>6. ASSUME y = [x EXCEPT !.sdead = TRUE]
        PROVE  IsConn(y) /\ y.inst = x.inst /\ y.ref = x.ref /\ (x.sdead => y.sdead)
    BY <1>3, <2>6, Zenon DEF IsConn
  <2> QED
    BY <2>1, <2>2, <2>3, <2>4, <2>5, <2>6, ZenonT(30)
<1> QED
  BY <1>1, <1>2, <1>4, CountOne, Zenon

(***************************************************************************)
(* The steps of the server.                                                *)
(***************************************************************************)
\* References to p and q are counted while the queue, the pool and conns_ change.
LEMMA CountServer ==
  ASSUME RpcInv, CountInv, nonce' = nonce, IsSeq(jobs'), NEW p, NEW q,
         Recounted(conn, conn', p, q),
         \A c \in DOMAIN conn : HoldersOf(jobs', wk', conns', c) + Is(q, c)
                                  <= HoldersOf(jobs, wk, conns, c) + Is(p, c),
         p \in DOMAIN conn => HoldersOf(jobs, wk, conns, p) >= 2 \/ conn[p].ref # 0
  PROVE  CountInv'
<1>1. IsSeq(jobs)
  BY ServerKnown, Zenon DEF JobsOK
<1>2. PICK ds, js, ws, ks : ds = conn' /\ js = jobs' /\ ws = wk' /\ ks = conns'
  BY Zenon
<1>3. /\ IsSeq(js) /\ Recounted(conn, ds, p, q)
      /\ \A c \in DOMAIN conn : HoldersOf(js, ws, ks, c) + Is(q, c)
                                  <= HoldersOf(jobs, wk, conns, c) + Is(p, c)
  BY <1>2, Zenon
<1>4. CountsFit(nonce, ds, js, ws, ks)
  BY <1>1, <1>3, StillFit, Zenon DEF CountInv
<1> QED
  BY <1>2, <1>4, Zenon DEF CountInv

\* A request is read: the job that is queued refers to the connection.
LEMMA CountReadCb ==
  ASSUME RpcInv, CountInv, NEW c \in DOMAIN conn, read_cb(c)
  PROVE  CountInv'
<1>0. PICK x, p, q : /\ x = conn[c]
                     /\ p = IF x.rpdu # NoPdu THEN x.rpdu ELSE Head(x.up)
                     /\ q = IF x.rpdu # NoPdu THEN x.up ELSE Tail(x.up)
  BY Zenon
<1>1. /\ x = conn[c] /\ x.inst = nonce /\ ~x.sdead
      /\ UNCHANGED <<nonce, wk, conns>>
      /\ \/ got_pdu(c, p, q)
         \/ conn' = [conn EXCEPT ![c].rpdu = p, ![c].up = q] /\ UNCHANGED jobs
  BY <1>0, Zenon DEF read_cb
<1>2. IsConn(x) /\ 0 # c /\ IsSeq(jobs)
  BY <1>1, ServerKnown, ConnsCount, Zenon DEF AreConns, JobsOK
<1>3. x.ref \in Nat /\ x.ref # 0
  BY <1>1, Zenon DEF CountInv, CountsFit, Counts
<1>4. CASE got_pdu(c, p, q)
  <2>1. PICK j, y : j = [c |-> c, h |-> p] /\ y = [x EXCEPT !.ref = @ + 1, !.rpdu = NoPdu, !.up = q]
    BY Zenon
  <2>2. jobs' = Append(jobs, j) /\ conn' = [conn EXCEPT ![c] = y]
    <3>1. jobs' = Append(jobs, j)
      BY <1>4, <2>1, Zenon DEF got_pdu, enq
    <3>2. conn' = [incref(conn, c) EXCEPT ![c].rpdu = NoPdu, ![c].up = q]
      BY <1>4, Zenon DEF got_pdu
    <3>3. conn' = [conn EXCEPT ![c] = y]
      BY <1>1, <2>1, <3>2, Zenon DEF incref
    <3> QED
      BY <3>1, <3>3, Zenon
  <2>3. IsConn(y) /\ y.inst = x.inst /\ y.sdead = x.sdead /\ y.ref = x.ref + 1
    BY <1>2, <2>1, Zenon DEF IsConn
  <2>4. Recount(x, y, Is(c, c), Is(0, c))
    BY <1>2, <2>3 DEF Recount, Is
  <2>5. Recounted(conn, conn', c, 0)
    <3>1. PICK ds : ds = conn'
      BY Zenon
    <3>2. ds = [conn EXCEPT ![c] = y] /\ AreConns(conn)
      BY <2>2, <3>1, ConnsCount, Zenon
    <3>3. Recounted(conn, ds, c, 0)
      BY <1>1, <2>4, <3>2, OneRecounted, ZenonT(30)
    <3> QED
      BY <3>1, <3>3, Zenon
  <2>6. IsSeq(jobs')
    BY <1>2, <2>2, QueuedAppend, ZenonT(30)
  <2>7. ASSUME NEW e \in DOMAIN conn
        PROVE  HoldersOf(jobs', wk', conns', e) + Is(0, e) <= HoldersOf(jobs, wk, conns, e) + Is(c, e)
    <3>1. NQueued(jobs', e) = NQueued(jobs, e) + Is(c, e)
      BY <1>2, <2>1, <2>2, QueuedAppend
    <3>2. Is(0, e) = 0 /\ Is(c, e) \in Nat
      BY ConnsCount, Zenon DEF Is, AreConns
    <3>3. NQueued(jobs, e) \in Nat /\ NServing(wk, e) \in Nat /\ NSaving(conns, e) \in Nat
      BY <1>2, HoldersAre, ZenonT(30)
    <3>4. HoldersOf(jobs, wk, conns, e) = 1 + NQueued(jobs, e) + NServing(wk, e) + NSaving(conns, e)
      BY <1>2, HoldersSum
    <3>5. HoldersOf(jobs', wk', conns', e) = 1 + NQueued(jobs', e) + NServing(wk, e) + NSaving(conns, e)
      BY <1>1, <2>6, HoldersSum
    <3> QED
      BY <3>1, <3>2, <3>3, <3>4, <3>5
  <2> QED
    BY <1>1, <1>3, <2>5, <2>6, <2>7, CountServer, ZenonT(30)
<1>5. CASE conn' = [conn EXCEPT ![c].rpdu = p, ![c].up = q] /\ UNCHANGED jobs
  <2>1. PICK y : y = [x EXCEPT !.rpdu = p, !.up = q]
    BY Zenon
  <2>2. conn' = [conn EXCEPT ![c] = y]
    BY <1>1, <1>5, <2>1, Zenon
  <2>3. IsConn(y) /\ y.inst = x.inst /\ y.sdead = x.sdead /\ y.ref = x.ref
    BY <1>2, <2>1, Zenon DEF IsConn
  <2> QED
    BY <1>1, <1>5, <2>2, <2>3, CountOne, ZenonT(30)
<1> QED
  BY <1>1, <1>4, <1>5, Zenon

\* A pool thread takes a job, and with it the reference of the job.
LEMMA CountTakeJob ==
  ASSUME RpcInv, CountInv, NEW w \in Worker, takeJob(w)
  PROVE  CountInv'
<1>1. PICK j : j = Head(jobs)
  BY Zenon
<1>2. PICK s : s = [at |-> "check", c |-> j.c, h |-> j.h]
  BY Zenon
<1>3. /\ wk[w].at = "idle" /\ jobs # <<>> /\ jobs' = Tail(jobs) /\ wk' = [wk EXCEPT ![w] = s]
      /\ UNCHANGED <<conns, conn, nonce>>
  BY <1>1, <1>2, Zenon DEF takeJob, deq
<1>4. IsSeq(jobs) /\ DOMAIN wk = Worker
  BY ServerKnown, Zenon DEF JobsOK, WorkersOK
<1>5. wk'[w] = s /\ \A v \in Worker \ {w} : wk'[v] = wk[v]
  BY <1>3, <1>4, Zenon
<1>6. IsSeq(jobs')
  BY <1>3, <1>4, QueuedTail, ZenonT(30)
<1>7. ASSUME NEW e \in DOMAIN conn
      PROVE  HoldersOf(jobs', wk', conns', e) + Is(0, e) <= HoldersOf(jobs, wk, conns, e) + Is(0, e)
  <2>1. /\ NQueued(jobs, e) = NQueued(jobs', e) + Is(j.c, e) /\ NQueued(jobs', e) \in Nat
        /\ NQueued(jobs, e) \in Nat
    BY <1>1, <1>3, <1>4, QueuedTail, ZenonT(30)
  <2>2. PICK ws : ws = wk'
    BY Zenon
  <2>2a. ws[w] = s /\ \A v \in Worker \ {w} : ws[v] = wk[v]
    BY <1>5, <2>2, ZenonT(30)
  <2>3. /\ NServing(wk, e) \in Nat /\ NServing(ws, e) \in Nat
        /\ NServing(ws, e) + OnIt(wk[w], e) = NServing(wk, e) + OnIt(s, e)
    BY <2>2a, ServingChanges
  <2>4. OnIt(wk[w], e) = 0 /\ OnIt(s, e) = Is(j.c, e) /\ Is(j.c, e) \in Nat /\ Is(0, e) \in Nat
    BY <1>2, <1>3, Zenon DEF OnIt, Is
  <2>5. NSaving(conns, e) \in Nat
    BY <1>4, HoldersAre, Zenon
  <2>6. HoldersOf(jobs, wk, conns, e) = 1 + NQueued(jobs, e) + NServing(wk, e) + NSaving(conns, e)
    BY <1>4, HoldersSum
  <2>7. HoldersOf(jobs', wk', conns', e) = 1 + NQueued(jobs', e) + NServing(ws, e) + NSaving(conns, e)
    BY <1>3, <1>6, <2>2, HoldersSum
  <2> QED
    BY <2>1, <2>3, <2>4, <2>5, <2>6, <2>7
<1>8. 0 \notin DOMAIN conn /\ Recounted(conn, conn', 0, 0)
  BY <1>3, ConnsCount, Zenon DEF AreConns
<1> QED
  BY <1>3, <1>6, <1>7, <1>8, CountServer, ZenonT(30)

\* A pool thread goes on with its job, or drops it with its reference, if it gives that back.
LEMMA CountWorker ==
  ASSUME RpcInv, CountInv, NEW w \in Worker, wk[w].at # "idle", NEW s, wk' = [wk EXCEPT ![w] = s],
         UNCHANGED <<nonce, jobs, conns>>, NEW q, Recounted(conn, conn', 0, q),
         \/ s = Idle /\ q \in {0, wk[w].c}
         \/ s.at # "idle" /\ s.c = wk[w].c /\ q = 0
  PROVE  CountInv'
<1>1. IsSeq(jobs) /\ DOMAIN wk = Worker
  BY ServerKnown, Zenon DEF JobsOK, WorkersOK
<1>2. PICK ws : ws = wk'
  BY Zenon
<1>3. ws[w] = s /\ \A v \in Worker \ {w} : ws[v] = wk[v]
  BY <1>1, <1>2, ZenonT(30)
<1>4. ASSUME NEW e \in DOMAIN conn
      PROVE  HoldersOf(jobs', wk', conns', e) + Is(q, e) <= HoldersOf(jobs, wk, conns, e) + Is(0, e)
  <2>1. /\ NServing(wk, e) \in Nat /\ NServing(ws, e) \in Nat
        /\ NServing(ws, e) + OnIt(wk[w], e) = NServing(wk, e) + OnIt(s, e)
    BY <1>3, ServingChanges
  <2>2. 0 # e
    BY ConnsCount, ZenonT(30) DEF AreConns
  <2>3. /\ OnIt(s, e) + Is(q, e) <= OnIt(wk[w], e) /\ Is(0, e) = 0
        /\ OnIt(s, e) \in Nat /\ Is(q, e) \in Nat /\ OnIt(wk[w], e) \in Nat
    BY <2>2 DEF OnIt, Is, Idle
  <2>4. NQueued(jobs, e) \in Nat /\ NSaving(conns, e) \in Nat
    BY <1>1, HoldersAre, ZenonT(30)
  <2>5. HoldersOf(jobs, wk, conns, e) = 1 + NQueued(jobs, e) + NServing(wk, e) + NSaving(conns, e)
    BY <1>1, HoldersSum
  <2>6. HoldersOf(jobs', wk', conns', e) = 1 + NQueued(jobs, e) + NServing(ws, e) + NSaving(conns, e)
    BY <1>1, <1>2, HoldersSum
  <2> QED
    BY <2>1, <2>3, <2>4, <2>5, <2>6
<1>5. 0 \notin DOMAIN conn /\ IsSeq(jobs')
  BY <1>1, ConnsCount DEF AreConns
<1> QED
  BY <1>4, <1>5, CountServer, ZenonT(30)

\* A pool thread goes on with its job.
LEMMA CountGoesOn ==
  ASSUME RpcInv, CountInv, NEW w \in Worker, wk[w].at # "idle", NEW s, wk' = [wk EXCEPT ![w] = s],
         UNCHANGED <<nonce, jobs, conns>>, Recounted(conn, conn', 0, 0),
         s.at # "idle", s.c = wk[w].c
  PROVE  CountInv'
BY CountWorker, Zenon

\* A pool thread is done with its job, and gives the reference back or does not.
LEMMA CountEnds ==
  ASSUME RpcInv, CountInv, NEW w \in Worker, wk[w].at # "idle", wk' = [wk EXCEPT ![w] = Idle],
         UNCHANGED <<nonce, jobs, conns>>, NEW q, Recounted(conn, conn', 0, q), q \in {0, wk[w].c}
  PROVE  CountInv'
BY CountWorker, Zenon

\* dispatch: a refused request leaves its reference behind; otherwise conns_ gives up one
\* reference for another.
LEMMA CountDispatch ==
  ASSUME RpcInv, CountInv, NEW w \in Worker, dispatch(w)
  PROVE  CountInv'
<1>1. PICK h, c : h = wk[w].h /\ c = wk[w].c
  BY Zenon
<1>2. wk[w].at = "check" /\ UNCHANGED <<nonce, jobs>>
  BY Zenon DEF dispatch
<1>3. Busy(wk[w]) /\ AreConns(conn)
  BY <1>2, WorkerKnown, ConnsCount
<1>4. c \in DOMAIN conn /\ h.clt \in ClientId
  BY <1>1, <1>3 DEF Busy
<1>5. CASE isold(h)
  <2>1. PICK r, cs : r = Reply(h, "oldsrv") /\ cs = Sent(conn, c, r)
    BY Zenon
  <2>2. conn' = incref(cs, c) /\ wk' = [wk EXCEPT ![w] = Idle] /\ UNCHANGED conns
    BY <1>1, <1>5, <2>1 DEF dispatch
  <2>3. Recounted(conn, cs, 0, c) /\ AreConns(cs)
    BY <1>3, <2>1, RefRecounted, AreConnsStay
  <2>4. Recounted(cs, incref(cs, c), c, 0)
    BY <2>3, RefRecounted
  <2>5. Recounted(conn, incref(cs, c), 0, 0)
    <3>1. \A e \in DOMAIN conn : Is(0, e) + Is(c, e) + Is(0, e) = Is(c, e) + Is(0, e) + Is(0, e)
      BY DEF Is
    <3> QED
      BY <2>3, <2>4, <3>1, RecountTwice
  <2> QED
    <3>1. Recounted(conn, conn', 0, 0)
      BY <2>2, <2>5, Zenon
    <3> QED
      BY <1>2, <2>2, <3>1, CountEnds, ZenonT(30)
<1>6. CASE ~isold(h)
  <2>1. PICK s, old, k : s = [wk[w] EXCEPT !.at = "dup"] /\ k = h.clt /\ old = conns[k]
    BY Zenon
  <2>2. /\ conn' = Saved(h, c) /\ conns' = [conns EXCEPT ![k] = c] /\ wk' = [wk EXCEPT ![w] = s]
    BY <1>1, <1>6, <2>1 DEF dispatch
  <2>3. s.at = "dup" /\ s.c = c
    BY <1>1, <1>3, <2>1 DEF Busy
  <2>4. Recounted(conn, Saved(h, c), c, old)
    <3>1. CASE old = c
      <4>1. Saved(h, c) = conn
        BY <2>1, <3>1, Zenon DEF Saved
      <4>2. \A e \in DOMAIN conn : Recount(conn[e], conn[e], Is(c, e), Is(c, e))
        BY <1>3 DEF Recount, Is, AreConns
      <4> QED
        BY <3>1, <4>1, <4>2 DEF Recounted
    <3>2. CASE old # c
      <4>1. PICK drop : drop = IF old = 0 THEN conn ELSE decref(conn, old)
        BY Zenon
      <4>2. Saved(h, c) = incref(drop, c)
        BY <2>1, <3>2, <4>1 DEF Saved
      <4>3. Recounted(conn, drop, 0, old) /\ AreConns(drop)
        BY <1>3, <4>1, RefRecounted, ConnsCount, AreConnsStay
      <4>4. Recounted(drop, incref(drop, c), c, 0)
        BY <4>3, RefRecounted, Zenon
      <4>5. \A e \in DOMAIN conn : Is(0, e) + Is(c, e) + Is(old, e) = Is(old, e) + Is(0, e) + Is(c, e)
        BY DEF Is
      <4>6. Recounted(conn, incref(drop, c), c, old)
        BY <4>3, <4>4, <4>5, RecountTwice
      <4> QED
        BY <4>2, <4>6
    <3> QED
      BY <3>1, <3>2, Zenon
  <2>5. IsSeq(jobs) /\ DOMAIN wk = Worker /\ DOMAIN conns = ClientId
    BY ServerKnown, Zenon DEF JobsOK, WorkersOK, SavedOK
  <2>6. PICK ws, ks : ws = wk' /\ ks = conns'
    BY Zenon
  <2>7. /\ ws[w] = s /\ \A v \in Worker \ {w} : ws[v] = wk[v]
        /\ ks[k] = c /\ \A j \in ClientId \ {k} : ks[j] = conns[j]
    BY <1>4, <2>1, <2>2, <2>5, <2>6, ZenonT(30)
  <2>8. ASSUME NEW e \in DOMAIN conn
        PROVE  HoldersOf(jobs', wk', conns', e) + Is(old, e) <= HoldersOf(jobs, wk, conns, e) + Is(c, e)
    <3>1. /\ NServing(wk, e) \in Nat /\ NServing(ws, e) \in Nat
          /\ NServing(ws, e) + OnIt(wk[w], e) = NServing(wk, e) + OnIt(s, e)
      BY <2>7, ServingChanges
    <3>2. /\ NSaving(conns, e) \in Nat /\ NSaving(ks, e) \in Nat
          /\ NSaving(ks, e) + Is(old, e) = NSaving(conns, e) + Is(c, e)
      BY <1>4, <2>1, <2>7, SavingChanges
    <3>3. OnIt(s, e) = OnIt(wk[w], e) /\ OnIt(s, e) \in Nat /\ Is(old, e) \in Nat /\ Is(c, e) \in Nat
      BY <1>1, <1>2, <2>3, ZenonT(30) DEF OnIt, Is
    <3>4. NQueued(jobs, e) \in Nat
      BY <2>5, HoldersAre, ZenonT(30)
    <3>5. HoldersOf(jobs, wk, conns, e) = 1 + NQueued(jobs, e) + NServing(wk, e) + NSaving(conns, e)
      BY <2>5, HoldersSum
    <3>6. HoldersOf(jobs', wk', conns', e) = 1 + NQueued(jobs, e) + NServing(ws, e) + NSaving(ks, e)
      BY <1>2, <2>5, <2>6, HoldersSum
    <3> QED
      BY <3>1, <3>2, <3>3, <3>4, <3>5, <3>6
  <2>9. HoldersOf(jobs, wk, conns, c) >= 2
    <3>1. NServing(wk, c) \in Nat /\ NServing(wk, c) >= OnIt(wk[w], c)
      BY <2>7, ServingChanges, Zenon
    <3>2. OnIt(wk[w], c) = 1
      BY <1>1, <1>2, Zenon DEF OnIt
    <3>3. NQueued(jobs, c) \in Nat /\ NSaving(conns, c) \in Nat
      BY <2>5, HoldersAre, ZenonT(30)
    <3>4. HoldersOf(jobs, wk, conns, c) = 1 + NQueued(jobs, c) + NServing(wk, c) + NSaving(conns, c)
      BY <2>5, HoldersSum
    <3> QED
      BY <3>1, <3>2, <3>3, <3>4
  <2>10. Recounted(conn, conn', c, old) /\ IsSeq(jobs')
    BY <1>2, <2>2, <2>4, <2>5, ZenonT(30)
  <2> QED
    BY <1>2, <2>8, <2>9, <2>10, CountServer
<1> QED
  BY <1>5, <1>6

\* The check for duplicates: the job goes on, or ends with its reference.
LEMMA CountCheckDuplicate ==
  ASSUME RpcInv, CountInv, NEW w \in Worker, checkduplicate_and_update(w)
  PROVE  CountInv'
<1>1. PICK c : c = wk[w].c
  BY Zenon
<1>2. /\ wk[w].at = "dup" /\ UNCHANGED <<nonce, jobs, conns>>
      /\ \/ wk' = [wk EXCEPT ![w].at = "run"] /\ UNCHANGED conn
         \/ conn' = decref(conn, c) /\ wk' = [wk EXCEPT ![w] = Idle]
         \/ (\E r : conn' = Sent(conn, c, r)) /\ wk' = [wk EXCEPT ![w] = Idle]
  BY <1>1, Zenon DEF checkduplicate_and_update
<1>3. Busy(wk[w]) /\ AreConns(conn) /\ wk[w].at # "idle"
  BY <1>2, WorkerKnown, ConnsCount
<1>4. CASE wk' = [wk EXCEPT ![w].at = "run"] /\ UNCHANGED conn
  <2>1. PICK s : s = [wk[w] EXCEPT !.at = "run"]
    BY Zenon
  <2>2. s.at # "idle" /\ s.c = wk[w].c
    BY <1>3, <2>1, Zenon DEF Busy
  <2>3. wk' = [wk EXCEPT ![w] = s] /\ Recounted(conn, conn', 0, 0)
    BY <1>4, <2>1, ConnsCount, ZenonT(30)
  <2> QED
    BY <1>2, <1>3, <2>2, <2>3, CountGoesOn, ZenonT(30)
<1>5. CASE conn' = decref(conn, c) /\ wk' = [wk EXCEPT ![w] = Idle]
  <2>1. Recounted(conn, conn', 0, c)
    BY <1>3, <1>5, RefRecounted, ZenonT(30)
  <2> QED
    BY <1>1, <1>2, <1>3, <1>5, <2>1, CountEnds, ZenonT(30)
<1>6. CASE (\E r : conn' = Sent(conn, c, r)) /\ wk' = [wk EXCEPT ![w] = Idle]
  <2>1. Recounted(conn, conn', 0, c)
    BY <1>3, <1>6, RefRecounted
  <2> QED
    BY <1>1, <1>2, <1>3, <1>6, <2>1, CountEnds, ZenonT(30)
<1> QED
  BY <1>2, <1>4, <1>5, <1>6

\* The handler runs and its reply is stored.
LEMMA CountRun ==
  ASSUME RpcInv, CountInv, NEW w \in Worker, fn(w) \/ add_reply(w)
  PROVE  CountInv'
<1>1. PICK a \in {"reply", "send"} :
        wk' = [wk EXCEPT ![w].at = a] /\ UNCHANGED <<nonce, jobs, conns, conn>>
  BY Zenon DEF fn, add_reply
<1>2. wk[w].at # "idle"
  BY Zenon DEF fn, add_reply
<1>3. Busy(wk[w])
  BY <1>2, WorkerKnown, Zenon
<1>4. PICK s : s = [wk[w] EXCEPT !.at = a]
  BY Zenon
<1>5. s.at # "idle" /\ s.c = wk[w].c
  BY <1>1, <1>3, <1>4 DEF Busy
<1>6. wk' = [wk EXCEPT ![w] = s] /\ Recounted(conn, conn', 0, 0)
  BY <1>1, <1>4, ConnsCount
<1> QED
  BY <1>1, <1>2, <1>5, <1>6, CountGoesOn, ZenonT(30)

\* The reply goes out: on the latest connection, which is counted meanwhile, where its own
\* is dead.
LEMMA CountSendReply ==
  ASSUME RpcInv, CountInv, NEW w \in Worker, SendReply(w)
  PROVE  CountInv'
<1>1. PICK h, c : h = wk[w].h /\ c = wk[w].c
  BY Zenon
<1>2. PICK latest, moved, cs, r :
        /\ cs = IF moved THEN incref(decref(conn, c), latest) ELSE conn
        /\ wk[w].at = "send" /\ conn' = Sent(cs, IF moved THEN latest ELSE c, r)
        /\ wk' = [wk EXCEPT ![w] = Idle]
        /\ UNCHANGED <<nonce, jobs, conns>>
  BY <1>1, Zenon DEF SendReply
<1>3. AreConns(conn)
  BY ConnsCount, Zenon
<1>4. Recounted(conn, conn', 0, c)
  <2>1. CASE ~moved
    <3>1. conn' = Sent(conn, c, r)
      BY <1>2, <2>1, Zenon
    <3> QED
      BY <1>3, <3>1, RefRecounted, Zenon
  <2>2. CASE moved
    <3>1. PICK ds, es : ds = decref(conn, c) /\ es = conn'
      BY Zenon
    <3>2. cs = incref(ds, latest) /\ es = Sent(cs, latest, r)
      BY <1>2, <2>2, <3>1, ZenonT(30)
    <3>3. Recounted(conn, ds, 0, c) /\ AreConns(ds)
      BY <1>3, <3>1, RefRecounted, AreConnsStay
    <3>4. Recounted(ds, cs, latest, 0) /\ AreConns(cs)
      BY <3>2, <3>3, RefRecounted, AreConnsStay, ZenonT(30)
    <3>5. Recounted(cs, es, 0, latest)
      BY <3>2, <3>4, RefRecounted, Zenon
    <3>6. \A e \in DOMAIN ds :
            Is(latest, e) + Is(0, e) + Is(0, e) = Is(0, e) + Is(latest, e) + Is(0, e)
      BY DEF Is
    <3>7. Recounted(ds, es, 0, 0)
      BY <3>4, <3>5, <3>6, RecountTwice
    <3>8. \A e \in DOMAIN conn : Is(0, e) + Is(0, e) + Is(c, e) = Is(c, e) + Is(0, e) + Is(0, e)
      BY DEF Is
    <3>9. Recounted(conn, es, 0, c)
      BY <3>3, <3>7, <3>8, RecountTwice
    <3> QED
      BY <3>1, <3>9
  <2> QED
    BY <2>1, <2>2, Zenon
<1>5. wk[w].at # "idle"
  BY <1>2, Zenon
<1> QED
  BY <1>1, <1>2, <1>4, <1>5, CountEnds, ZenonT(30)

\* After a crash no connection is of the new incarnation.
LEMMA CountCrash ==
  ASSUME RpcInv, CountInv, Crash
  PROVE  CountInv'
<1>1. PICK n, ds, js, ws, ks : n = nonce' /\ ds = conn' /\ js = jobs' /\ ws = wk' /\ ks = conns'
  BY Zenon
<1>2. /\ n = nonce + 1
      /\ ds = [c \in DOMAIN conn |-> [conn[c] EXCEPT !.sdead = TRUE, !.ref = 0]]
  BY <1>1, Zenon DEF Crash, Incarnation
<1>3. nonce \in Nat /\ n = nonce + 1
  BY <1>2, ServerKnown, Zenon
<1>4. ASSUME NEW c \in DOMAIN conn PROVE Counts(n, ds[c], HoldersOf(js, ws, ks, c))
  <2>1. PICK x, y : x = conn[c] /\ y = ds[c]
    BY Zenon
  <2>2. y = [x EXCEPT !.sdead = TRUE, !.ref = 0] /\ IsConn(x)
    BY <1>2, <2>1, ConnsCount, Zenon DEF AreConns
  <2>3. y.inst = x.inst
    BY <2>2, Zenon DEF IsConn
  <2>4. x.inst \in Nat /\ x.inst <= nonce
    BY <2>1, Zenon DEF CountInv, CountsFit, Counts
  <2>5. y.inst \in Nat /\ y.inst <= n /\ y.inst # n
    BY <1>3, <2>3, <2>4
  <2> QED
    BY <2>1, <2>5, Zenon DEF Counts
<1>5. DOMAIN ds = DOMAIN conn
  BY <1>2, Zenon
<1>6. CountsFit(n, ds, js, ws, ks)
  BY <1>4, <1>5, Zenon DEF CountsFit
<1> QED
  BY <1>1, <1>6, Zenon DEF CountInv

(***************************************************************************)
(* Acknowledgements, handles and counts: every step keeps them.            *)
(***************************************************************************)
LEMMA ClientsKept ==
  ASSUME UNCHANGED clientVars
  PROVE  (AckInv => AckInv') /\ (HandleInv => HandleInv')
<1>1. rpcc' = rpcc /\ th' = th /\ hmap' = hmap /\ hlock' = hlock
  BY Zenon DEF clientVars
<1> QED
  BY <1>1, Zenon DEF AckInv, HandleInv

\* The steps of the server and of the connections leave the clients alone.
LEMMA ServerAlone ==
  ASSUME \/ \E w \in Worker : \/ takeJob(w) \/ dispatch(w) \/ checkduplicate_and_update(w)
                              \/ fn(w) \/ add_reply(w) \/ SendReply(w)
         \/ \E c \in DOMAIN conn : read_cb(c) \/ Break(c) \/ Eof(c)
         \/ Crash
  PROVE  UNCHANGED clientVars
BY Zenon DEF takeJob, dispatch, checkduplicate_and_update, fn, add_reply, SendReply, read_cb,
             Break, Eof, Crash, Incarnation

\* The next-state relation, as those three invariants look at it.
LEMMA NextSteps ==
  ASSUME [Next]_vars
  PROVE  \/ \E t \in Thread : \/ get_handle(t) \/ Call(t) \/ Transmit(t) \/ Retransmit(t)
                              \/ Expire(t) \/ Return(t) \/ done_handle(t)
         \/ delete_handle
         \/ \E c \in DOMAIN conn : ClientGotPdu(c)
         \/ UNCHANGED clientVars
<1>1. CASE UNCHANGED vars
  BY <1>1, Zenon DEF vars
<1>2. CASE Next
  BY <1>2, ServerAlone, Zenon DEF Next
<1> QED
  BY <1>1, <1>2, Zenon

\* No client, no call.
LEMMA AckInit == Init => AckInv
<1> SUFFICES ASSUME Init PROVE AckInv
  BY Zenon
<1>1. DOMAIN rpcc = {} /\ \A t \in Thread : th[t].at = "idle"
  BY DEF Init, Idle
<1> QED
  BY <1>1, Zenon DEF AckInv, WindowsFit, Distinct, InCall1

\* Every step keeps the windows right.
LEMMA AckNext == RpcInv /\ AckInv /\ [Next]_vars => AckInv'
<1> SUFFICES ASSUME RpcInv, AckInv, [Next]_vars PROVE AckInv'
  BY Zenon
<1> QED
  BY NextSteps, ClientsKept, AckStepGetHandle, AckStepCall, AckStepWithin, AckStepReturn,
     AckStepHandle, AckStepGotPdu, ZenonT(30)

\* No handle and no user.
LEMMA HandleInit == Init => HandleInv
<1> SUFFICES ASSUME Init PROVE HandleInv
  BY Zenon
<1>1. \A t \in Thread : th[t].at = "idle"
  BY Zenon DEF Init, Idle
<1>2. ~hmap.in /\ hlock = NoThread
  BY Zenon DEF Init, NoHandle
<1> QED
  BY <1>1, <1>2, Zenon DEF HandleInv, HandleFits

\* Every step keeps the counts of the users right.
LEMMA HandleNext == RpcInv /\ RpcInv' /\ HandleInv /\ [Next]_vars => HandleInv'
<1> SUFFICES ASSUME RpcInv, RpcInv', HandleInv, [Next]_vars PROVE HandleInv'
  BY Zenon
<1> QED
  BY NextSteps, ClientsKept, HandleStepGet, HandleStepCall, HandleStepReturn, HandleStepDone,
     HandleStepDelete, HandleStepGotPdu, ZenonT(30)

\* No connection.
LEMMA CountInit == Init => CountInv
<1> SUFFICES ASSUME Init PROVE CountInv
  BY Zenon
<1>1. DOMAIN conn = {}
  BY DEF Init
<1> QED
  BY <1>1, Zenon DEF CountInv, CountsFit

\* Every step keeps the counts of the holders right.
LEMMA CountNext == RpcInv /\ CountInv /\ [Next]_vars => CountInv'
<1> SUFFICES ASSUME RpcInv, CountInv, [Next]_vars PROVE CountInv'
  BY Zenon
<1>1. CASE UNCHANGED vars
  BY <1>1, Zenon DEF vars, serverVars, CountInv
<1>2. CASE Next
  BY <1>2, CountTransmit, CountThread, CountConnection, CountReadCb, CountTakeJob, CountDispatch,
     CountCheckDuplicate, CountRun, CountSendReply, CountCrash, ZenonT(30) DEF Next
<1> QED
  BY <1>1, <1>2, ZenonT(30)
=============================================================================
