--------------------------- MODULE RpcStepProofs ---------------------------
(***************************************************************************)
(* RpcInv is inductive: it holds at the start, and the steps of the        *)
(* threads, of the clients, of the server and of the connections keep it.  *)
(***************************************************************************)
EXTENDS RpcInvariants, TLAPS

(***************************************************************************)
(* Time goes by: more clients, a client that was not bound is, calls have  *)
(* run.  What was said of headers and replies stays true.                  *)
(***************************************************************************)
Later(rs, n, rn, rs2, n2, rn2) ==
  /\ n \in Nat /\ n2 \in Nat /\ n <= n2
  /\ DOMAIN rs \subseteq DOMAIN rs2
  /\ \A k \in DOMAIN rs : /\ rs[k].srv # 0 => rs2[k].srv = rs[k].srv
                          /\ rs[k].xid \in Nat /\ rs2[k].xid \in Nat
                          /\ rs[k].xid <= rs2[k].xid
  /\ \A c : rn[c] = 1 => rn2[c] = 1

\* No connection changes its client.
SameConns(cs, cs2) ==
  DOMAIN cs \subseteq DOMAIN cs2 /\ \A c \in DOMAIN cs : cs2[c].clt = cs[c].clt

\* A header stays valid: srv of a bound client never changes.
LEMMA HeaderStays ==
  ASSUME NEW rs, NEW n, NEW rn, NEW rs2, NEW n2, NEW rn2, Later(rs, n, rn, rs2, n2, rn2),
         NEW k \in DOMAIN rs, NEW h, HeaderOK(rs, k, h)
  PROVE  HeaderOK(rs2, k, h)
BY DEF Later, HeaderOK, Xid

\* A reply stays true: what ran has run.
LEMMA ReplyStays ==
  ASSUME NEW rs, NEW n, NEW rn, NEW rs2, NEW n2, NEW rn2, Later(rs, n, rn, rs2, n2, rn2),
         NEW k \in DOMAIN rs, NEW r, ReplyOK(rs, n, rn, k, r)
  PROVE  ReplyOK(rs2, n2, rn2, k, r)
BY DEF Later, ReplyOK

\* Nothing happens to the clients.
LEMMA LaterSame ==
  ASSUME RpcInv, NEW n \in Nat, nonce <= n, NEW rn, \A c : ran[c] = 1 => rn[c] = 1
  PROVE  Later(rpcc, nonce, ran, rpcc, n, rn)
<1>1. ASSUME NEW k \in DOMAIN rpcc PROVE rpcc[k].xid \in Nat
  BY Zenon DEF RpcInv, ClientsOK, ClientOK
<1> QED
  BY <1>1 DEF Later, RpcInv

\* A connection stays valid.
LEMMA ConnStays ==
  ASSUME NEW rs, NEW n, NEW rn, NEW rs2, NEW n2, NEW rn2, Later(rs, n, rn, rs2, n2, rn2),
         NEW x, ConnOK(rs, n, rn, x)
  PROVE  ConnOK(rs2, n2, rn2, x)
<1>1. x.clt \in DOMAIN rs /\ DOMAIN rs \subseteq DOMAIN rs2
  BY Zenon DEF ConnOK, Later
<1>2. x \in [clt : DOMAIN rs2, inst : {x.inst}, cdead : BOOLEAN, sdead : BOOLEAN,
             up : {x.up}, down : {x.down}, rpdu : {x.rpdu}, ref : {x.ref}]
  BY <1>1, Zenon DEF ConnOK
<1>3. \A i \in DOMAIN x.up : HeaderOK(rs2, x.clt, x.up[i])
  BY <1>1, HeaderStays, Zenon DEF ConnOK
<1>4. \A i \in DOMAIN x.down : ReplyOK(rs2, n2, rn2, x.clt, x.down[i])
  BY <1>1, ReplyStays DEF ConnOK
<1>5. x.rpdu = NoPdu \/ HeaderOK(rs2, x.clt, x.rpdu)
  BY <1>1, HeaderStays, Zenon DEF ConnOK
<1> QED
  BY <1>2, <1>3, <1>4, <1>5, Zenon DEF ConnOK

\* So do all of them.
LEMMA ConnsStay ==
  ASSUME NEW rs, NEW n, NEW rn, NEW rs2, NEW n2, NEW rn2, Later(rs, n, rn, rs2, n2, rn2),
         NEW cs, ConnsOK(rs, n, rn, cs)
  PROVE  ConnsOK(rs2, n2, rn2, cs)
BY ConnStays, Zenon DEF ConnsOK

\* A job stays valid while its connection keeps its client.
LEMMA JobStays ==
  ASSUME NEW rs, NEW n, NEW rn, NEW rs2, NEW n2, NEW rn2, Later(rs, n, rn, rs2, n2, rn2),
         NEW cs, NEW cs2, ConnsOK(rs, n, rn, cs), SameConns(cs, cs2),
         NEW j, JobOK(rs, cs, j)
  PROVE  JobOK(rs2, cs2, j)
<1>1. j.c \in DOMAIN cs2 /\ cs2[j.c].clt = cs[j.c].clt
  BY Zenon DEF JobOK, SameConns
<1>2. cs[j.c].clt \in DOMAIN rs
  BY Zenon DEF JobOK, ConnsOK, ConnOK
<1> QED
  BY <1>1, <1>2, HeaderStays, Zenon DEF JobOK

\* So do all of them.
LEMMA JobsStay ==
  ASSUME NEW rs, NEW n, NEW rn, NEW rs2, NEW n2, NEW rn2, Later(rs, n, rn, rs2, n2, rn2),
         NEW cs, NEW cs2, ConnsOK(rs, n, rn, cs), SameConns(cs, cs2),
         NEW js, JobsOK(rs, cs, js)
  PROVE  JobsOK(rs2, cs2, js)
BY JobStays, Zenon DEF JobsOK

\* What is said of a thread stays true.
LEMMA ThreadStays ==
  ASSUME NEW rs, NEW n, NEW rn, NEW rs2, NEW n2, NEW rn2, Later(rs, n, rn, rs2, n2, rn2),
         NEW s, ThreadOK(rs, n, rn, s)
  PROVE  ThreadOK(rs2, n2, rn2, s)
<1>0. DOMAIN rs \subseteq DOMAIN rs2
  BY Zenon DEF Later
<1>1. CASE s = Idle
  BY <1>1, Zenon DEF ThreadOK
<1>2. CASE s \in [at : {"have", "done"}, k : DOMAIN rs] /\ rs[s.k].srv # 0
  BY <1>0, <1>2, Zenon DEF ThreadOK, Later
<1>3. CASE InCallOK(rs, n, rn, s)
  <2>1. s.h.clt \in DOMAIN rs2 /\ HeaderOK(rs2, s.h.clt, s.h)
    BY <1>0, <1>3, HeaderStays, Zenon DEF InCallOK
  <2>2. s.ret # "none" =>
          ReplyOK(rs2, n2, rn2, s.h.clt, [xid |-> s.h.xid, ret |-> s.ret, val |-> s.val])
    BY <1>3, ReplyStays DEF InCallOK
  <2> QED
    BY <1>3, <2>1, <2>2, Zenon DEF ThreadOK, InCallOK
<1> QED
  BY <1>1, <1>2, <1>3, Zenon DEF ThreadOK

\* And of all of them, while the clients do not change.
LEMMA ThreadsStay ==
  ASSUME NEW rs, NEW n, NEW rn, NEW rs2, NEW n2, NEW rn2, Later(rs, n, rn, rs2, n2, rn2),
         NEW hl, NEW ts, ThreadsOK(rs, n, rn, hl, ts), rs2 = rs
  PROVE  ThreadsOK(rs2, n2, rn2, hl, ts)
BY ThreadStays, Zenon DEF ThreadsOK

\* What is said of the pool threads stays true.
LEMMA WorkersStay ==
  ASSUME NEW rs, NEW n, NEW rn, NEW rs2, Later(rs, n, rn, rs2, n, rn),
         NEW cs, NEW cs2, ConnsOK(rs, n, rn, cs), SameConns(cs, cs2),
         NEW win, NEW ws, WorkersOK(rs, cs, n, rn, win, ws)
  PROVE  WorkersOK(rs2, cs2, n, rn, win, ws)
<1>1. ASSUME NEW w \in Worker PROVE WorkerOK(rs2, cs2, n, rn, win, ws[w])
  <2>1. WorkerOK(rs, cs, n, rn, win, ws[w])
    BY Zenon DEF WorkersOK
  <2>2. JobOK(rs, cs, ws[w]) => JobOK(rs2, cs2, ws[w])
    BY JobStays, Zenon
  <2> QED
    BY <2>1, <2>2, Zenon DEF WorkerOK, BusyOK
<1> QED
  BY <1>1, Zenon DEF WorkersOK

\* A call that ran stays remembered when a client is bound or added.
LEMMA RanStays ==
  ASSUME NEW rs, NEW n, NEW rn, NEW rs2, Later(rs, n, rn, rs2, n, rn),
         NEW win, RanOK(rs, n, rn, win)
  PROVE  RanOK(rs2, n, rn, win)
BY Zenon DEF RanOK, Later

\* conns_ stays valid while no connection changes its client.
LEMMA SavedStay ==
  ASSUME NEW cs, NEW cs2, SameConns(cs, cs2), NEW ks, SavedOK(cs, ks)
  PROVE  SavedOK(cs2, ks)
BY Zenon DEF SavedOK, SameConns

(***************************************************************************)
(* A connection is replaced by another one of the same client.             *)
(***************************************************************************)
LEMMA OneConn ==
  ASSUME NEW rs, NEW n, NEW rn, NEW cs, ConnsOK(rs, n, rn, cs), NEW c \in DOMAIN cs,
         NEW x, ConnOK(rs, n, rn, x), x.clt = cs[c].clt
  PROVE  /\ ConnsOK(rs, n, rn, [cs EXCEPT ![c] = x])
         /\ SameConns(cs, [cs EXCEPT ![c] = x])
<1> DEFINE ds == [cs EXCEPT ![c] = x]
<1>1. PICK S : cs \in Seq(S)
  BY Zenon DEF ConnsOK, IsSeq
<1>2. cs \in Seq(S \union {x}) /\ c \in 1..Len(cs)
  BY <1>1
<1>3. ds \in Seq(S \union {x})
  BY <1>2
<1>4. DOMAIN ds = DOMAIN cs /\ \A d \in DOMAIN cs : ds[d] = IF d = c THEN x ELSE cs[d]
  BY Zenon
<1>5. \A d \in DOMAIN ds : ConnOK(rs, n, rn, ds[d])
  BY <1>4, Zenon DEF ConnsOK
<1> QED
  BY <1>3, <1>4, <1>5, Zenon DEF ConnsOK, SameConns, IsSeq

\* Reference counts are not part of the invariant.
LEMMA RefChanges ==
  ASSUME NEW rs, NEW n, NEW rn, NEW cs, ConnsOK(rs, n, rn, cs), NEW c \in DOMAIN cs, NEW v
  PROVE  /\ ConnsOK(rs, n, rn, [cs EXCEPT ![c].ref = v])
         /\ SameConns(cs, [cs EXCEPT ![c].ref = v])
<1> DEFINE x == [cs[c] EXCEPT !.ref = v]
<1>1. ConnOK(rs, n, rn, cs[c])
  BY Zenon DEF ConnsOK
<1>2. /\ x \in [clt : DOMAIN rs, inst : {x.inst}, cdead : BOOLEAN, sdead : BOOLEAN,
                up : {x.up}, down : {x.down}, rpdu : {x.rpdu}, ref : {x.ref}]
      /\ x.clt = cs[c].clt /\ x.up = cs[c].up /\ x.down = cs[c].down
      /\ x.rpdu = cs[c].rpdu
  BY <1>1, Zenon DEF ConnOK
<1>3. ConnOK(rs, n, rn, x)
  BY <1>1, <1>2, Zenon DEF ConnOK
<1>4. [cs EXCEPT ![c].ref = v] = [cs EXCEPT ![c] = x]
  BY Zenon
<1>5. x.clt = cs[c].clt
  BY <1>2, Zenon
<1> HIDE DEF x
<1>6. ConnsOK(rs, n, rn, [cs EXCEPT ![c] = x]) /\ SameConns(cs, [cs EXCEPT ![c] = x])
  BY <1>3, <1>5, OneConn, Zenon
<1> QED
  BY <1>4, <1>6, Zenon

\* Nor are incref and decref.
LEMMA Counted ==
  ASSUME NEW rs, NEW n, NEW rn, NEW cs, ConnsOK(rs, n, rn, cs), NEW c \in DOMAIN cs
  PROVE  /\ ConnsOK(rs, n, rn, incref(cs, c)) /\ SameConns(cs, incref(cs, c))
         /\ ConnsOK(rs, n, rn, decref(cs, c)) /\ SameConns(cs, decref(cs, c))
BY RefChanges, Zenon DEF incref, decref

\* Two changes of the connections one after the other.
LEMMA SameTwice ==
  ASSUME NEW cs, NEW ds, NEW es, SameConns(cs, ds), SameConns(ds, es)
  PROVE  SameConns(cs, es)
BY Zenon DEF SameConns

\* A true reply goes out on a connection of its client.
LEMMA SentReply ==
  ASSUME NEW rs, NEW n, NEW rn, NEW cs, ConnsOK(rs, n, rn, cs), NEW c \in DOMAIN cs,
         NEW r, ReplyOK(rs, n, rn, cs[c].clt, r)
  PROVE  ConnsOK(rs, n, rn, Sent(cs, c, r)) /\ SameConns(cs, Sent(cs, c, r))
<1> DEFINE down == IF cs[c].sdead THEN cs[c].down ELSE Append(cs[c].down, r)
           x == [cs[c] EXCEPT !.ref = @ - 1, !.down = down]
<1>1. ConnOK(rs, n, rn, cs[c])
  BY Zenon DEF ConnsOK
<1>2. PICK S : cs[c].down \in Seq(S)
  BY <1>1, Zenon DEF ConnOK, IsSeq
<1>3. IsSeq(down) /\ \A i \in DOMAIN down : ReplyOK(rs, n, rn, cs[c].clt, down[i])
  <2>1. CASE cs[c].sdead
    BY <1>1, <2>1, Zenon DEF ConnOK
  <2>2. CASE ~cs[c].sdead
    <3>1. cs[c].down \in Seq(S \union {r})
      BY <1>2
    <3>2. Append(cs[c].down, r) \in Seq(S \union {r})
      BY <3>1
    <3>3. \A i \in DOMAIN Append(cs[c].down, r) :
            \/ Append(cs[c].down, r)[i] = r
            \/ i \in DOMAIN cs[c].down /\ Append(cs[c].down, r)[i] = cs[c].down[i]
      BY <3>1
    <3> QED
      BY <1>1, <2>2, <3>2, <3>3, Zenon DEF ConnOK, IsSeq
  <2> QED
    BY <2>1, <2>2, Zenon
<1> HIDE DEF down
<1>4. /\ x \in [clt : DOMAIN rs, inst : {x.inst}, cdead : BOOLEAN, sdead : BOOLEAN,
                up : {x.up}, down : {x.down}, rpdu : {x.rpdu}, ref : {x.ref}]
      /\ x.clt = cs[c].clt /\ x.up = cs[c].up /\ x.down = down
      /\ x.rpdu = cs[c].rpdu
  BY <1>1, Zenon DEF ConnOK
<1>5. ConnOK(rs, n, rn, x)
  BY <1>1, <1>3, <1>4, Zenon DEF ConnOK
<1>6. Sent(cs, c, r) = [cs EXCEPT ![c] = x]
  BY <1>1, Zenon DEF Sent, decref, down, ConnOK
<1>7. x.clt = cs[c].clt
  BY <1>4, Zenon
<1> HIDE DEF x
<1>8. ConnsOK(rs, n, rn, [cs EXCEPT ![c] = x]) /\ SameConns(cs, [cs EXCEPT ![c] = x])
  BY <1>5, <1>7, OneConn, Zenon
<1> QED
  BY <1>6, <1>8, Zenon

----------------------------------------------------------------------------
(***************************************************************************)
(* A step of the clients, and a step of the server.                        *)
(***************************************************************************)
LEMMA ClientStep ==
  ASSUME RpcInv, UNCHANGED <<serverVars, nonce, ran>>,
         Later(rpcc, nonce, ran, rpcc', nonce, ran), SameConns(conn, conn'),
         ClientsOK(rpcc', nonce), ThreadsOK(rpcc', nonce, ran, hlock', th'),
         ChanOK(rpcc', conn'), HandleOK(rpcc', hmap'),
         ConnsOK(rpcc', nonce, ran, conn')
  PROVE  RpcInv'
<1>1. JobsOK(rpcc', conn', jobs)
  BY JobsStay, Zenon DEF RpcInv
<1>2. WorkersOK(rpcc', conn', nonce, ran, window, wk)
  BY WorkersStay, Zenon DEF RpcInv
<1>3. RanOK(rpcc', nonce, ran, window)
  BY RanStays, Zenon DEF RpcInv
<1>4. SavedOK(conn', conns)
  BY SavedStay, Zenon DEF RpcInv
<1> QED
  BY <1>1, <1>2, <1>3, <1>4, Zenon DEF RpcInv, serverVars

\* What a step of the server has to keep.
LEMMA ServerStep ==
  ASSUME RpcInv, UNCHANGED <<clientVars, nonce>>,
         \A c : ran[c] = 1 => ran'[c] = 1,
         ConnsOK(rpcc, nonce, ran', conn'),
         JobsOK(rpcc, conn', jobs'),
         WindowOK(ran', window'),
         WorkersOK(rpcc, conn', nonce, ran', window', wk'),
         RanOK(rpcc, nonce, ran', window'),
         SavedOK(conn', conns'),
         SameConns(conn, conn')
  PROVE  RpcInv'
<1>1. Later(rpcc, nonce, ran, rpcc, nonce, ran')
  <2>1. nonce \in Nat /\ nonce <= nonce
    BY DEF RpcInv
  <2> QED
    BY <2>1, LaterSame, Zenon
<1>2. ThreadsOK(rpcc, nonce, ran', hlock, th)
  BY <1>1, ThreadsStay, Zenon DEF RpcInv
<1>3. ChanOK(rpcc, conn')
  BY Zenon DEF RpcInv, ChanOK, SameConns
<1> QED
  BY <1>2, <1>3, Zenon DEF RpcInv, clientVars

----------------------------------------------------------------------------
(***************************************************************************)
(* Pieces of the steps of the clients.                                     *)
(***************************************************************************)
LEMMA EachConn ==
  ASSUME NEW rs, NEW n, NEW rn, NEW cs, ConnsOK(rs, n, rn, cs),
         NEW ds, ds = [c \in DOMAIN cs |-> ds[c]],
         \A c \in DOMAIN cs : ConnOK(rs, n, rn, ds[c]) /\ ds[c].clt = cs[c].clt
  PROVE  ConnsOK(rs, n, rn, ds) /\ SameConns(cs, ds) /\ Len(ds) = Len(cs)
<1>1. PICK S : cs \in Seq(S)
  BY Zenon DEF ConnsOK, IsSeq
<1>2. DOMAIN cs = 1..Len(cs) /\ Len(cs) \in Nat
  BY <1>1
<1> DEFINE T == {ds[c] : c \in DOMAIN cs}
<1>3. ds \in [1..Len(cs) -> T]
  BY <1>2, Zenon
<1>4. ds \in Seq(T) /\ Len(ds) = Len(cs)
  BY <1>2, <1>3
<1> HIDE DEF T
<1>5. DOMAIN ds = DOMAIN cs
  BY <1>2, <1>3, Zenon
<1> QED
  BY <1>4, <1>5, Zenon DEF ConnsOK, SameConns, IsSeq

\* y differs from x in nothing that is said of a connection.
Alike(rs, x, y) ==
  /\ y \in [clt : DOMAIN rs, inst : {y.inst}, cdead : BOOLEAN, sdead : BOOLEAN,
            up : {y.up}, down : {y.down}, rpdu : {y.rpdu}, ref : {y.ref}]
  /\ y.clt = x.clt /\ y.up = x.up /\ y.down = x.down /\ y.rpdu = x.rpdu

\* Such a change keeps a connection valid.
LEMMA FlagsChange ==
  ASSUME NEW rs, NEW n, NEW rn, NEW x, ConnOK(rs, n, rn, x), NEW y, Alike(rs, x, y)
  PROVE  ConnOK(rs, n, rn, y) /\ y.clt = x.clt
BY Zenon DEF ConnOK, Alike

\* One thread goes on, and handle_mutex stays with its holder, is taken or released by it.
LEMMA OneThread ==
  ASSUME NEW rs, NEW n, NEW rn, NEW rs2, Later(rs, n, rn, rs2, n, rn),
         NEW hl, NEW hl2, NEW ts, ThreadsOK(rs, n, rn, hl, ts),
         NEW t \in Thread, NEW s, ThreadOK(rs2, n, rn, s),
         hl2 = t => Binding(rs2, s), InBind(s) => hl2 = t,
         \/ hl \notin Thread \ {t} /\ hl2 \notin Thread \ {t}
         \/ hl2 = hl /\ Len(rs2) = Len(rs) /\ \A k \in DOMAIN rs : rs2[k].srv = rs[k].srv
  PROVE  ThreadsOK(rs2, n, rn, hl2, [ts EXCEPT ![t] = s])
<1> DEFINE us == [ts EXCEPT ![t] = s]
<1>1. DOMAIN us = Thread /\ us[t] = s /\ \A u \in Thread \ {t} : us[u] = ts[u]
  BY Zenon DEF ThreadsOK
<1> HIDE DEF us
<1>2. ASSUME NEW u \in Thread PROVE ThreadOK(rs2, n, rn, us[u])
  BY <1>1, ThreadStays, Zenon DEF ThreadsOK
<1>3. ASSUME NEW u \in Thread, hl2 = u, u # t PROVE Binding(rs2, us[u])
  <2>1. hl = u /\ Len(rs2) = Len(rs) /\ \A k \in DOMAIN rs : rs2[k].srv = rs[k].srv
    BY <1>3, Zenon
  <2>2. Binding(rs, ts[u]) /\ ThreadOK(rs, n, rn, ts[u])
    BY <2>1, Zenon DEF ThreadsOK
  <2>3. ts[u].h.clt \in DOMAIN rs
    BY <2>2 DEF Binding, InBind, ThreadOK, InCallOK, Idle
  <2> QED
    BY <1>1, <1>3, <2>1, <2>2, <2>3 DEF Binding
<1>4. ASSUME NEW u \in Thread, InBind(us[u]), u # t PROVE hl2 = u
  BY <1>1, <1>4, Zenon DEF ThreadsOK
<1> QED
  BY <1>1, <1>2, <1>3, <1>4, Zenon DEF ThreadsOK, us

\* The clients rs2 come after rs; none is new.
Replaced(rs, n, rn, rs2) ==
  /\ ClientsOK(rs2, n) /\ Later(rs, n, rn, rs2, n, rn)
  /\ Len(rs2) = Len(rs) /\ DOMAIN rs2 = DOMAIN rs

\* A client is replaced by one that is bound to the same incarnation, if it was bound.
LEMMA OneClient ==
  ASSUME NEW rs, NEW n \in Nat, NEW rn, ClientsOK(rs, n), NEW k \in DOMAIN rs, NEW x,
         ClientOK(n, x), rs[k].srv # 0 => x.srv = rs[k].srv, rs[k].xid <= x.xid
  PROVE  Replaced(rs, n, rn, [rs EXCEPT ![k] = x])
<1>1. PICK S : rs \in Seq(S)
  BY Zenon DEF ClientsOK, IsSeq
<1>2. rs \in Seq(S \union {x}) /\ k \in 1..Len(rs)
  BY <1>1
<1>3. [rs EXCEPT ![k] = x] \in Seq(S \union {x}) /\ Len([rs EXCEPT ![k] = x]) = Len(rs)
  BY <1>2
<1>4. x.xid \in Nat /\ \A j \in DOMAIN rs : rs[j].xid \in Nat
  BY Zenon DEF ClientsOK, ClientOK
<1>5. PICK rs2 : rs2 = [rs EXCEPT ![k] = x]
  BY Zenon
<1>6. /\ DOMAIN rs2 = DOMAIN rs /\ rs2[k] = x /\ \A j \in DOMAIN rs \ {k} : rs2[j] = rs[j]
      /\ Len(rs2) = Len(rs) /\ IsSeq(rs2)
  BY <1>3, <1>5, Zenon DEF IsSeq
<1>7. Later(rs, n, rn, rs2, n, rn)
  BY <1>4, <1>6 DEF Later
<1>8. ClientsOK(rs2, n)
  BY <1>6, Zenon DEF ClientsOK
<1> QED
  BY <1>5, <1>6, <1>7, <1>8, Zenon DEF Replaced

\* The clients rs2 differ from rs in nothing that matters to headers.
Kept(rs, n, rn, rs2) ==
  /\ Replaced(rs, n, rn, rs2)
  /\ \A j \in DOMAIN rs : rs2[j].srv = rs[j].srv

\* A client changes in xid, window or chan only.
LEMMA ClientKept ==
  ASSUME NEW rs, NEW n \in Nat, NEW rn, ClientsOK(rs, n), NEW k \in DOMAIN rs, NEW x,
         ClientOK(n, x), x.srv = rs[k].srv, rs[k].xid <= x.xid,
         NEW rs2, rs2 = [rs EXCEPT ![k] = x]
  PROVE  Kept(rs, n, rn, rs2)
<1>1. rs[k].srv # 0 => x.srv = rs[k].srv
  BY Zenon
<1>2. Replaced(rs, n, rn, [rs EXCEPT ![k] = x])
  BY <1>1, OneClient, Zenon
<1> QED
  BY <1>2, Zenon DEF Kept

----------------------------------------------------------------------------
(***************************************************************************)
(* The steps of the threads.                                               *)
(***************************************************************************)
LEMMA StepCall ==
  ASSUME RpcInv, NEW t \in Thread, Call(t)
  PROVE  RpcInv'
<1> DEFINE k == th[t].k
           h == [clt |-> k, xid |-> rpcc[k].xid, srv |-> rpcc[k].srv,
                 xid_rep |-> Head(rpcc[k].window)]
           s == [at |-> "send", ch |-> 0, ret |-> "none", val |-> 0, h |-> h]
<1>1. /\ th[t].at = "have" /\ rpcc[k].xid \in Xid
      /\ rpcc' = [rpcc EXCEPT ![k].xid = rpcc[k].xid + 1]
      /\ th' = [th EXCEPT ![t] = s]
      /\ UNCHANGED <<hmap, hlock, serverVars, conn, nonce, ran>>
  BY Zenon DEF Call, call1
<1>2. ThreadOK(rpcc, nonce, ran, th[t]) /\ (hlock = t => Binding(rpcc, th[t]))
  BY Zenon DEF RpcInv, ThreadsOK
<1>3. k \in DOMAIN rpcc /\ rpcc[k].srv # 0
  BY <1>1, <1>2 DEF ThreadOK, InCallOK, Idle
<1>4. ClientOK(nonce, rpcc[k]) /\ nonce \in Nat
  BY <1>3, Zenon DEF RpcInv, ClientsOK
<1>5. rpcc[k].xid \in Nat \ {0, 1} /\ rpcc[k].xid + 1 \in Nat \ {0, 1}
  BY <1>4 DEF ClientOK
<1> HIDE DEF k
<1>6. /\ Kept(rpcc, nonce, ran, rpcc') /\ rpcc[k].xid < rpcc'[k].xid
      /\ \A j \in DOMAIN rpcc : rpcc'[j].chan = rpcc[j].chan
  <2>1. PICK x : x = [rpcc[k] EXCEPT !.xid = rpcc[k].xid + 1]
    BY Zenon
  <2>2. /\ ClientOK(nonce, x) /\ x.srv = rpcc[k].srv /\ x.chan = rpcc[k].chan
        /\ rpcc[k].xid <= x.xid /\ rpcc[k].xid < x.xid
    BY <1>4, <1>5, <2>1 DEF ClientOK
  <2>3. rpcc' = [rpcc EXCEPT ![k] = x]
    BY <1>1, <2>1, Zenon
  <2>4. ClientsOK(rpcc, nonce)
    BY Zenon DEF RpcInv
  <2>5. Kept(rpcc, nonce, ran, rpcc')
    BY <1>3, <1>4, <2>2, <2>3, <2>4, ClientKept, Zenon
  <2> QED
    BY <1>3, <2>2, <2>3, <2>5, Zenon
<1>7. HeaderOK(rpcc', k, h) /\ k \in DOMAIN rpcc'
  BY <1>1, <1>3, <1>5, <1>6, Zenon DEF HeaderOK, Kept, Replaced
<1>8. ThreadOK(rpcc', nonce, ran, s)
  <2>1. s.h.clt = k /\ s.h = h /\ s.ret = "none"
    BY Zenon
  <2>2. s \in [at : {"send", "wait", "over"}, ch : {s.ch}, ret : {s.ret}, val : {s.val}, h : {s.h}]
    BY Zenon
  <2> HIDE DEF s, h
  <2> QED
    BY <1>7, <2>1, <2>2, Zenon DEF ThreadOK, InCallOK
<1>9. hlock # t /\ ~InBind(s)
  BY <1>1, <1>2, <1>5, Zenon DEF Binding, InBind
<1> HIDE DEF s
<1>10. ThreadsOK(rpcc', nonce, ran, hlock', th')
  BY <1>1, <1>6, <1>8, <1>9, OneThread, Zenon DEF RpcInv, Kept, Replaced
<1>11. ConnsOK(rpcc', nonce, ran, conn') /\ SameConns(conn, conn')
  BY <1>1, <1>6, ConnsStay DEF RpcInv, Kept, Replaced, SameConns
<1>12. ChanOK(rpcc', conn') /\ HandleOK(rpcc', hmap')
  BY <1>1, <1>6 DEF RpcInv, ChanOK, HandleOK, Kept, Replaced
<1> QED
  BY <1>1, <1>6, <1>10, <1>11, <1>12, ClientStep, Zenon DEF Kept, Replaced

\* A step that is not about clients, the nonce or the history.
LEMMA NothingLater ==
  ASSUME RpcInv
  PROVE  Later(rpcc, nonce, ran, rpcc, nonce, ran)
<1>1. nonce \in Nat /\ nonce <= nonce
  BY DEF RpcInv
<1> QED
  BY <1>1, LaterSame, Zenon

\* The clients stay as they are, and one thread goes on.
LEMMA ThreadStep ==
  ASSUME RpcInv, UNCHANGED <<rpcc, hlock, serverVars, nonce, ran>>,
         NEW t \in Thread, NEW s, th' = [th EXCEPT ![t] = s],
         ThreadOK(rpcc, nonce, ran, s), hlock = t <=> InBind(s),
         hlock = t => Binding(rpcc, s),
         HandleOK(rpcc, hmap'), ConnsOK(rpcc, nonce, ran, conn'), SameConns(conn, conn')
  PROVE  RpcInv'
<1>1. Later(rpcc, nonce, ran, rpcc, nonce, ran)
  BY NothingLater, Zenon
<1>2. ThreadsOK(rpcc, nonce, ran, hlock, [th EXCEPT ![t] = s])
  BY <1>1, OneThread, Zenon DEF RpcInv
<1>3. ChanOK(rpcc, conn')
  BY Zenon DEF RpcInv, ChanOK, SameConns
<1>4. ClientsOK(rpcc, nonce)
  BY Zenon DEF RpcInv
<1> QED
  BY <1>1, <1>2, <1>3, <1>4, ClientStep, Zenon

\* What a step of one thread starts from.
LEMMA SameStay ==
  ASSUME RpcInv
  PROVE  /\ HandleOK(rpcc, hmap) /\ ConnsOK(rpcc, nonce, ran, conn) /\ SameConns(conn, conn)
         /\ \A t \in Thread : /\ ThreadOK(rpcc, nonce, ran, th[t])
                              /\ hlock = t => Binding(rpcc, th[t])
                              /\ hlock = t <=> InBind(th[t])
BY Zenon DEF RpcInv, SameConns, ThreadsOK, Binding

\* A thread that is in call1.
LEMMA CallThread ==
  ASSUME NEW rs, NEW n, NEW rn, NEW s, ThreadOK(rs, n, rn, s),
         s.at \in {"send", "wait", "over"}
  PROVE  InCallOK(rs, n, rn, s)
BY DEF ThreadOK, Idle

\* A thread moves on within its call.
LEMMA Moved ==
  ASSUME NEW rs, NEW n, NEW rn, NEW s, ThreadOK(rs, n, rn, s),
         s.at \in {"send", "wait", "over"}, NEW u,
         u \in [at : {"send", "wait", "over"}, ch : {u.ch}, ret : {u.ret}, val : {u.val}, h : {u.h}],
         u.h = s.h, u.ret = s.ret, u.val = s.val
  PROVE  /\ ThreadOK(rs, n, rn, u) /\ (InBind(u) <=> InBind(s))
         /\ Binding(rs, s) => Binding(rs, u)
<1>1. InCallOK(rs, n, rn, s)
  BY CallThread, Zenon
<1> QED
  BY <1>1, Zenon DEF InCallOK, ThreadOK, InBind, Binding

\* The interval or the deadline of a call is over.
LEMMA StepWait ==
  ASSUME RpcInv, NEW t \in Thread, Retransmit(t) \/ Expire(t)
  PROVE  RpcInv'
<1>1. PICK a \in {"send", "over"} :
        /\ th[t].at = "wait" /\ th' = [th EXCEPT ![t].at = a]
        /\ UNCHANGED <<rpcc, hmap, hlock, serverVars, conn, nonce, ran>>
  BY Zenon DEF Retransmit, Expire, Fault
<1>2. PICK u : u = [th[t] EXCEPT !.at = a]
  BY Zenon
<1>3. th' = [th EXCEPT ![t] = u]
  BY <1>1, <1>2, Zenon
<1>4. ThreadOK(rpcc, nonce, ran, th[t]) /\ th[t].at \in {"send", "wait", "over"}
  BY <1>1, SameStay, Zenon
<1>5. /\ u \in [at : {"send", "wait", "over"}, ch : {u.ch}, ret : {u.ret}, val : {u.val}, h : {u.h}]
      /\ u.h = th[t].h /\ u.ret = th[t].ret /\ u.val = th[t].val
  <2>1. InCallOK(rpcc, nonce, ran, th[t])
    BY <1>4, CallThread, Zenon
  <2> QED
    BY <1>2, <2>1, Zenon DEF InCallOK
<1>6. /\ ThreadOK(rpcc, nonce, ran, u) /\ (InBind(u) <=> InBind(th[t]))
      /\ Binding(rpcc, th[t]) => Binding(rpcc, u)
  BY <1>4, <1>5, Moved, Zenon
<1> QED
  BY <1>1, <1>3, <1>6, SameStay, ThreadStep, Zenon

\* The connection of an rpcc that is deleted is closed.
LEMMA Closes ==
  ASSUME RpcInv, NEW ch
  PROVE  ConnsOK(rpcc, nonce, ran, closeconn(ch)) /\ SameConns(conn, closeconn(ch))
<1>1. PICK ds : ds = closeconn(ch)
  BY Zenon
<1>2. ds = [c \in DOMAIN conn |-> ds[c]]
  BY <1>1, Zenon DEF closeconn
<1>3. ConnsOK(rpcc, nonce, ran, conn)
  BY Zenon DEF RpcInv
<1>4. ASSUME NEW c \in DOMAIN conn
      PROVE  ConnOK(rpcc, nonce, ran, ds[c]) /\ ds[c].clt = conn[c].clt
  <2>1. ConnOK(rpcc, nonce, ran, conn[c])
    BY <1>3, Zenon DEF ConnsOK
  <2>2. ds[c] = conn[c] \/ ds[c] = [conn[c] EXCEPT !.cdead = TRUE]
    BY <1>1, Zenon DEF closeconn
  <2>3. Alike(rpcc, conn[c], ds[c])
    BY <2>1, <2>2, Zenon DEF Alike, ConnOK
  <2> QED
    BY <2>1, <2>3, FlagsChange
<1>5. ConnsOK(rpcc, nonce, ran, ds) /\ SameConns(conn, ds)
  BY <1>2, <1>3, <1>4, EachConn
<1> QED
  BY <1>1, <1>5, Zenon

\* delete_handle_wo keeps the handle and the connections valid.
LEMMA Deletes ==
  ASSUME RpcInv, NEW n, delete_handle_wo(n)
  PROVE  HandleOK(rpcc, hmap') /\ ConnsOK(rpcc, nonce, ran, conn') /\ SameConns(conn, conn')
<1>1. CASE n = 0
  <2>1. hmap' = NoHandle
    BY <1>1, Zenon DEF delete_handle_wo
  <2>2. HandleOK(rpcc, NoHandle)
    BY Zenon DEF HandleOK, NoHandle
  <2>3. conn' = closeconn(rpcc[Len(rpcc)].chan)
    BY <1>1, Zenon DEF delete_handle_wo
  <2> QED
    BY <2>1, <2>2, <2>3, Closes, Zenon
<1>2. CASE n # 0
  <2>1. hmap' = [hmap EXCEPT !.del = TRUE, !.refcnt = n] /\ conn' = conn
    BY <1>2, Zenon DEF delete_handle_wo
  <2>2. HandleOK(rpcc, hmap')
    BY <2>1, SameStay, Zenon DEF HandleOK
  <2> QED
    BY <2>1, <2>2, SameStay, Zenon
<1> QED
  BY <1>1, <1>2, Zenon

\* A thread gives up its handle.
LEMMA StepDoneHandle ==
  ASSUME RpcInv, NEW t \in Thread, done_handle(t)
  PROVE  RpcInv'
<1>1. /\ hlock = NoThread /\ th' = [th EXCEPT ![t] = Idle]
      /\ UNCHANGED <<rpcc, hlock, serverVars, nonce, ran>>
  BY Zenon DEF done_handle
<1>2. hlock # t /\ ~InBind(Idle) /\ ThreadOK(rpcc, nonce, ran, Idle)
  BY <1>1, RpcAssumption, Zenon DEF InBind, Idle, ThreadOK
<1>3. HandleOK(rpcc, hmap') /\ ConnsOK(rpcc, nonce, ran, conn') /\ SameConns(conn, conn')
  <2>1. CASE hmap.del
    BY <2>1, Deletes, Zenon DEF done_handle
  <2>2. CASE ~hmap.del
    <3>1. hmap' = [hmap EXCEPT !.refcnt = @ - 1] /\ conn' = conn
      BY <2>2, Zenon DEF done_handle
    <3>2. HandleOK(rpcc, hmap')
      BY <3>1, SameStay, Zenon DEF HandleOK
    <3> QED
      BY <3>1, <3>2, SameStay, Zenon
  <2> QED
    BY <2>1, <2>2, Zenon
<1> QED
  BY <1>1, <1>2, <1>3, ThreadStep, Zenon

\* A handle is deleted.
LEMMA StepDeleteHandle ==
  ASSUME RpcInv, delete_handle
  PROVE  RpcInv'
<1>1. UNCHANGED <<rpcc, th, hlock, serverVars, nonce, ran>>
  BY Zenon DEF delete_handle
<1>2. HandleOK(rpcc, hmap') /\ ConnsOK(rpcc, nonce, ran, conn') /\ SameConns(conn, conn')
  BY Deletes, Zenon DEF delete_handle
<1>3. Later(rpcc, nonce, ran, rpcc, nonce, ran) /\ ChanOK(rpcc, conn')
  BY <1>2, NothingLater, Zenon DEF RpcInv, ChanOK, SameConns
<1>4. ClientsOK(rpcc, nonce) /\ ThreadsOK(rpcc, nonce, ran, hlock, th)
  BY Zenon DEF RpcInv
<1> QED
  BY <1>1, <1>2, <1>3, <1>4, ClientStep, Zenon

\* A new client and its bind.
LEMMA StepBind ==
  ASSUME RpcInv, NEW t \in Thread, hlock = NoThread, ~hmap.in, Len(rpcc) < MaxClients,
         call1(t, Append(rpcc, NewRpcc), Len(rpcc) + 1), hlock' = t,
         UNCHANGED <<hmap, serverVars, conn, nonce, ran>>
  PROVE  RpcInv'
<1>1. PICK k : k = Len(rpcc) + 1
  BY Zenon
<1>2. PICK cs : cs = Append(rpcc, NewRpcc)
  BY Zenon
<1>3. PICK S : rpcc \in Seq(S)
  BY Zenon DEF RpcInv, ClientsOK, IsSeq
<1>4. /\ k \in Nat /\ Len(rpcc) \in Nat /\ DOMAIN rpcc = 1..Len(rpcc)
      /\ k \notin DOMAIN rpcc
  BY <1>1, <1>3
<1>5. /\ cs \in Seq(S \union {NewRpcc}) /\ Len(cs) = k /\ DOMAIN cs = 1..k
      /\ cs[k] = NewRpcc /\ \A j \in DOMAIN rpcc : cs[j] = rpcc[j]
  <2>1. rpcc \in Seq(S \union {NewRpcc})
    BY <1>3
  <2> QED
    BY <1>1, <1>2, <1>4, <2>1
<1>6. PICK x : x = [NewRpcc EXCEPT !.xid = 2]
  BY Zenon
<1>7. ClientOK(nonce, x) /\ x.srv = 0 /\ x.chan = 0 /\ x.xid = 2
  <2>1. x = [xid |-> 2, window |-> <<0>>, bound |-> FALSE, srv |-> 0, chan |-> 0]
    BY <1>6, Zenon DEF NewRpcc
  <2>2. 0 \in 0..nonce
    BY DEF RpcInv
  <2> QED
    BY <2>1, <2>2 DEF ClientOK
<1>8. PICK s : s = [at |-> "send", ch |-> 0, ret |-> "none", val |-> 0,
                    h |-> [clt |-> k, xid |-> 1, srv |-> 0, xid_rep |-> 0]]
  BY Zenon
<1>9. rpcc' = [cs EXCEPT ![k] = x] /\ th' = [th EXCEPT ![t] = s] /\ 1 \in Xid
  <2>1. /\ rpcc' = [cs EXCEPT ![k].xid = cs[k].xid + 1]
        /\ cs[k].xid \in Xid
        /\ th' = [th EXCEPT ![t] =
             [at |-> "send", ch |-> 0, ret |-> "none", val |-> 0,
              h |-> [clt |-> k, xid |-> cs[k].xid, srv |-> cs[k].srv,
                     xid_rep |-> Head(cs[k].window)]]]
    BY <1>1, <1>2, Zenon DEF call1
  <2>2. cs[k].xid = 1 /\ cs[k].srv = 0 /\ Head(cs[k].window) = 0
    BY <1>5 DEF NewRpcc
  <2>3. cs[k].xid + 1 = 2 /\ x = [cs[k] EXCEPT !.xid = 2]
    BY <1>5, <1>6, <2>2
  <2>4. rpcc' = [cs EXCEPT ![k] = x]
    BY <2>1, <2>3, Zenon
  <2> QED
    BY <1>8, <2>1, <2>2, <2>4, Zenon
<1>10. PICK rs : rs = rpcc'
  BY Zenon
<1>11. /\ IsSeq(rs) /\ Len(rs) = k /\ DOMAIN rs = 1..k
       /\ rs[k] = x /\ \A j \in DOMAIN rpcc : rs[j] = rpcc[j]
  <2>1. cs \in Seq(S \union {NewRpcc, x}) /\ k \in 1..Len(cs)
    BY <1>1, <1>4, <1>5
  <2>2. [cs EXCEPT ![k] = x] \in Seq(S \union {NewRpcc, x}) /\ Len([cs EXCEPT ![k] = x]) = Len(cs)
    BY <2>1
  <2> QED
    BY <1>4, <1>5, <1>9, <1>10, <2>2 DEF IsSeq
<1>12. \A j \in DOMAIN rs : j = k \/ j \in DOMAIN rpcc
  BY <1>1, <1>4, <1>11
<1>13. ClientsOK(rs, nonce)
  <2>1. Len(rs) <= MaxClients
    BY <1>1, <1>4, <1>11, RpcAssumption
  <2> QED
    BY <1>7, <1>11, <1>12, <2>1, Zenon DEF ClientsOK, RpcInv
<1>14. Later(rpcc, nonce, ran, rs, nonce, ran)
  BY <1>1, <1>4, <1>11, NothingLater DEF Later
<1>15. k \in DOMAIN rs /\ rs[k].srv = 0 /\ rs[k].xid = 2
  BY <1>1, <1>4, <1>7, <1>11
<1>16. ThreadOK(rs, nonce, ran, s) /\ Binding(rs, s)
  <2>1. s \in [at : {"send", "wait", "over"}, ch : {s.ch}, ret : {s.ret}, val : {s.val}, h : {s.h}]
    BY <1>8, Zenon
  <2>2. /\ s.h.clt = k /\ s.h.xid = 1 /\ s.h.srv = 0 /\ s.ret = "none"
        /\ s.at \in {"send", "wait", "over"}
    BY <1>8, Zenon
  <2>3. HeaderOK(rs, k, s.h)
    BY <1>9, <1>15, <2>2 DEF HeaderOK
  <2> QED
    BY <1>11, <1>15, <2>1, <2>2, <2>3, Zenon DEF ThreadOK, InCallOK, Binding, InBind
<1>17. ThreadsOK(rs, nonce, ran, t, [th EXCEPT ![t] = s])
  <2>1. ThreadsOK(rpcc, nonce, ran, hlock, th)
    BY Zenon DEF RpcInv
  <2>2. hlock \notin Thread \ {t} /\ t \notin Thread \ {t}
    BY RpcAssumption, Zenon
  <2> QED
    BY <1>14, <1>16, <2>1, <2>2, OneThread, Zenon
<1>18. ConnsOK(rs, nonce, ran, conn) /\ SameConns(conn, conn)
  BY <1>14, ConnsStay, Zenon DEF RpcInv, SameConns
<1>19. ChanOK(rs, conn) /\ HandleOK(rs, hmap)
  BY <1>7, <1>11, <1>12 DEF RpcInv, ChanOK, HandleOK
<1> QED
  BY <1>9, <1>10, <1>13, <1>14, <1>17, <1>18, <1>19, ClientStep, Zenon

\* A thread gets a handle.
LEMMA StepGetHandle ==
  ASSUME RpcInv, NEW t \in Thread, get_handle(t)
  PROVE  RpcInv'
<1>1. /\ hlock = NoThread
      /\ UNCHANGED <<serverVars, conn, nonce, ran>>
  BY Zenon DEF get_handle
<1>2. CASE ~hmap.in
  BY <1>1, <1>2, StepBind, Zenon DEF get_handle
<1>3. CASE hmap.in
  <2>1. PICK s : s = [at |-> "have", k |-> Len(rpcc)]
    BY Zenon
  <2>2. /\ hmap' = [hmap EXCEPT !.refcnt = @ + 1]
        /\ th' = [th EXCEPT ![t] = s]
        /\ UNCHANGED <<rpcc, hlock>>
    BY <1>3, <2>1, Zenon DEF get_handle
  <2>3. HandleOK(rpcc, hmap') /\ Len(rpcc) \in DOMAIN rpcc /\ rpcc[Len(rpcc)].srv # 0
    BY <1>3, <2>2, SameStay, Zenon DEF HandleOK
  <2>4. ThreadOK(rpcc, nonce, ran, s)
    BY <2>1, <2>3, Zenon DEF ThreadOK
  <2>5. hlock # t /\ ~InBind(s)
    BY <1>1, <2>1, RpcAssumption, Zenon DEF InBind
  <2> QED
    BY <1>1, <2>2, <2>3, <2>4, <2>5, SameStay, ThreadStep, Zenon
<1> QED
  BY <1>2, <1>3, Zenon

(***************************************************************************)
(* What is left of a queue, and a queue with one more element.             *)
(***************************************************************************)
Part(q, p) == IsSeq(p) /\ \A i \in DOMAIN p : \E j \in DOMAIN q : p[i] = q[j]

More(q, e, p) == IsSeq(p) /\ \A i \in DOMAIN p : p[i] = e \/ \E j \in DOMAIN q : p[i] = q[j]

\* The rest of a queue, and its head.
LEMMA TailPart ==
  ASSUME NEW q, IsSeq(q), q # <<>>
  PROVE  Part(q, Tail(q)) /\ \E j \in DOMAIN q : Head(q) = q[j]
<1>1. PICK S : q \in Seq(S)
  BY Zenon DEF IsSeq
<1>2. Tail(q) \in Seq(S) /\ \A i \in DOMAIN Tail(q) : i + 1 \in DOMAIN q /\ Tail(q)[i] = q[i + 1]
  BY <1>1
<1>3. 1 \in DOMAIN q /\ Head(q) = q[1]
  BY <1>1
<1> QED
  BY <1>2, <1>3, Zenon DEF Part, IsSeq

\* What a broken connection leaves of a queue.
LEMMA PrefixPart ==
  ASSUME NEW q, IsSeq(q), NEW m \in 0..Len(q)
  PROVE  Part(q, SubSeq(q, 1, m))
<1>1. PICK S : q \in Seq(S)
  BY Zenon DEF IsSeq
<1>2. SubSeq(q, 1, m) \in Seq(S) /\ \A i \in DOMAIN SubSeq(q, 1, m) :
        i \in DOMAIN q /\ SubSeq(q, 1, m)[i] = q[i]
  BY <1>1
<1> QED
  BY <1>2, Zenon DEF Part, IsSeq

\* A queue after Append.
LEMMA OneMore ==
  ASSUME NEW q, IsSeq(q), NEW e
  PROVE  More(q, e, Append(q, e))
<1>1. PICK S : q \in Seq(S)
  BY Zenon DEF IsSeq
<1>2. q \in Seq(S \union {e})
  BY <1>1
<1>3. Append(q, e) \in Seq(S \union {e})
  BY <1>2
<1>4. /\ DOMAIN Append(q, e) = 1..(Len(q) + 1) /\ Append(q, e)[Len(q) + 1] = e
      /\ \A i \in 1..Len(q) : Append(q, e)[i] = q[i]
  BY <1>2
<1>5. DOMAIN q = 1..Len(q) /\ Len(q) \in Nat
  BY <1>2
<1>6. \A i \in 1..(Len(q) + 1) : i = Len(q) + 1 \/ i \in 1..Len(q)
  BY <1>5
<1> QED
  BY <1>3, <1>4, <1>5, <1>6, Zenon DEF More, IsSeq

(***************************************************************************)
(* A request is sent.                                                      *)
(***************************************************************************)
LEMMA Upped ==
  ASSUME NEW rs, NEW n, NEW rn, NEW cs, ConnsOK(rs, n, rn, cs), NEW c \in DOMAIN cs,
         NEW h, HeaderOK(rs, cs[c].clt, h), NEW ds, ds = [cs EXCEPT ![c].up = Append(@, h)]
  PROVE  ConnsOK(rs, n, rn, ds) /\ SameConns(cs, ds)
<1>1. PICK up : up = Append(cs[c].up, h)
  BY Zenon
<1>2. PICK x : x = [cs[c] EXCEPT !.up = up]
  BY Zenon
<1>3. ConnOK(rs, n, rn, cs[c])
  BY Zenon DEF ConnsOK
<1>4. More(cs[c].up, h, up)
  BY <1>1, <1>3, OneMore, Zenon DEF ConnOK
<1>5. /\ x \in [clt : DOMAIN rs, inst : {x.inst}, cdead : BOOLEAN, sdead : BOOLEAN,
                up : {x.up}, down : {x.down}, rpdu : {x.rpdu}, ref : {x.ref}]
      /\ x.clt = cs[c].clt /\ x.up = up /\ x.down = cs[c].down /\ x.rpdu = cs[c].rpdu
  BY <1>2, <1>3, Zenon DEF ConnOK
<1>6. IsSeq(x.up) /\ \A i \in DOMAIN x.up : HeaderOK(rs, x.clt, x.up[i])
  BY <1>3, <1>4, <1>5, Zenon DEF More, ConnOK
<1>7. ConnOK(rs, n, rn, x)
  BY <1>3, <1>5, <1>6, Zenon DEF ConnOK
<1>8. ds = [cs EXCEPT ![c] = x]
  BY <1>1, <1>2, Zenon
<1>9. ConnsOK(rs, n, rn, [cs EXCEPT ![c] = x]) /\ SameConns(cs, [cs EXCEPT ![c] = x])
  BY <1>5, <1>7, OneConn, Zenon
<1> QED
  BY <1>8, <1>9, Zenon

\* The listener drops dead connections when it accepts the next one.
LEMMA Collected ==
  ASSUME NEW rs, NEW n, NEW rn, NEW cs, ConnsOK(rs, n, rn, cs)
  PROVE  ConnsOK(rs, n, rn, Collect(cs)) /\ SameConns(cs, Collect(cs)) /\ Len(Collect(cs)) = Len(cs)
<1>1. PICK ds : ds = Collect(cs)
  BY Zenon
<1>2. ds = [c \in DOMAIN cs |-> ds[c]]
  BY <1>1, Zenon DEF Collect
<1>3. ASSUME NEW c \in DOMAIN cs PROVE ConnOK(rs, n, rn, ds[c]) /\ ds[c].clt = cs[c].clt
  <2>1. ConnOK(rs, n, rn, cs[c])
    BY Zenon DEF ConnsOK
  <2>2. ds[c] = cs[c] \/ ds[c] = [cs[c] EXCEPT !.ref = 0]
    BY <1>1, Zenon DEF Collect
  <2>3. Alike(rs, cs[c], ds[c])
    BY <2>1, <2>2, Zenon DEF Alike, ConnOK
  <2> QED
    BY <2>1, <2>3, FlagsChange
<1>4. ConnsOK(rs, n, rn, ds) /\ SameConns(cs, ds) /\ Len(ds) = Len(cs)
  BY <1>2, <1>3, EachConn
<1> QED
  BY <1>1, <1>4, Zenon

\* A new connection of client k that carries its request.
LEMMA Connects ==
  ASSUME RpcInv, NEW k \in DOMAIN rpcc, NEW h, HeaderOK(rpcc, k, h),
         NEW c, c = Len(conn) + 1
  PROVE  /\ ConnsOK(rpcc, nonce, ran, connect(k, h)) /\ SameConns(conn, connect(k, h))
         /\ c \in DOMAIN connect(k, h) /\ connect(k, h)[c].clt = k
<1>1. PICK cs : cs = Collect(conn)
  BY Zenon
<1>2. ConnsOK(rpcc, nonce, ran, cs) /\ SameConns(conn, cs) /\ Len(cs) = Len(conn)
  <2>1. ConnsOK(rpcc, nonce, ran, conn)
    BY Zenon DEF RpcInv
  <2> QED
    BY <1>1, <2>1, Collected, Zenon
<1>3. PICK x : x = [clt |-> k, inst |-> nonce, cdead |-> FALSE, sdead |-> FALSE,
                    up |-> <<h>>, down |-> <<>>, rpdu |-> NoPdu, ref |-> 1]
  BY Zenon
<1>4. ConnOK(rpcc, nonce, ran, x) /\ x.clt = k
  <2>1. x \in [clt : DOMAIN rpcc, inst : {x.inst}, cdead : BOOLEAN, sdead : BOOLEAN,
               up : {x.up}, down : {x.down}, rpdu : {x.rpdu}, ref : {x.ref}]
    BY <1>3
  <2>2. x.clt = k /\ x.up = <<h>> /\ x.down = <<>> /\ x.rpdu = NoPdu
    BY <1>3, Zenon
  <2>3. <<h>> \in Seq({h}) /\ DOMAIN <<h>> = {1} /\ <<h>>[1] = h
    OBVIOUS
  <2>4. IsSeq(x.up) /\ \A i \in DOMAIN x.up : HeaderOK(rpcc, x.clt, x.up[i])
    BY <2>2, <2>3, Zenon DEF IsSeq
  <2>5. << >> \in Seq({h}) /\ DOMAIN << >> = {}
    OBVIOUS
  <2>6. IsSeq(x.down) /\ \A i \in DOMAIN x.down : ReplyOK(rpcc, nonce, ran, x.clt, x.down[i])
    BY <2>2, <2>5, Zenon DEF IsSeq
  <2> QED
    BY <2>1, <2>2, <2>4, <2>6, Zenon DEF ConnOK
<1>5. PICK ds : ds = Append(cs, x)
  BY Zenon
<1>6. ds = connect(k, h)
  BY <1>1, <1>3, <1>5, Zenon DEF connect
<1>7. PICK S : cs \in Seq(S)
  BY <1>2, Zenon DEF ConnsOK, IsSeq
<1>8. /\ ds \in Seq(S \union {x}) /\ DOMAIN ds = 1..c /\ DOMAIN cs = 1..(c - 1) /\ c \in Nat \ {0}
      /\ ds[c] = x /\ \A d \in DOMAIN cs : ds[d] = cs[d]
  <2>1. cs \in Seq(S \union {x})
    BY <1>7
  <2> QED
    BY <1>2, <1>5, <2>1
<1>9. c \in DOMAIN ds /\ DOMAIN cs \subseteq DOMAIN ds
      /\ \A d \in DOMAIN ds : d = c \/ d \in DOMAIN cs
  BY <1>8
<1>10. ConnsOK(rpcc, nonce, ran, ds)
  BY <1>2, <1>4, <1>8, <1>9, Zenon DEF ConnsOK, IsSeq
<1>11. SameConns(conn, ds)
  BY <1>2, <1>8, <1>9, Zenon DEF SameConns
<1> QED
  BY <1>4, <1>6, <1>8, <1>9, <1>10, <1>11, Zenon

\* The connection a request goes out on is one of its client.
LEMMA Transmits ==
  ASSUME RpcInv, NEW k \in DOMAIN rpcc, NEW h, HeaderOK(rpcc, k, h), NEW c \in get_refconn(k),
         conn' = IF c = 0 THEN conn
                 ELSE IF c \in DOMAIN conn THEN [conn EXCEPT ![c].up = Append(@, h)]
                 ELSE connect(k, h)
  PROVE  /\ ConnsOK(rpcc, nonce, ran, conn') /\ SameConns(conn, conn')
         /\ c # 0 => c \in DOMAIN conn' /\ conn'[c].clt = k
<1>1. ConnsOK(rpcc, nonce, ran, conn) /\ SameConns(conn, conn) /\ ChanOK(rpcc, conn)
  BY SameStay, Zenon DEF RpcInv
<1>2. CASE c = 0
  BY <1>1, <1>2, Zenon
<1>3. CASE c # 0 /\ c \in DOMAIN conn
  <2>1. PICK S : conn \in Seq(S)
    BY <1>1, Zenon DEF ConnsOK, IsSeq
  <2>2. c # Len(conn) + 1
    BY <1>3, <2>1
  <2>3. c = rpcc[k].chan
    BY <1>3, <2>2, Zenon DEF get_refconn
  <2>4. conn[c].clt = k
    BY <1>1, <1>3, <2>3, Zenon DEF ChanOK
  <2>5. conn' = [conn EXCEPT ![c].up = Append(@, h)]
    BY <1>3, Zenon
  <2>6. ConnsOK(rpcc, nonce, ran, conn') /\ SameConns(conn, conn')
    BY <1>1, <1>3, <2>4, <2>5, Upped, Zenon
  <2> QED
    BY <1>3, <2>4, <2>6, Zenon DEF SameConns
<1>4. CASE c # 0 /\ c \notin DOMAIN conn
  <2>1. c = Len(conn) + 1
    BY <1>1, <1>4, Zenon DEF get_refconn, ChanOK, isdead
  <2>2. conn' = connect(k, h)
    BY <1>4, Zenon
  <2> QED
    BY <2>1, <2>2, Connects
<1> QED
  BY <1>2, <1>3, <1>4, Zenon

\* call1 sends its request, on a new connection where the old one is dead.
LEMMA StepTransmit ==
  ASSUME RpcInv, NEW t \in Thread, Transmit(t)
  PROVE  RpcInv'
<1>1. PICK k, h : h = th[t].h /\ k = h.clt
  BY Zenon
<1>2. PICK c \in get_refconn(k) :
        /\ th[t].at = "send"
        /\ rpcc' = [rpcc EXCEPT ![k].chan = c]
        /\ th' = [th EXCEPT ![t].at = "wait", ![t].ch = IF c = 0 THEN @ ELSE c]
        /\ conn' = IF c = 0 THEN conn
                   ELSE IF c \in DOMAIN conn THEN [conn EXCEPT ![c].up = Append(@, h)]
                   ELSE connect(k, h)
        /\ UNCHANGED <<hmap, hlock, serverVars, nonce, ran>>
  BY <1>1, Zenon DEF Transmit
<1>3. InCallOK(rpcc, nonce, ran, th[t]) /\ ThreadOK(rpcc, nonce, ran, th[t])
  BY <1>2, SameStay, CallThread, Zenon
<1>4. k \in DOMAIN rpcc /\ HeaderOK(rpcc, k, h)
  BY <1>1, <1>3, Zenon DEF InCallOK
<1>5. /\ ConnsOK(rpcc, nonce, ran, conn') /\ SameConns(conn, conn')
      /\ c # 0 => c \in DOMAIN conn' /\ conn'[c].clt = k
  BY <1>2, <1>4, Transmits, Zenon
<1>6. /\ Kept(rpcc, nonce, ran, rpcc')
      /\ \A j \in DOMAIN rpcc : rpcc'[j].chan = IF j = k THEN c ELSE rpcc[j].chan
  <2>1. PICK x : x = [rpcc[k] EXCEPT !.chan = c]
    BY Zenon
  <2>2. ClientsOK(rpcc, nonce) /\ ClientOK(nonce, rpcc[k]) /\ nonce \in Nat
    BY <1>4, Zenon DEF RpcInv, ClientsOK
  <2>3. ClientOK(nonce, x) /\ x.srv = rpcc[k].srv /\ x.chan = c /\ rpcc[k].xid <= x.xid
    BY <2>1, <2>2 DEF ClientOK
  <2>4. rpcc' = [rpcc EXCEPT ![k] = x]
    BY <1>2, <2>1, Zenon
  <2>5. Kept(rpcc, nonce, ran, rpcc')
    BY <1>4, <2>2, <2>3, <2>4, ClientKept, Zenon
  <2> QED
    BY <1>4, <2>3, <2>4, <2>5, Zenon
<1>7. /\ ClientsOK(rpcc', nonce) /\ Later(rpcc, nonce, ran, rpcc', nonce, ran)
      /\ Len(rpcc') = Len(rpcc) /\ DOMAIN rpcc' = DOMAIN rpcc
      /\ \A j \in DOMAIN rpcc : rpcc'[j].srv = rpcc[j].srv
  BY <1>6, Zenon DEF Kept, Replaced
<1>8. ThreadsOK(rpcc', nonce, ran, hlock, th')
  <2>1. PICK u : u = [th[t] EXCEPT !.at = "wait", !.ch = IF c = 0 THEN @ ELSE c]
    BY Zenon
  <2>2. th' = [th EXCEPT ![t] = u]
    BY <1>2, <2>1, Zenon
  <2>3. /\ u \in [at : {"send", "wait", "over"}, ch : {u.ch}, ret : {u.ret}, val : {u.val}, h : {u.h}]
        /\ u.h = th[t].h /\ u.ret = th[t].ret /\ u.val = th[t].val
    BY <1>3, <2>1, Zenon DEF InCallOK
  <2>4. /\ ThreadOK(rpcc, nonce, ran, u) /\ (InBind(u) <=> InBind(th[t]))
        /\ Binding(rpcc, th[t]) => Binding(rpcc, u)
    BY <1>2, <1>3, <2>3, Moved, Zenon
  <2>5. ThreadOK(rpcc', nonce, ran, u)
    BY <1>7, <2>4, ThreadStays, Zenon
  <2>6. hlock = t => Binding(rpcc', u)
    BY <1>3, <1>7, <2>3, <2>4, SameStay, Zenon DEF Binding, InCallOK
  <2>7. InBind(u) => hlock = t
    BY <2>4, SameStay, Zenon
  <2>8. ThreadsOK(rpcc, nonce, ran, hlock, th)
    BY Zenon DEF RpcInv
  <2> QED
    BY <1>7, <2>2, <2>5, <2>6, <2>7, <2>8, OneThread, Zenon
<1>9. ConnsOK(rpcc', nonce, ran, conn')
  BY <1>5, <1>7, ConnsStay, Zenon
<1>10. ChanOK(rpcc', conn')
  BY <1>5, <1>6, <1>7, Zenon DEF RpcInv, ChanOK, SameConns
<1>11. HandleOK(rpcc', hmap)
  BY <1>7, SameStay, Zenon DEF HandleOK
<1> QED
  BY <1>2, <1>5, <1>7, <1>8, <1>9, <1>10, <1>11, ClientStep

\* rpcc::got_pdu and the end of call1 change the window of a client.
LEMMA Acknowledges ==
  ASSUME RpcInv, NEW k \in DOMAIN rpcc, NEW v, rpcc' = [rpcc EXCEPT ![k].window = v]
  PROVE  /\ ClientsOK(rpcc', nonce) /\ Later(rpcc, nonce, ran, rpcc', nonce, ran)
         /\ Len(rpcc') = Len(rpcc) /\ DOMAIN rpcc' = DOMAIN rpcc
         /\ \A j \in DOMAIN rpcc : rpcc'[j].srv = rpcc[j].srv
         /\ \A j \in DOMAIN rpcc : rpcc'[j].chan = rpcc[j].chan
<1>1. PICK x : x = [rpcc[k] EXCEPT !.window = v]
  BY Zenon
<1>2. ClientsOK(rpcc, nonce) /\ ClientOK(nonce, rpcc[k]) /\ nonce \in Nat
  BY Zenon DEF RpcInv, ClientsOK
<1>3. /\ ClientOK(nonce, x) /\ x.srv = rpcc[k].srv /\ x.chan = rpcc[k].chan
      /\ rpcc[k].xid <= x.xid
  BY <1>1, <1>2 DEF ClientOK
<1>4. rpcc' = [rpcc EXCEPT ![k] = x]
  BY <1>1, Zenon
<1>5. Kept(rpcc, nonce, ran, rpcc')
  BY <1>2, <1>3, <1>4, ClientKept, Zenon
<1> QED
  BY <1>3, <1>4, <1>5, Zenon DEF Kept, Replaced

\* A reply is read from a connection.
LEMMA Downed ==
  ASSUME NEW rs, NEW n, NEW rn, NEW cs, ConnsOK(rs, n, rn, cs), NEW c \in DOMAIN cs,
         NEW q, Part(cs[c].down, q), NEW ds, ds = [cs EXCEPT ![c].down = q]
  PROVE  ConnsOK(rs, n, rn, ds) /\ SameConns(cs, ds)
<1>1. PICK x : x = [cs[c] EXCEPT !.down = q]
  BY Zenon
<1>2. ConnOK(rs, n, rn, cs[c])
  BY Zenon DEF ConnsOK
<1>3. /\ x \in [clt : DOMAIN rs, inst : {x.inst}, cdead : BOOLEAN, sdead : BOOLEAN,
                up : {x.up}, down : {x.down}, rpdu : {x.rpdu}, ref : {x.ref}]
      /\ x.clt = cs[c].clt /\ x.up = cs[c].up /\ x.down = q /\ x.rpdu = cs[c].rpdu
  BY <1>1, <1>2, Zenon DEF ConnOK
<1>4. IsSeq(x.down) /\ \A i \in DOMAIN x.down : ReplyOK(rs, n, rn, x.clt, x.down[i])
  BY <1>2, <1>3, Zenon DEF Part, ConnOK
<1>5. ConnOK(rs, n, rn, x)
  BY <1>2, <1>3, <1>4, Zenon DEF ConnOK
<1>6. ConnsOK(rs, n, rn, [cs EXCEPT ![c] = x]) /\ SameConns(cs, [cs EXCEPT ![c] = x])
  BY <1>3, <1>5, OneConn, Zenon
<1> QED
  BY <1>1, <1>6, Zenon

\* rpcc::got_pdu gives a reply to the thread that waits for it.
LEMMA StepClientGotPdu ==
  ASSUME RpcInv, NEW c \in DOMAIN conn, ClientGotPdu(c)
  PROVE  RpcInv'
<1> DEFINE Pending(t, k, r) ==
             /\ th[t].at \in {"send", "wait", "over"} /\ th[t].ret = "none"
             /\ th[t].h.clt = k /\ th[t].h.xid = r.xid
<1>1. PICK k, r, v : /\ k = conn[c].clt /\ r = Head(conn[c].down)
                     /\ v = update_xid_rep(rpcc[k].window, r.xid)
  BY Zenon
<1>2. /\ conn[c].down # <<>>
      /\ conn' = [conn EXCEPT ![c].down = Tail(@)]
      /\ rpcc' = [rpcc EXCEPT ![k].window = v]
      /\ th' = [t \in Thread |-> IF Pending(t, k, r)
                                THEN [th[t] EXCEPT !.ret = r.ret, !.val = r.val] ELSE th[t]]
      /\ UNCHANGED <<hmap, hlock, serverVars, nonce, ran>>
  BY <1>1, Zenon DEF ClientGotPdu
<1>3. ConnOK(rpcc, nonce, ran, conn[c]) /\ ConnsOK(rpcc, nonce, ran, conn)
  BY Zenon DEF RpcInv, ConnsOK
<1>4. k \in DOMAIN rpcc
  BY <1>1, <1>3, Zenon DEF ConnOK
<1>5. Part(conn[c].down, Tail(conn[c].down)) /\ ReplyOK(rpcc, nonce, ran, k, r)
  BY <1>1, <1>2, <1>3, TailPart, Zenon DEF ConnOK
<1>6. ConnsOK(rpcc, nonce, ran, conn') /\ SameConns(conn, conn')
  <2>1. PICK q : q = Tail(conn[c].down)
    BY Zenon
  <2>2. Part(conn[c].down, q) /\ conn' = [conn EXCEPT ![c].down = q]
    BY <1>2, <1>5, <2>1, Zenon
  <2> QED
    BY <1>3, <2>2, Downed, Zenon
<1>7. /\ ClientsOK(rpcc', nonce) /\ Later(rpcc, nonce, ran, rpcc', nonce, ran)
      /\ Len(rpcc') = Len(rpcc) /\ DOMAIN rpcc' = DOMAIN rpcc
      /\ \A j \in DOMAIN rpcc : rpcc'[j].srv = rpcc[j].srv
      /\ \A j \in DOMAIN rpcc : rpcc'[j].chan = rpcc[j].chan
  BY <1>2, <1>4, Acknowledges, Zenon
<1>8. ASSUME NEW t \in Thread
      PROVE  /\ ThreadOK(rpcc', nonce, ran, th'[t]) /\ (hlock = t => Binding(rpcc', th'[t]))
             /\ InBind(th'[t]) => hlock = t
  <2>1. /\ ThreadOK(rpcc, nonce, ran, th[t]) /\ (hlock = t => Binding(rpcc, th[t]))
        /\ InBind(th[t]) => hlock = t
    BY SameStay, Zenon
  <2>2. CASE Pending(t, k, r)
    <3>1. InCallOK(rpcc, nonce, ran, th[t])
      BY <2>1, <2>2, CallThread, Zenon
    <3>2. PICK u : u = [th[t] EXCEPT !.ret = r.ret, !.val = r.val]
      BY Zenon
    <3>3. th'[t] = u
      BY <1>2, <2>2, <3>2, Zenon
    <3>4. /\ u \in [at : {"send", "wait", "over"}, ch : {u.ch}, ret : {u.ret}, val : {u.val}, h : {u.h}]
          /\ u.h = th[t].h /\ u.ret = r.ret /\ u.val = r.val /\ u.at = th[t].at
      BY <3>1, <3>2, Zenon DEF InCallOK
    <3>5. u.h.clt = k /\ HeaderOK(rpcc, k, u.h) /\ u.h.xid = r.xid
      BY <2>2, <3>1, <3>4, Zenon DEF InCallOK
    <3>6. ReplyOK(rpcc, nonce, ran, u.h.clt, [xid |-> u.h.xid, ret |-> u.ret, val |-> u.val])
      BY <1>5, <3>4, <3>5, Zenon DEF ReplyOK
    <3>7. ThreadOK(rpcc, nonce, ran, u)
      BY <1>4, <3>4, <3>5, <3>6, Zenon DEF ThreadOK, InCallOK
    <3>8. ThreadOK(rpcc', nonce, ran, u)
      BY <1>7, <3>7, ThreadStays, Zenon
    <3>9. /\ hlock = t => Binding(rpcc', u)
          /\ InBind(u) => hlock = t
      BY <1>4, <1>7, <2>1, <3>4, <3>5 DEF Binding, InBind
    <3> QED
      BY <3>3, <3>8, <3>9, Zenon
  <2>3. CASE ~Pending(t, k, r)
    <3>1. th'[t] = th[t]
      BY <1>2, <2>3, Zenon
    <3>2. ThreadOK(rpcc', nonce, ran, th[t])
      BY <1>7, <2>1, ThreadStays, Zenon
    <3>3. hlock = t => th[t].h.clt \in DOMAIN rpcc
      BY <2>1, CallThread, Zenon DEF Binding, InBind, InCallOK
    <3>4. hlock = t => Binding(rpcc', th[t])
      BY <1>7, <2>1, <3>3, Zenon DEF Binding
    <3> QED
      BY <2>1, <3>1, <3>2, <3>4, Zenon
  <2> QED
    BY <2>2, <2>3, Zenon
<1>9. ThreadsOK(rpcc', nonce, ran, hlock, th')
  BY <1>2, <1>8, Zenon DEF ThreadsOK
<1>10. ConnsOK(rpcc', nonce, ran, conn')
  BY <1>6, <1>7, ConnsStay, Zenon
<1>11. ChanOK(rpcc', conn')
  BY <1>6, <1>7, Zenon DEF RpcInv, ChanOK, SameConns
<1>12. HandleOK(rpcc', hmap)
  BY <1>7, SameStay, Zenon DEF HandleOK
<1> QED
  BY <1>2, <1>6, <1>7, <1>9, <1>10, <1>11, <1>12, ClientStep, Zenon

\* The thread that leaves its call, and with it handle_mutex if it holds it.
LEMMA Leaves ==
  ASSUME RpcInv, NEW t \in Thread, NEW s, th' = [th EXCEPT ![t] = s], ~InBind(s), hlock' # t,
         \/ hlock = t /\ hlock' = NoThread
         \/ /\ hlock' = hlock /\ Len(rpcc') = Len(rpcc)
            /\ \A j \in DOMAIN rpcc : rpcc'[j].srv = rpcc[j].srv,
         Later(rpcc, nonce, ran, rpcc', nonce, ran), ClientsOK(rpcc', nonce),
         DOMAIN rpcc' = DOMAIN rpcc, \A j \in DOMAIN rpcc : rpcc'[j].chan = rpcc[j].chan,
         ThreadOK(rpcc', nonce, ran, s), HandleOK(rpcc', hmap'),
         UNCHANGED <<serverVars, conn, nonce, ran>>
  PROVE  RpcInv'
<1>1. ThreadsOK(rpcc, nonce, ran, hlock, th) /\ NoThread \notin Thread
  BY RpcAssumption, Zenon DEF RpcInv
<1>2. ThreadsOK(rpcc', nonce, ran, hlock', th')
  <2>1. PICK rs, hl : rs = rpcc' /\ hl = hlock'
    BY Zenon
  <2>2. hl = t => Binding(rs, s)
    BY <2>1, Zenon
  <2>3. InBind(s) => hl = t
    BY Zenon
  <2>4. \/ hlock \notin Thread \ {t} /\ hl \notin Thread \ {t}
        \/ hl = hlock /\ Len(rs) = Len(rpcc) /\ \A j \in DOMAIN rpcc : rs[j].srv = rpcc[j].srv
    BY <1>1, <2>1, Zenon
  <2>5. Later(rpcc, nonce, ran, rs, nonce, ran) /\ ThreadOK(rs, nonce, ran, s)
    BY <2>1, Zenon
  <2>6. ThreadsOK(rs, nonce, ran, hl, [th EXCEPT ![t] = s])
    BY <1>1, <2>2, <2>3, <2>4, <2>5, OneThread, ZenonT(30)
  <2> QED
    BY <2>1, <2>6, Zenon
<1>3. ConnsOK(rpcc', nonce, ran, conn') /\ SameConns(conn, conn')
  BY SameStay, ConnsStay, Zenon
<1>4. ChanOK(rpcc', conn')
  BY Zenon DEF RpcInv, ChanOK
<1> QED
  BY <1>2, <1>3, <1>4, ClientStep, Zenon

\* call1 returns; when bind made the call, the client is now bound to the incarnation that
\* answered.
LEMMA StepReturn ==
  ASSUME RpcInv, NEW t \in Thread, Return(t)
  PROVE  RpcInv'
<1>1. PICK k, v : k = th[t].h.clt /\ v = update_xid_rep(rpcc[k].window, th[t].h.xid)
  BY Zenon
<1>2. /\ th[t].at \in {"send", "wait", "over"}
      /\ Closed(t) = [rpcc EXCEPT ![k].window = v]
      /\ UNCHANGED <<serverVars, conn, nonce, ran>>
  <2>1. th[t].at \in {"send", "wait", "over"} /\ UNCHANGED <<serverVars, conn, nonce, ran>>
    BY Zenon DEF Return
  <2>2. Closed(t) = [rpcc EXCEPT ![k].window = v]
    BY <1>1, Zenon DEF Closed
  <2> QED
    BY <2>1, <2>2, Zenon
<1>3. InCallOK(rpcc, nonce, ran, th[t])
  BY <1>2, SameStay, CallThread, Zenon
<1>4. k \in DOMAIN rpcc
  BY <1>1, <1>3, Zenon DEF InCallOK
<1>5. CASE hlock # t
  <2>1. PICK s : s = [at |-> "done", k |-> k]
    BY Zenon
  <2>2. rpcc' = [rpcc EXCEPT ![k].window = v] /\ th' = [th EXCEPT ![t] = s] /\ UNCHANGED <<hmap, hlock>>
    BY <1>1, <1>2, <1>5, <2>1, Zenon DEF Return
  <2>3. /\ ClientsOK(rpcc', nonce) /\ Later(rpcc, nonce, ran, rpcc', nonce, ran)
        /\ Len(rpcc') = Len(rpcc) /\ DOMAIN rpcc' = DOMAIN rpcc
        /\ \A j \in DOMAIN rpcc : rpcc'[j].srv = rpcc[j].srv
        /\ \A j \in DOMAIN rpcc : rpcc'[j].chan = rpcc[j].chan
    BY <1>4, <2>2, Acknowledges, Zenon
  <2>4. rpcc[k].srv # 0
    BY <1>1, <1>2, <1>3, <1>5, SameStay, Zenon DEF InCallOK, HeaderOK, InBind
  <2>5. ThreadOK(rpcc', nonce, ran, s) /\ ~InBind(s)
    BY <1>4, <2>1, <2>3, <2>4, Zenon DEF ThreadOK, InBind
  <2>6. HandleOK(rpcc', hmap')
    BY <2>2, <2>3, SameStay, Zenon DEF HandleOK
  <2> QED
    BY <1>2, <1>5, <2>2, <2>3, <2>5, <2>6, Leaves, Zenon
<1>6. CASE hlock = t /\ th[t].ret # "ok"
  <2>1. /\ rpcc' = [rpcc EXCEPT ![k].window = v] /\ th' = [th EXCEPT ![t] = Idle]
        /\ UNCHANGED hmap /\ hlock' = NoThread
    BY <1>2, <1>6, Zenon DEF Return, bind
  <2>2. /\ ClientsOK(rpcc', nonce) /\ Later(rpcc, nonce, ran, rpcc', nonce, ran)
        /\ Len(rpcc') = Len(rpcc) /\ DOMAIN rpcc' = DOMAIN rpcc
        /\ \A j \in DOMAIN rpcc : rpcc'[j].srv = rpcc[j].srv
        /\ \A j \in DOMAIN rpcc : rpcc'[j].chan = rpcc[j].chan
    BY <1>4, <2>1, Acknowledges, Zenon
  <2>3. ThreadOK(rpcc', nonce, ran, Idle) /\ ~InBind(Idle)
    BY Zenon DEF ThreadOK, InBind, Idle
  <2>4. HandleOK(rpcc', hmap')
    BY <2>1, <2>2, SameStay, Zenon DEF HandleOK
  <2>5. hlock' # t
    BY <2>1, RpcAssumption, Zenon
  <2> QED
    BY <1>2, <1>6, <2>1, <2>2, <2>3, <2>4, <2>5, Leaves, Zenon
<1>7. CASE hlock = t /\ th[t].ret = "ok"
  <2>1. PICK s, val, x : /\ s = [at |-> "have", k |-> k] /\ val = th[t].val
                         /\ x = [rpcc[k] EXCEPT !.window = v, !.bound = TRUE, !.srv = val]
    BY Zenon
  <2>2. /\ rpcc' = [Closed(t) EXCEPT ![k].bound = TRUE, ![k].srv = val]
        /\ hmap' = [in |-> TRUE, refcnt |-> 1, del |-> FALSE]
        /\ th' = [th EXCEPT ![t] = s] /\ hlock' = NoThread
    BY <1>1, <1>7, <2>1, Zenon DEF Return, bind
  <2>3. rpcc' = [rpcc EXCEPT ![k] = x]
    BY <1>2, <1>4, <2>1, <2>2, Zenon
  <2>4. val \in 1..nonce /\ nonce \in Nat
    BY <1>3, <1>7, <2>1, Zenon DEF InCallOK, ReplyOK, RpcInv
  <2>5. ClientsOK(rpcc, nonce) /\ ClientOK(nonce, rpcc[k])
    BY <1>4, Zenon DEF RpcInv, ClientsOK
  <2>6. ClientOK(nonce, x) /\ x.srv # 0 /\ x.chan = rpcc[k].chan /\ x.xid = rpcc[k].xid
    <3>1. val \in 0..nonce /\ val # 0
      BY <2>4
    <3>2. PICK y : y = rpcc[k]
      BY Zenon
    <3>3. x = [y EXCEPT !.window = v, !.bound = TRUE, !.srv = val] /\ ClientOK(nonce, y)
      BY <2>1, <2>5, <3>2, Zenon
    <3> QED
      BY <3>1, <3>2, <3>3, Zenon DEF ClientOK
  <2>7. rpcc[k].srv = 0 /\ k = Len(rpcc)
    BY <1>1, <1>7, SameStay, Zenon DEF Binding
  <2>8. Replaced(rpcc, nonce, ran, rpcc')
    <3>1. rpcc[k].xid <= x.xid
      BY <2>5, <2>6 DEF ClientOK
    <3> QED
      BY <1>4, <2>3, <2>4, <2>5, <2>6, <2>7, <3>1, OneClient, Zenon
  <2>9. /\ ClientsOK(rpcc', nonce) /\ Later(rpcc, nonce, ran, rpcc', nonce, ran)
        /\ Len(rpcc') = Len(rpcc) /\ DOMAIN rpcc' = DOMAIN rpcc
    BY <2>8, Zenon DEF Replaced
  <2>10. rpcc'[k].srv # 0 /\ \A j \in DOMAIN rpcc : rpcc'[j].chan = rpcc[j].chan
    BY <1>4, <2>3, <2>6, Zenon
  <2>11. ThreadOK(rpcc', nonce, ran, s) /\ ~InBind(s)
    BY <1>4, <2>1, <2>9, <2>10, Zenon DEF ThreadOK, InBind
  <2>12. HandleOK(rpcc', hmap')
    <3>1. PICK hm : hm = [in |-> TRUE, refcnt |-> 1, del |-> FALSE]
      BY Zenon
    <3>2. hm \in [in : BOOLEAN, refcnt : {hm.refcnt}, del : {hm.del}]
      BY <3>1, Zenon
    <3>3. HandleOK(rpcc', hm)
      BY <1>4, <2>7, <2>9, <2>10, <3>2, Zenon DEF HandleOK
    <3> QED
      BY <2>2, <3>1, <3>3, Zenon
  <2>13. hlock' # t
    BY <2>2, RpcAssumption, Zenon
  <2> QED
    BY <1>2, <1>7, <2>2, <2>9, <2>10, <2>11, <2>12, <2>13, Leaves, Zenon
<1> QED
  BY <1>5, <1>6, <1>7, Zenon

(***************************************************************************)
(* The steps of the server.                                                *)
(***************************************************************************)
LEMMA OneWorker ==
  ASSUME NEW rs, NEW cs, NEW n, NEW rn, NEW win, NEW ws, WorkersOK(rs, cs, n, rn, win, ws),
         NEW w \in Worker, NEW s, WorkerOK(rs, cs, n, rn, win, s),
         s.at = "run" /\ s.h.xid # 1 => \A v \in Worker \ {w} :
           ~(ws[v].at = "run" /\ ws[v].h.clt = s.h.clt /\ ws[v].h.xid = s.h.xid)
  PROVE  WorkersOK(rs, cs, n, rn, win, [ws EXCEPT ![w] = s])
<1>1. PICK us : us = [ws EXCEPT ![w] = s]
  BY Zenon
<1>2. DOMAIN us = Worker /\ us[w] = s /\ \A v \in Worker \ {w} : us[v] = ws[v]
  BY <1>1, Zenon DEF WorkersOK
<1>3. \A v \in Worker : WorkerOK(rs, cs, n, rn, win, us[v])
  BY <1>2, Zenon DEF WorkersOK
<1>4. OneRuns(us)
  BY <1>2 DEF WorkersOK, OneRuns
<1> QED
  BY <1>1, <1>2, <1>3, <1>4, Zenon DEF WorkersOK

\* A step that leaves the window and the history as they are.
LEMMA ServerMoves ==
  ASSUME RpcInv, UNCHANGED <<clientVars, nonce, ran, window>>,
         ConnsOK(rpcc, nonce, ran, conn'), SameConns(conn, conn'),
         JobsOK(rpcc, conn, jobs'), SavedOK(conn, conns'),
         WorkersOK(rpcc, conn, nonce, ran, window, wk')
  PROVE  RpcInv'
<1>1. Later(rpcc, nonce, ran, rpcc, nonce, ran) /\ ConnsOK(rpcc, nonce, ran, conn)
  <2>1. ConnsOK(rpcc, nonce, ran, conn)
    BY Zenon DEF RpcInv
  <2> QED
    BY <2>1, NothingLater, Zenon
<1>2. JobsOK(rpcc, conn', jobs')
  BY <1>1, JobsStay, Zenon
<1>3. WorkersOK(rpcc, conn', nonce, ran, window, wk')
  BY <1>1, WorkersStay, Zenon
<1>4. SavedOK(conn', conns')
  BY SavedStay, Zenon
<1>5. WindowOK(ran, window) /\ RanOK(rpcc, nonce, ran, window)
  BY Zenon DEF RpcInv
<1> QED
  BY <1>2, <1>3, <1>4, <1>5, ServerStep, Zenon

\* What a step of the server starts from.
LEMMA ServerStays ==
  ASSUME RpcInv
  PROVE  /\ ConnsOK(rpcc, nonce, ran, conn) /\ SameConns(conn, conn)
         /\ JobsOK(rpcc, conn, jobs) /\ SavedOK(conn, conns)
         /\ WorkersOK(rpcc, conn, nonce, ran, window, wk)
         /\ nonce \in 1..nonce /\ nonce \in Nat
BY DEF RpcInv, SameConns

\* Clients are numbered within the bound.
LEMMA ClientIds ==
  ASSUME RpcInv
  PROVE  DOMAIN rpcc \subseteq ClientId
<1>1. PICK S : rpcc \in Seq(S)
  BY Zenon DEF RpcInv, ClientsOK, IsSeq
<1>2. Len(rpcc) <= MaxClients /\ Len(rpcc) \in Nat /\ DOMAIN rpcc = 1..Len(rpcc)
  BY <1>1 DEF RpcInv, ClientsOK
<1> QED
  BY <1>2, RpcAssumption DEF ClientId

\* What is known of a pool thread with a job.
LEMMA WorkerBusy ==
  ASSUME RpcInv, NEW w \in Worker, wk[w].at # "idle"
  PROVE  BusyOK(rpcc, conn, nonce, ran, window, wk[w]) /\ Busy(wk[w])
<1>1. BusyOK(rpcc, conn, nonce, ran, window, wk[w])
  <2>1. WorkerOK(rpcc, conn, nonce, ran, window, wk[w])
    BY ServerStays, Zenon DEF WorkersOK
  <2>2. wk[w] # Idle
    BY SMT DEF Idle
  <2> QED
    BY <2>1, <2>2, Zenon DEF WorkerOK
<1>2. /\ wk[w] \in [at : {"check", "dup", "run", "reply", "send"}, c : {wk[w].c}, h : {wk[w].h}]
      /\ JobOK(rpcc, conn, wk[w])
  BY <1>1, Zenon DEF BusyOK
<1>3. wk[w].c \in DOMAIN conn /\ HeaderOK(rpcc, conn[wk[w].c].clt, wk[w].h)
  BY <1>2, Zenon DEF JobOK
<1>4. conn[wk[w].c].clt = wk[w].h.clt /\ wk[w].h.xid \in Xid
  BY <1>3, Zenon DEF HeaderOK
<1>5. wk[w].h.clt \in DOMAIN rpcc
  BY <1>3, <1>4, ServerStays, Zenon DEF ConnsOK, ConnOK
<1> QED
  BY <1>1, <1>2, <1>3, <1>4, <1>5, ClientIds, Zenon DEF Busy

\* A pool thread is done with its job.
LEMMA GoesIdle ==
  ASSUME RpcInv, NEW w \in Worker, wk' = [wk EXCEPT ![w] = Idle]
  PROVE  WorkersOK(rpcc, conn, nonce, ran, window, wk')
<1>1. WorkerOK(rpcc, conn, nonce, ran, window, Idle) /\ Idle.at # "run"
  BY Zenon DEF WorkerOK, Idle
<1>2. WorkersOK(rpcc, conn, nonce, ran, window, [wk EXCEPT ![w] = Idle])
  BY <1>1, ServerStays, OneWorker, Zenon
<1> QED
  BY <1>2, Zenon

\* A pool thread takes a job.
LEMMA StepTakeJob ==
  ASSUME RpcInv, NEW w \in Worker, takeJob(w)
  PROVE  RpcInv'
<1>1. PICK j, s : j = Head(jobs) /\ s = [at |-> "check", c |-> j.c, h |-> j.h]
  BY Zenon
<1>2. /\ jobs # <<>> /\ jobs' = Tail(jobs) /\ wk' = [wk EXCEPT ![w] = s]
      /\ UNCHANGED <<clientVars, window, conns, conn, nonce, ran>>
  BY <1>1, Zenon DEF takeJob, deq
<1>3. JobsOK(rpcc, conn, jobs)
  BY ServerStays, Zenon
<1>4. Part(jobs, Tail(jobs)) /\ \E i \in DOMAIN jobs : j = jobs[i]
  BY <1>1, <1>2, <1>3, TailPart, Zenon DEF JobsOK
<1>5. JobsOK(rpcc, conn, jobs') /\ JobOK(rpcc, conn, j)
  BY <1>2, <1>3, <1>4, Zenon DEF JobsOK, Part
<1>6. WorkerOK(rpcc, conn, nonce, ran, window, s) /\ s.at # "run"
  <2>1. s \in [at : {"check", "dup", "run", "reply", "send"}, c : {s.c}, h : {s.h}]
    BY <1>1, Zenon
  <2>2. s.at = "check" /\ s.c = j.c /\ s.h = j.h
    BY <1>1, Zenon
  <2>3. JobOK(rpcc, conn, s)
    BY <1>5, <2>2, Zenon DEF JobOK
  <2> QED
    BY <2>1, <2>2, <2>3, Zenon DEF WorkerOK, BusyOK
<1>7. WorkersOK(rpcc, conn, nonce, ran, window, [wk EXCEPT ![w] = s])
  BY <1>6, ServerStays, OneWorker, Zenon
<1> QED
  BY <1>2, <1>5, <1>7, ServerStays, ServerMoves, Zenon

\* The server reads a request: it is queued, or kept in rpdu.
LEMMA Reads ==
  ASSUME NEW rs, NEW n, NEW rn, NEW cs, ConnsOK(rs, n, rn, cs), NEW c \in DOMAIN cs,
         NEW q, Part(cs[c].up, q), NEW p, p = NoPdu \/ HeaderOK(rs, cs[c].clt, p), NEW m,
         NEW ds, ds = [cs EXCEPT ![c] = [@ EXCEPT !.ref = m, !.rpdu = p, !.up = q]]
  PROVE  ConnsOK(rs, n, rn, ds) /\ SameConns(cs, ds)
<1>1. PICK y, x : y = cs[c] /\ x = [y EXCEPT !.ref = m, !.rpdu = p, !.up = q]
  BY Zenon
<1>2. ConnOK(rs, n, rn, y)
  BY <1>1, Zenon DEF ConnsOK
<1>3. /\ x \in [clt : DOMAIN rs, inst : {x.inst}, cdead : BOOLEAN, sdead : BOOLEAN,
                up : {x.up}, down : {x.down}, rpdu : {x.rpdu}, ref : {x.ref}]
      /\ x.clt = y.clt /\ x.up = q /\ x.down = y.down /\ x.rpdu = p
  BY <1>1, <1>2, Zenon DEF ConnOK
<1>4. IsSeq(x.up) /\ \A i \in DOMAIN x.up : HeaderOK(rs, x.clt, x.up[i])
  BY <1>1, <1>2, <1>3 DEF Part, ConnOK
<1>5. ConnOK(rs, n, rn, x)
  BY <1>1, <1>2, <1>3, <1>4 DEF ConnOK
<1>6. ConnsOK(rs, n, rn, [cs EXCEPT ![c] = x]) /\ SameConns(cs, [cs EXCEPT ![c] = x])
  BY <1>1, <1>3, <1>5, OneConn, Zenon
<1> QED
  BY <1>1, <1>6, Zenon

\* The server reads a request, and queues it where there is room.
LEMMA StepReadCb ==
  ASSUME RpcInv, NEW c \in DOMAIN conn, read_cb(c)
  PROVE  RpcInv'
<1>1. PICK y : y = conn[c]
  BY Zenon
<1>2. PICK held : held = (y.rpdu # NoPdu)
  BY Zenon
<1>3. PICK pdu : pdu = IF held THEN y.rpdu ELSE Head(y.up)
  BY Zenon
<1>4. PICK rest : rest = IF held THEN y.up ELSE Tail(y.up)
  BY Zenon
<1>5. /\ y.up # <<>> \/ held
      /\ \/ got_pdu(c, pdu, rest)
         \/ /\ conn' = [conn EXCEPT ![c].rpdu = pdu, ![c].up = rest]
            /\ UNCHANGED jobs
      /\ UNCHANGED <<clientVars, window, conns, wk, nonce, ran>>
  BY <1>1, <1>2, <1>3, <1>4, Zenon DEF read_cb
<1>6. ConnsOK(rpcc, nonce, ran, conn) /\ ConnOK(rpcc, nonce, ran, y)
  BY <1>1, ServerStays, Zenon DEF ConnsOK
<1>7. Part(y.up, rest) /\ HeaderOK(rpcc, y.clt, pdu)
  <2>1. CASE held
    BY <1>2, <1>3, <1>4, <1>6, <2>1, Zenon DEF ConnOK, Part
  <2>2. CASE ~held
    <3>1. Part(y.up, Tail(y.up)) /\ \E j \in DOMAIN y.up : Head(y.up) = y.up[j]
      BY <1>5, <1>6, <2>2, TailPart, Zenon DEF ConnOK
    <3> QED
      BY <1>3, <1>4, <1>6, <2>2, <3>1, Zenon DEF ConnOK
  <2> QED
    BY <2>1, <2>2, Zenon
<1>8. CASE got_pdu(c, pdu, rest)
  <2>1. PICK j : j = [c |-> c, h |-> pdu]
    BY Zenon
  <2>2. jobs' = Append(jobs, j) /\ conn' = [incref(conn, c) EXCEPT ![c].rpdu = NoPdu, ![c].up = rest]
    BY <1>8, <2>1, Zenon DEF got_pdu, enq
  <2>3. More(jobs, j, jobs') /\ JobsOK(rpcc, conn, jobs)
    BY <2>2, OneMore, ServerStays, Zenon DEF JobsOK
  <2>4. JobOK(rpcc, conn, j)
    BY <1>1, <1>7, <2>1, Zenon DEF JobOK
  <2>5. JobsOK(rpcc, conn, jobs')
    BY <2>3, <2>4, Zenon DEF JobsOK, More
  <2>6. PICK m : m = conn[c].ref + 1
    BY Zenon
  <2>7. conn' = [conn EXCEPT ![c] = [@ EXCEPT !.ref = m, !.rpdu = NoPdu, !.up = rest]]
    BY <2>2, <2>6, Zenon DEF incref
  <2>8. ConnsOK(rpcc, nonce, ran, conn') /\ SameConns(conn, conn')
    BY <1>1, <1>6, <1>7, <2>7, Reads, Zenon
  <2> QED
    BY <1>5, <2>5, <2>8, ServerStays, ServerMoves, Zenon
<1>9. CASE conn' = [conn EXCEPT ![c].rpdu = pdu, ![c].up = rest] /\ UNCHANGED jobs
  <2>1. PICK m : m = conn[c].ref
    BY Zenon
  <2>2. conn' = [conn EXCEPT ![c] = [@ EXCEPT !.ref = m, !.rpdu = pdu, !.up = rest]]
    BY <1>1, <1>6, <1>9, <2>1, Zenon DEF ConnOK
  <2>3. ConnsOK(rpcc, nonce, ran, conn') /\ SameConns(conn, conn')
    BY <1>1, <1>6, <1>7, <2>2, Reads, Zenon
  <2> QED
    BY <1>5, <1>9, <2>3, ServerStays, ServerMoves, Zenon
<1> QED
  BY <1>5, <1>8, <1>9, Zenon

\* dispatch saves the client's latest connection.
LEMMA Saves ==
  ASSUME RpcInv, NEW h, h.clt \in ClientId, NEW c \in DOMAIN conn
  PROVE  ConnsOK(rpcc, nonce, ran, Saved(h, c)) /\ SameConns(conn, Saved(h, c))
<1>1. PICK old : old = conns[h.clt]
  BY Zenon
<1>2. PICK drop : drop = IF old = 0 THEN conn ELSE decref(conn, old)
  BY Zenon
<1>3. old = 0 \/ old \in DOMAIN conn
  BY <1>1, ServerStays, Zenon DEF SavedOK
<1>4. ConnsOK(rpcc, nonce, ran, drop) /\ SameConns(conn, drop)
  BY <1>2, <1>3, ServerStays, Counted, Zenon
<1>5. c \in DOMAIN drop
  BY <1>4, Zenon DEF SameConns
<1>6. ConnsOK(rpcc, nonce, ran, incref(drop, c)) /\ SameConns(drop, incref(drop, c))
  BY <1>4, <1>5, Counted, Zenon
<1>7. SameConns(conn, incref(drop, c))
  BY <1>4, <1>6, SameTwice, Zenon
<1>8. Saved(h, c) = IF old = c THEN conn ELSE incref(drop, c)
  BY <1>1, <1>2, Zenon DEF Saved
<1> QED
  BY <1>6, <1>7, <1>8, ServerStays, Zenon

\* The xid of a header is one the client has drawn.
LEMMA HeaderDrawn ==
  ASSUME NEW rs, NEW k, NEW h, HeaderOK(rs, k, h)
  PROVE  h.xid \in Nat /\ h.xid # 0 /\ h.xid < rs[k].xid
BY DEF HeaderOK, Xid

\* dispatch refuses a request to an earlier incarnation, or goes on to the check for duplicates.
LEMMA StepDispatch ==
  ASSUME RpcInv, NEW w \in Worker, dispatch(w)
  PROVE  RpcInv'
<1>1. PICK h, c : h = wk[w].h /\ c = wk[w].c
  BY Zenon
<1>2. wk[w].at = "check" /\ UNCHANGED <<clientVars, window, jobs, nonce, ran>>
  BY Zenon DEF dispatch
<1>3. Busy(wk[w])
  BY <1>2, WorkerBusy, Zenon
<1>4. /\ c \in DOMAIN conn /\ conn[c].clt = h.clt /\ h.clt \in ClientId
      /\ HeaderOK(rpcc, h.clt, h)
  BY <1>1, <1>3, Zenon DEF Busy
<1>5. CASE isold(h)
  <2>1. PICK r, cs : r = Reply(h, "oldsrv") /\ cs = Sent(conn, c, r)
    BY Zenon
  <2>2. conn' = incref(cs, c) /\ wk' = [wk EXCEPT ![w] = Idle] /\ UNCHANGED conns
    BY <1>1, <1>5, <2>1, Zenon DEF dispatch
  <2>3. ReplyOK(rpcc, nonce, ran, conn[c].clt, r)
    BY <1>4, <2>1, ServerStays, HeaderDrawn, Zenon DEF ReplyOK, Reply
  <2>4. ConnsOK(rpcc, nonce, ran, cs) /\ SameConns(conn, cs)
    BY <1>4, <2>1, <2>3, ServerStays, SentReply, Zenon
  <2>5. c \in DOMAIN cs
    BY <1>4, <2>4, Zenon DEF SameConns
  <2>6. ConnsOK(rpcc, nonce, ran, conn') /\ SameConns(cs, conn')
    BY <2>2, <2>4, <2>5, Counted, Zenon
  <2>7. SameConns(conn, conn')
    BY <2>4, <2>6, SameTwice, Zenon
  <2> QED
    BY <1>2, <2>2, <2>6, <2>7, ServerStays, GoesIdle, ServerMoves, Zenon
<1>6. CASE ~isold(h)
  <2>1. PICK s : s = [wk[w] EXCEPT !.at = "dup"]
    BY Zenon
  <2>2. /\ conn' = Saved(h, c) /\ conns' = [conns EXCEPT ![h.clt] = c]
        /\ wk' = [wk EXCEPT ![w] = s]
    BY <1>1, <1>6, <2>1, Zenon DEF dispatch
  <2>3. ConnsOK(rpcc, nonce, ran, conn') /\ SameConns(conn, conn')
    BY <1>4, <2>2, Saves, Zenon
  <2>4. SavedOK(conn, conns')
    BY <1>4, <2>2, ServerStays, Zenon DEF SavedOK
  <2>5. /\ s \in [at : {"check", "dup", "run", "reply", "send"}, c : {s.c}, h : {s.h}]
        /\ s.c = c /\ s.h = h /\ s.at = "dup"
    BY <1>1, <1>3, <2>1, Zenon DEF Busy
  <2>6. JobOK(rpcc, conn, s)
    BY <1>4, <2>5, Zenon DEF JobOK
  <2>7. h.xid # 1 => h.srv = nonce
    BY <1>4, <1>6, Zenon DEF HeaderOK, isold
  <2>8. WorkerOK(rpcc, conn, nonce, ran, window, s) /\ s.at # "run"
    BY <2>5, <2>6, <2>7, Zenon DEF WorkerOK, BusyOK
  <2>9. WorkersOK(rpcc, conn, nonce, ran, window, [wk EXCEPT ![w] = s])
    BY <2>8, ServerStays, OneWorker, Zenon
  <2> QED
    BY <1>2, <2>2, <2>3, <2>4, <2>9, ServerStays, ServerMoves, Zenon
<1> QED
  BY <1>5, <1>6, Zenon

\* The replies of a handler that has run.
LEMMA AnswersOK ==
  ASSUME RpcInv, NEW h, HeaderOK(rpcc, h.clt, h), h.clt \in DOMAIN rpcc,
         h.xid # 1 => ran[<<h.clt, h.xid>>] = 1, NEW r \in Answers(h)
  PROVE  ReplyOK(rpcc, nonce, ran, h.clt, r)
<1>1. nonce \in 1..nonce
  BY ServerStays, Zenon
<1>2. CASE r = Reply(h, "ok")
  BY <1>1, <1>2, HeaderDrawn, Zenon DEF ReplyOK, Reply
<1>3. CASE r = [Reply(h, "ok") EXCEPT !.xid = 0]
  <2>1. r.xid = 0 /\ r.val = nonce /\ r.ret = "ok"
    BY <1>3, Zenon DEF Reply
  <2>2. r.xid \notin Xid
    BY <2>1 DEF Xid
  <2>3. 0 < rpcc[h.clt].xid
    BY DEF RpcInv, ClientsOK, ClientOK
  <2> QED
    BY <1>1, <2>1, <2>2, <2>3 DEF ReplyOK
<1> QED
  BY <1>2, <1>3, Zenon DEF Answers

\* A reply to the request of a pool thread goes out on its connection.
LEMMA Answered ==
  ASSUME RpcInv, NEW w \in Worker, wk[w].at # "idle", NEW r,
         ReplyOK(rpcc, nonce, ran, wk[w].h.clt, r), conn' = Sent(conn, wk[w].c, r)
  PROVE  ConnsOK(rpcc, nonce, ran, conn') /\ SameConns(conn, conn')
<1>1. PICK c : c = wk[w].c
  BY Zenon
<1>2. c \in DOMAIN conn /\ conn[c].clt = wk[w].h.clt
  BY <1>1, WorkerBusy, Zenon DEF Busy
<1>3. ReplyOK(rpcc, nonce, ran, conn[c].clt, r)
  BY <1>2, Zenon
<1>4. ConnsOK(rpcc, nonce, ran, Sent(conn, c, r)) /\ SameConns(conn, Sent(conn, c, r))
  BY <1>2, <1>3, ServerStays, SentReply, Zenon
<1> QED
  BY <1>1, <1>4, Zenon

\* Nothing is sent or counted on a connection that does not exist.
LEMMA Outside ==
  ASSUME NEW cs, NEW c, c \notin DOMAIN cs, cs = [d \in DOMAIN cs |-> cs[d]], NEW r
  PROVE  incref(cs, c) = cs /\ Sent(cs, c, r) = cs
<1>1. incref(cs, c) = cs
  BY Zenon DEF incref
<1>2. decref(cs, c) = cs
  BY Zenon DEF decref
<1>3. Sent(cs, c, r) = cs
  BY <1>2, Zenon DEF Sent
<1> QED
  BY <1>1, <1>3, Zenon

\* The reply goes out, on the latest connection where its own is dead.
LEMMA StepSendReply ==
  ASSUME RpcInv, NEW w \in Worker, SendReply(w)
  PROVE  RpcInv'
<1>1. PICK h, c : h = wk[w].h /\ c = wk[w].c
  BY Zenon
<1>2. PICK latest : latest = conns[h.clt]
  BY Zenon
<1>3. PICK moved : moved = (conn[c].sdead /\ c # latest)
  BY Zenon
<1>4. PICK cs : cs = IF moved THEN incref(decref(conn, c), latest) ELSE conn
  BY Zenon
<1>5. PICK r \in Answers(h) :
        /\ wk[w].at = "send" /\ conn' = Sent(cs, IF moved THEN latest ELSE c, r)
        /\ wk' = [wk EXCEPT ![w] = Idle]
        /\ UNCHANGED <<clientVars, window, conns, jobs, nonce, ran>>
  BY <1>1, <1>2, <1>3, <1>4, Zenon DEF SendReply
<1>6. BusyOK(rpcc, conn, nonce, ran, window, wk[w]) /\ Busy(wk[w])
  BY <1>5, WorkerBusy, Zenon
<1>7. c \in DOMAIN conn /\ conn[c].clt = h.clt /\ h.clt \in ClientId
  BY <1>1, <1>6, Zenon DEF Busy
<1>8. h.xid # 1 => ran[<<h.clt, h.xid>>] = 1
  BY <1>1, <1>5, <1>6, Zenon DEF BusyOK
<1>9. ReplyOK(rpcc, nonce, ran, h.clt, r)
  BY <1>1, <1>5, <1>6, <1>8, AnswersOK, Zenon DEF Busy
<1>10. ConnsOK(rpcc, nonce, ran, conn') /\ SameConns(conn, conn')
  <2>1. CASE ~moved
    BY <1>1, <1>4, <1>5, <1>9, <2>1, Answered, Zenon
  <2>2. CASE moved
    <3>1. PICK ds : ds = decref(conn, c)
      BY Zenon
    <3>2. ConnsOK(rpcc, nonce, ran, ds) /\ SameConns(conn, ds)
      BY <1>7, <3>1, ServerStays, Counted, Zenon
    <3>3. cs = incref(ds, latest) /\ conn' = Sent(cs, latest, r)
      BY <1>4, <1>5, <2>2, <3>1, Zenon
    <3>4. CASE latest \in DOMAIN ds
      <4>1. ConnsOK(rpcc, nonce, ran, cs) /\ SameConns(ds, cs)
        BY <3>2, <3>3, <3>4, Counted, Zenon
      <4>2. latest \in DOMAIN conn /\ conn[latest].clt = h.clt
        <5>1. latest # 0
          <6>1. PICK S : ds \in Seq(S)
            BY <3>2, Zenon DEF ConnsOK, IsSeq
          <6> QED
            BY <3>4, <6>1
        <5> QED
          BY <1>2, <1>7, <5>1, ServerStays, Zenon DEF SavedOK
      <4>3. latest \in DOMAIN cs /\ cs[latest].clt = h.clt
        BY <3>2, <3>4, <4>1, <4>2, Zenon DEF SameConns
      <4>4. ConnsOK(rpcc, nonce, ran, conn') /\ SameConns(cs, conn')
        BY <1>9, <3>3, <4>1, <4>3, SentReply, Zenon
      <4>5. SameConns(conn, cs)
        BY <3>2, <4>1, SameTwice, Zenon
      <4> QED
        BY <4>4, <4>5, SameTwice, Zenon
    <3>5. CASE latest \notin DOMAIN ds
      <4>1. ds = [d \in DOMAIN ds |-> ds[d]]
        <5>1. PICK S : ds \in Seq(S)
          BY <3>2, Zenon DEF ConnsOK, IsSeq
        <5> QED
          BY <5>1
      <4>2. cs = ds
        BY <3>3, <3>5, <4>1, Outside, Zenon
      <4>3. conn' = ds
        BY <3>3, <3>5, <4>1, <4>2, Outside
      <4> QED
        BY <3>2, <4>3, Zenon
    <3> QED
      BY <3>4, <3>5, Zenon
  <2> QED
    BY <2>1, <2>2, Zenon
<1> QED
  BY <1>5, <1>10, GoesIdle, ServerStays, ServerMoves, Zenon

\* The server forgets no call.
LEMMA Remembers ==
  ASSUME RpcInv,
         \A k \in ClientId, x \in Xid : Present(window[k], x) => Present(window'[k], x)
  PROVE  /\ WorkersOK(rpcc, conn, nonce, ran, window', wk)
         /\ RanOK(rpcc, nonce, ran, window')
<1>1. ASSUME NEW v \in Worker PROVE WorkerOK(rpcc, conn, nonce, ran, window', wk[v])
  <2>1. CASE wk[v].at = "idle"
    BY <2>1, ServerStays, Zenon DEF WorkersOK, WorkerOK, BusyOK
  <2>2. CASE wk[v].at # "idle"
    <3>1. BusyOK(rpcc, conn, nonce, ran, window, wk[v]) /\ Busy(wk[v])
      BY <2>2, WorkerBusy, Zenon
    <3>2. wk[v].h.clt \in ClientId /\ wk[v].h.xid \in Xid
      BY <3>1, Zenon DEF Busy
    <3>3. Present(window[wk[v].h.clt], wk[v].h.xid) => Present(window'[wk[v].h.clt], wk[v].h.xid)
      BY <3>2, Zenon
    <3> QED
      BY <3>1, <3>3, Zenon DEF WorkerOK, BusyOK
  <2> QED
    BY <2>1, <2>2, Zenon
<1>2. WorkersOK(rpcc, conn, nonce, ran, window', wk)
  BY <1>1, ServerStays, Zenon DEF WorkersOK
<1>3. RanOK(rpcc, nonce, ran, window')
  BY Zenon DEF RpcInv, RanOK
<1> QED
  BY <1>2, <1>3, Zenon

Entries == [xid : Xid, cb : BOOLEAN, buf : BOOLEAN]

\* The window of client k becomes q.
LEMMA Restored ==
  ASSUME RpcInv, NEW k \in ClientId, NEW q \in Seq(Entries),
         window' = [window EXCEPT ![k] = q],
         \A x \in Xid : Present(window[k], x) => Present(q, x),
         \A i \in DOMAIN q : q[i].cb /\ q[i].xid # 1 => ran[<<k, q[i].xid>>] = 1
  PROVE  /\ WindowOK(ran, window') /\ window'[k] = q
         /\ \A j \in ClientId, x \in Xid : Present(window[j], x) => Present(window'[j], x)
<1>1. WindowOK(ran, window)
  BY Zenon DEF RpcInv
<1>2. window' \in [ClientId -> Seq(Entries)] /\ window'[k] = q
      /\ \A j \in ClientId \ {k} : window'[j] = window[j]
  BY <1>1, Zenon DEF WindowOK, Entries
<1>3. \A j \in ClientId : \A i \in DOMAIN window'[j] :
        window'[j][i].cb /\ window'[j][i].xid # 1 => ran[<<j, window'[j][i].xid>>] = 1
  BY <1>1, <1>2 DEF WindowOK
<1>4. WindowOK(ran, window')
  BY <1>2, <1>3, Zenon DEF WindowOK, Entries
<1>5. \A j \in ClientId, x \in Xid : Present(window[j], x) => Present(window'[j], x)
  BY <1>2, Zenon
<1> QED
  BY <1>2, <1>4, <1>5, Zenon

\* checkduplicate_and_update stores the new entry after those it had.
LEMMA Stores ==
  ASSUME RpcInv, NEW h, h.clt \in ClientId, h.xid \in Xid
  PROVE  /\ Stored(h) \in Seq(Entries)
         /\ Present(Stored(h), h.xid)
         /\ \A x \in Xid : Present(window[h.clt], x) => Present(Stored(h), x)
         /\ \A i \in DOMAIN Stored(h) : Stored(h)[i].cb /\ Stored(h)[i].xid # 1 =>
              ran[<<h.clt, Stored(h)[i].xid>>] = 1
<1>1. PICK k, W : k = h.clt /\ W = window[k]
  BY Zenon
<1>2. PICK F : F = [i \in DOMAIN W |-> IF W[i].xid <= h.xid_rep
                                       THEN [W[i] EXCEPT !.cb = FALSE, !.buf = FALSE]
                                       ELSE W[i]]
  BY Zenon
<1>3. PICK e : e = [xid |-> h.xid, cb |-> FALSE, buf |-> FALSE]
  BY Zenon
<1>4. Stored(h) = Append(F, e)
  BY <1>1, <1>2, <1>3, Zenon DEF Stored
<1>5. /\ W \in Seq(Entries)
      /\ \A i \in DOMAIN W : W[i].cb /\ W[i].xid # 1 => ran[<<k, W[i].xid>>] = 1
  BY <1>1, Zenon DEF RpcInv, WindowOK, Entries
<1>6. \A i \in DOMAIN W : F[i] \in Entries /\ F[i].xid = W[i].xid /\ (F[i].cb => W[i].cb)
  <2>1. SUFFICES ASSUME NEW i \in DOMAIN W
                 PROVE  F[i] \in Entries /\ F[i].xid = W[i].xid /\ (F[i].cb => W[i].cb)
    BY Zenon
  <2>2. W[i] \in Entries
    BY <1>5
  <2>3. PICK y : y = W[i]
    BY Zenon
  <2>4. F[i] = y \/ F[i] = [y EXCEPT !.cb = FALSE, !.buf = FALSE]
    BY <1>2, <2>3, Zenon
  <2> QED
    BY <2>2, <2>3, <2>4, Zenon DEF Entries
<1>7. F \in Seq(Entries) /\ DOMAIN F = DOMAIN W
  <2>1. DOMAIN W = 1..Len(W) /\ Len(W) \in Nat
    BY <1>5
  <2>2. F \in [1..Len(W) -> Entries]
    BY <1>2, <1>6, <2>1, Zenon
  <2> QED
    BY <2>1, <2>2
<1>8. e \in Entries /\ e.xid = h.xid /\ ~e.cb
  BY <1>3, Zenon DEF Entries
<1>9. PICK q : q = Append(F, e)
  BY Zenon
<1>10. /\ q \in Seq(Entries) /\ DOMAIN q = 1..(Len(F) + 1) /\ DOMAIN F = 1..Len(F) /\ Len(F) \in Nat
       /\ q[Len(F) + 1] = e /\ \A i \in 1..Len(F) : q[i] = F[i]
  BY <1>7, <1>8, <1>9
<1>11. Len(F) + 1 \in DOMAIN q /\ DOMAIN F \subseteq DOMAIN q
       /\ \A i \in DOMAIN q : i = Len(F) + 1 \/ i \in DOMAIN F
  BY <1>10
<1>12. Present(q, h.xid)
  BY <1>8, <1>10, <1>11, Zenon DEF Present
<1>13. \A x \in Xid : Present(W, x) => Present(q, x)
  BY <1>6, <1>7, <1>10, <1>11, Zenon DEF Present
<1>14. \A i \in DOMAIN q : q[i].cb /\ q[i].xid # 1 => ran[<<k, q[i].xid>>] = 1
  <2>1. SUFFICES ASSUME NEW i \in DOMAIN q, q[i].cb, q[i].xid # 1
                 PROVE  ran[<<k, q[i].xid>>] = 1
    BY Zenon
  <2>2. i \in DOMAIN W /\ q[i] = F[i]
    BY <1>7, <1>8, <1>10, <1>11, <2>1, Zenon
  <2>3. q[i].xid = W[i].xid /\ W[i].cb
    BY <1>6, <2>1, <2>2, Zenon
  <2> QED
    BY <1>5, <2>1, <2>2, <2>3, Zenon
<1>15. q = Stored(h) /\ q \in Seq(Entries)
  BY <1>4, <1>9, <1>10, ZenonT(30)
<1> QED
  BY <1>1, <1>12, <1>13, <1>14, <1>15, Zenon

\* A new request: nobody runs it, and it has not run.
LEMMA StepNew ==
  ASSUME RpcInv, NEW w \in Worker, NEW h, h = wk[w].h, wk[w].at = "dup",
         rpcstate(h) = "NEW", window' = [window EXCEPT ![h.clt] = Stored(h)],
         wk' = [wk EXCEPT ![w].at = "run"],
         UNCHANGED <<clientVars, conn, conns, jobs, nonce, ran>>
  PROVE  RpcInv'
<1>1. BusyOK(rpcc, conn, nonce, ran, window, wk[w]) /\ Busy(wk[w])
  BY WorkerBusy, Zenon
<1>2. /\ h.clt \in ClientId /\ h.xid \in Xid /\ h.clt \in DOMAIN rpcc
      /\ HeaderOK(rpcc, h.clt, h) /\ JobOK(rpcc, conn, wk[w])
      /\ h.xid # 1 => h.srv = nonce
  BY <1>1, Zenon DEF Busy, BusyOK
<1>3. ~Present(window[h.clt], h.xid)
  BY Zenon DEF rpcstate, Entry, Present
<1>4. h.xid # 1 => ran[<<h.clt, h.xid>>] = 0
  <2>1. HAVE h.xid # 1
  <2>2. rpcc[h.clt].srv = nonce
    BY <1>2, <2>1, Zenon DEF HeaderOK
  <2>3. ran[<<h.clt, h.xid>>] # 1
    BY <1>2, <1>3, <2>2, Zenon DEF RpcInv, RanOK
  <2>4. ran[<<h.clt, h.xid>>] \in {0, 1}
    BY <1>2, Zenon DEF RpcInv, RanOK
  <2> QED
    BY <2>3, <2>4, Zenon
<1>5. PICK q : q = Stored(h)
  BY Zenon
<1>6. /\ q \in Seq(Entries) /\ Present(q, h.xid)
      /\ \A x \in Xid : Present(window[h.clt], x) => Present(q, x)
      /\ \A i \in DOMAIN q : q[i].cb /\ q[i].xid # 1 => ran[<<h.clt, q[i].xid>>] = 1
  BY <1>2, <1>5, Stores, Zenon
<1>7. /\ WindowOK(ran, window') /\ window'[h.clt] = q
      /\ \A j \in ClientId, x \in Xid : Present(window[j], x) => Present(window'[j], x)
  <2>1. PICK k : k = h.clt
    BY Zenon
  <2>2. /\ k \in ClientId /\ window' = [window EXCEPT ![k] = q]
        /\ \A x \in Xid : Present(window[k], x) => Present(q, x)
        /\ \A i \in DOMAIN q : q[i].cb /\ q[i].xid # 1 => ran[<<k, q[i].xid>>] = 1
    BY <1>2, <1>5, <1>6, <2>1, Zenon
  <2>3. /\ WindowOK(ran, window') /\ window'[k] = q
        /\ \A j \in ClientId, x \in Xid : Present(window[j], x) => Present(window'[j], x)
    BY <1>6, <2>2, Restored, Zenon
  <2> QED
    BY <2>1, <2>3, Zenon
<1>8. WorkersOK(rpcc, conn, nonce, ran, window', wk) /\ RanOK(rpcc, nonce, ran, window')
  BY <1>7, Remembers, Zenon
<1>9. PICK s : s = [wk[w] EXCEPT !.at = "run"]
  BY Zenon
<1>10. /\ s \in [at : {"check", "dup", "run", "reply", "send"}, c : {s.c}, h : {s.h}]
       /\ s.c = wk[w].c /\ s.h = h /\ s.at = "run"
  BY <1>1, <1>9, Zenon DEF Busy
<1>11. WorkerOK(rpcc, conn, nonce, ran, window', s)
  <2>1. JobOK(rpcc, conn, s)
    BY <1>2, <1>10, Zenon DEF JobOK
  <2> QED
    BY <1>2, <1>4, <1>6, <1>7, <1>10, <2>1, Zenon DEF WorkerOK, BusyOK
<1>12. ASSUME NEW v \in Worker, wk[v].at = "run", wk[v].h.clt = h.clt, wk[v].h.xid = h.xid
       PROVE  FALSE
  <2>1. BusyOK(rpcc, conn, nonce, ran, window, wk[v])
    BY <1>12, WorkerBusy, Zenon
  <2>2. Present(window[wk[v].h.clt], wk[v].h.xid)
    BY <1>12, <2>1, Zenon DEF BusyOK
  <2> QED
    BY <1>3, <1>12, <2>2, Zenon
<1>13. WorkersOK(rpcc, conn, nonce, ran, window', [wk EXCEPT ![w] = s])
  <2>1. \A v \in Worker \ {w} :
          ~(wk[v].at = "run" /\ wk[v].h.clt = s.h.clt /\ wk[v].h.xid = s.h.xid)
    BY <1>10, <1>12, Zenon
  <2>2. PICK win : win = window'
    BY Zenon
  <2>3. WorkersOK(rpcc, conn, nonce, ran, win, [wk EXCEPT ![w] = s])
    BY <1>8, <1>11, <2>1, <2>2, OneWorker, Zenon
  <2> QED
    BY <2>2, <2>3, Zenon
<1>14. wk' = [wk EXCEPT ![w] = s]
  BY <1>9, Zenon
<1>15. /\ ConnsOK(rpcc, nonce, ran', conn') /\ SameConns(conn, conn')
       /\ JobsOK(rpcc, conn', jobs') /\ SavedOK(conn', conns')
  BY ServerStays, Zenon
<1> QED
  BY <1>7, <1>8, <1>13, <1>14, <1>15, ServerStep, Zenon

\* The verdicts of checkduplicate_and_update.
LEMMA StepCheckDuplicate ==
  ASSUME RpcInv, NEW w \in Worker, checkduplicate_and_update(w)
  PROVE  RpcInv'
<1>1. PICK h, c, stat : h = wk[w].h /\ c = wk[w].c /\ stat = rpcstate(h)
  BY Zenon
<1>2. wk[w].at = "dup" /\ UNCHANGED <<clientVars, conns, jobs, nonce, ran>>
  BY Zenon DEF checkduplicate_and_update
<1>6. HeaderOK(rpcc, h.clt, h) /\ h.clt \in DOMAIN rpcc
  BY <1>1, <1>2, WorkerBusy, Zenon DEF Busy
<1>3. CASE /\ stat = "NEW" /\ window' = [window EXCEPT ![h.clt] = Stored(h)]
           /\ wk' = [wk EXCEPT ![w].at = "run"] /\ UNCHANGED conn
  BY <1>1, <1>2, <1>3, StepNew, Zenon
<1>4. CASE /\ conn' = decref(conn, c) /\ wk' = [wk EXCEPT ![w] = Idle] /\ UNCHANGED window
  <2>1. c \in DOMAIN conn
    BY <1>1, <1>2, WorkerBusy, Zenon DEF Busy
  <2>2. ConnsOK(rpcc, nonce, ran, conn') /\ SameConns(conn, conn')
    BY <1>4, <2>1, ServerStays, Counted, Zenon
  <2> QED
    BY <1>2, <1>4, <2>2, GoesIdle, ServerStays, ServerMoves, Zenon
<1>5. CASE /\ stat \in {"DONE", "FORGOTTEN"}
           /\ \E r \in IF stat = "DONE" THEN Answers(h) ELSE {Reply(h, "forgotten")} :
                conn' = Sent(conn, c, r)
           /\ wk' = [wk EXCEPT ![w] = Idle] /\ UNCHANGED window
  <2>1. PICK r \in IF stat = "DONE" THEN Answers(h) ELSE {Reply(h, "forgotten")} :
          conn' = Sent(conn, c, r)
    BY <1>5, Zenon
  <2>2. ReplyOK(rpcc, nonce, ran, h.clt, r)
    <3>1. CASE stat = "DONE"
      <4>1. PICK i \in Entry(h) : window[h.clt][i].cb
        BY <1>1, <3>1, Zenon DEF rpcstate
      <4>2. i \in DOMAIN window[h.clt] /\ window[h.clt][i].xid = h.xid
        BY Zenon DEF Entry
      <4>3. h.clt \in ClientId
        BY <1>1, <1>2, WorkerBusy, Zenon DEF Busy
      <4>4. h.xid # 1 => ran[<<h.clt, h.xid>>] = 1
        BY <4>1, <4>2, <4>3, Zenon DEF RpcInv, WindowOK
      <4>5. r \in Answers(h)
        BY <2>1, <3>1, Zenon
      <4> QED
        BY <1>6, <4>4, <4>5, AnswersOK, Zenon
    <3>2. CASE stat # "DONE"
      <4>1. r = Reply(h, "forgotten")
        BY <2>1, <3>2, Zenon
      <4> QED
        BY <1>6, <4>1, ServerStays, HeaderDrawn, Zenon DEF ReplyOK, Reply
    <3> QED
      BY <3>1, <3>2, Zenon
  <2>3. ConnsOK(rpcc, nonce, ran, conn') /\ SameConns(conn, conn')
    BY <1>1, <1>2, <2>1, <2>2, Answered, Zenon
  <2> QED
    BY <1>2, <1>5, <2>3, GoesIdle, ServerStays, ServerMoves, Zenon
<1> QED
  BY <1>1, <1>3, <1>4, <1>5, Zenon DEF checkduplicate_and_update

\* The history of a call that has not run yet, h being its header.
LEMMA StepFn ==
  ASSUME RpcInv, NEW w \in Worker, fn(w)
  PROVE  RpcInv'
<1>1. PICK h, s : h = wk[w].h /\ s = [wk[w] EXCEPT !.at = "reply"]
  BY Zenon
<1>2. /\ wk[w].at = "run" /\ wk' = [wk EXCEPT ![w] = s]
      /\ ran' = IF h.xid = 1 THEN ran ELSE [ran EXCEPT ![<<h.clt, h.xid>>] = @ + 1]
      /\ UNCHANGED <<clientVars, window, conns, jobs, conn, nonce>>
  BY <1>1, Zenon DEF fn
<1>3. BusyOK(rpcc, conn, nonce, ran, window, wk[w]) /\ Busy(wk[w])
  BY <1>2, WorkerBusy, Zenon
<1>4. /\ h.clt \in ClientId /\ h.xid \in Xid /\ h.clt \in DOMAIN rpcc
      /\ HeaderOK(rpcc, h.clt, h) /\ JobOK(rpcc, conn, wk[w])
      /\ h.xid # 1 => h.srv = nonce /\ ran[<<h.clt, h.xid>>] = 0
      /\ Present(window[h.clt], h.xid)
  BY <1>1, <1>2, <1>3, Zenon DEF Busy, BusyOK
<1>5. PICK a, rn : a = <<h.clt, h.xid>> /\ rn = ran'
  BY Zenon
<1>6. ran \in [ClientId \X Xid -> {0, 1}] /\ a \in ClientId \X Xid
  BY <1>4, <1>5, Zenon DEF RpcInv, RanOK
<1>7. /\ rn \in [ClientId \X Xid -> {0, 1}]
      /\ \A b : b # a => rn[b] = ran[b]
      /\ h.xid # 1 => rn[a] = 1
      /\ h.xid = 1 => rn = ran
  <2>1. CASE h.xid = 1
    BY <1>2, <1>5, <1>6, <2>1, Zenon
  <2>2. CASE h.xid # 1
    <3>1. rn = [ran EXCEPT ![a] = ran[a] + 1] /\ ran[a] = 0
      BY <1>2, <1>4, <1>5, <2>2, Zenon
    <3>2. rn = [ran EXCEPT ![a] = 1]
      BY <3>1
    <3>3. rn[a] = 1 /\ rn \in [ClientId \X Xid -> {0, 1}]
      BY <1>6, <3>2, Zenon
    <3>4. ASSUME NEW b, b # a PROVE rn[b] = ran[b]
      BY <3>2, <3>4
    <3> QED
      BY <2>2, <3>3, <3>4, Zenon
  <2> QED
    BY <2>1, <2>2, Zenon
<1>8. \A b : ran[b] = 1 => rn[b] = 1
  BY <1>4, <1>5, <1>7, Zenon
<1>9. Later(rpcc, nonce, ran, rpcc, nonce, rn)
  <2>1. nonce \in Nat /\ nonce <= nonce
    BY DEF RpcInv
  <2> QED
    BY <1>8, <2>1, LaterSame, Zenon
<1>10. ConnsOK(rpcc, nonce, rn, conn)
  BY <1>9, ServerStays, ConnsStay, Zenon
<1>11. WindowOK(rn, window)
  BY <1>8, Zenon DEF RpcInv, WindowOK
<1>12. RanOK(rpcc, nonce, rn, window)
  <2>1. ASSUME NEW k \in ClientId, NEW x \in Xid, rn[<<k, x>>] = 1
        PROVE  /\ k \in DOMAIN rpcc /\ rpcc[k].srv # 0
               /\ rpcc[k].srv = nonce => Present(window[k], x)
    <3>1. CASE ran[<<k, x>>] = 1
      BY <3>1, Zenon DEF RpcInv, RanOK
    <3>2. CASE ran[<<k, x>>] # 1
      <4>1. <<k, x>> = a /\ h.xid # 1
        BY <1>7, <2>1, <3>2, Zenon
      <4>2. k = h.clt /\ x = h.xid
        BY <1>5, <4>1
      <4> QED
        BY <1>4, <4>1, <4>2, Zenon DEF HeaderOK
    <3> QED
      BY <3>1, <3>2, Zenon
  <2> QED
    BY <1>7, <2>1, Zenon DEF RanOK
<1>13. ASSUME NEW v \in Worker PROVE WorkerOK(rpcc, conn, nonce, rn, window, wk'[v])
  <2>1. CASE v = w
    <3>1. wk'[v] = s
      BY <1>2, <2>1, ServerStays, Zenon DEF WorkersOK
    <3>2. /\ s \in [at : {"check", "dup", "run", "reply", "send"}, c : {s.c}, h : {s.h}]
          /\ s.c = wk[w].c /\ s.h = h /\ s.at = "reply"
      BY <1>1, <1>3, Zenon DEF Busy
    <3>3. JobOK(rpcc, conn, s)
      BY <1>1, <1>4, <3>2, Zenon DEF JobOK
    <3>4. WorkerOK(rpcc, conn, nonce, rn, window, s)
      BY <1>4, <1>5, <1>7, <3>2, <3>3, Zenon DEF WorkerOK, BusyOK
    <3> QED
      BY <3>1, <3>4, Zenon
  <2>2. CASE v # w
    <3>1. wk'[v] = wk[v] /\ WorkerOK(rpcc, conn, nonce, ran, window, wk[v])
      BY <1>2, <2>2, ServerStays, Zenon DEF WorkersOK
    <3>2. wk[v].at = "run" /\ wk[v].h.xid # 1 => <<wk[v].h.clt, wk[v].h.xid>> # a
      BY <1>1, <1>2, <1>5, <2>2, ServerStays, Zenon DEF WorkersOK, OneRuns
    <3>3. WorkerOK(rpcc, conn, nonce, rn, window, wk[v])
      BY <1>7, <1>8, <3>1, <3>2, Zenon DEF WorkerOK, BusyOK
    <3> QED
      BY <3>1, <3>3, Zenon
  <2> QED
    BY <2>1, <2>2, Zenon
<1>14. WorkersOK(rpcc, conn, nonce, rn, window, wk')
  <2>1. s.at # "run"
    BY <1>1, <1>3, Zenon DEF Busy
  <2>2. DOMAIN wk' = Worker /\ wk'[w] = s /\ \A v \in Worker \ {w} : wk'[v] = wk[v]
    BY <1>2, ServerStays, Zenon DEF WorkersOK
  <2>3. OneRuns(wk')
    BY <2>1, <2>2, ServerStays, ZenonT(30) DEF OneRuns, WorkersOK
  <2> QED
    BY <1>13, <2>2, <2>3, Zenon DEF WorkersOK
<1> QED
  BY <1>2, <1>5, <1>8, <1>10, <1>11, <1>12, <1>14, ServerStays, ServerStep, Zenon

\* add_reply marks the entry of a call that has run.
LEMMA StepAddReply ==
  ASSUME RpcInv, NEW w \in Worker, add_reply(w)
  PROVE  RpcInv'
<1>1. PICK h, s : h = wk[w].h /\ s = [wk[w] EXCEPT !.at = "send"]
  BY Zenon
<1>2. PICK W : W = window[h.clt]
  BY Zenon
<1>3. PICK q : q = [i \in DOMAIN W |-> IF W[i].xid = h.xid
                                       THEN [W[i] EXCEPT !.cb = TRUE, !.buf = TRUE] ELSE W[i]]
  BY Zenon
<1>4. /\ wk[w].at = "reply" /\ wk' = [wk EXCEPT ![w] = s]
      /\ window' = [window EXCEPT ![h.clt] = q]
      /\ UNCHANGED <<clientVars, conns, jobs, conn, nonce, ran>>
  BY <1>1, <1>2, <1>3, Zenon DEF add_reply
<1>5. BusyOK(rpcc, conn, nonce, ran, window, wk[w]) /\ Busy(wk[w])
  BY <1>4, WorkerBusy, Zenon
<1>6. /\ h.clt \in ClientId /\ h.xid \in Xid /\ JobOK(rpcc, conn, wk[w])
      /\ h.xid # 1 => h.srv = nonce /\ ran[<<h.clt, h.xid>>] = 1
      /\ Present(window[h.clt], h.xid)
  BY <1>1, <1>4, <1>5, Zenon DEF Busy, BusyOK
<1>7. /\ W \in Seq(Entries)
      /\ \A i \in DOMAIN W : W[i].cb /\ W[i].xid # 1 => ran[<<h.clt, W[i].xid>>] = 1
  BY <1>2, <1>6, Zenon DEF RpcInv, WindowOK, Entries
<1>8. \A i \in DOMAIN W : /\ q[i] \in Entries /\ q[i].xid = W[i].xid
                          /\ q[i].cb => W[i].cb \/ W[i].xid = h.xid
  <2>1. SUFFICES ASSUME NEW i \in DOMAIN W
                 PROVE  /\ q[i] \in Entries /\ q[i].xid = W[i].xid
                        /\ q[i].cb => W[i].cb \/ W[i].xid = h.xid
    BY Zenon
  <2>2. PICK y : y = W[i]
    BY Zenon
  <2>3. y \in Entries
    BY <1>7, <2>2
  <2>4. q[i] = IF y.xid = h.xid THEN [y EXCEPT !.cb = TRUE, !.buf = TRUE] ELSE y
    BY <1>3, <2>2, Zenon
  <2>5. CASE y.xid = h.xid
    BY <2>2, <2>3, <2>4, <2>5, Zenon DEF Entries
  <2>6. CASE y.xid # h.xid
    BY <2>2, <2>3, <2>4, <2>6, Zenon
  <2> QED
    BY <2>5, <2>6, Zenon
<1>9. q \in Seq(Entries) /\ DOMAIN q = DOMAIN W
  <2>1. DOMAIN W = 1..Len(W) /\ Len(W) \in Nat
    BY <1>7
  <2>2. q \in [1..Len(W) -> Entries]
    BY <1>3, <1>8, <2>1, Zenon
  <2> QED
    BY <2>1, <2>2
<1>10. /\ \A x \in Xid : Present(window[h.clt], x) => Present(q, x)
       /\ \A i \in DOMAIN q : q[i].cb /\ q[i].xid # 1 => ran[<<h.clt, q[i].xid>>] = 1
  BY <1>2, <1>6, <1>7, <1>8, <1>9, ZenonT(30) DEF Present
<1>11. /\ WindowOK(ran, window') /\ window'[h.clt] = q
       /\ \A j \in ClientId, x \in Xid : Present(window[j], x) => Present(window'[j], x)
  BY <1>4, <1>6, <1>9, <1>10, Restored, Zenon
<1>12. WorkersOK(rpcc, conn, nonce, ran, window', wk) /\ RanOK(rpcc, nonce, ran, window')
  BY <1>11, Remembers, Zenon
<1>13. WorkerOK(rpcc, conn, nonce, ran, window', s) /\ s.at # "run"
  <2>1. /\ s \in [at : {"check", "dup", "run", "reply", "send"}, c : {s.c}, h : {s.h}]
        /\ s.c = wk[w].c /\ s.h = h /\ s.at = "send"
    BY <1>1, <1>5, Zenon DEF Busy
  <2>2. JobOK(rpcc, conn, s)
    BY <1>1, <1>6, <2>1, Zenon DEF JobOK
  <2>3. Present(window'[h.clt], h.xid)
    BY <1>6, <1>11, Zenon
  <2> QED
    BY <1>6, <2>1, <2>2, <2>3, Zenon DEF WorkerOK, BusyOK
<1>14. WorkersOK(rpcc, conn, nonce, ran, window', wk')
  <2>1. PICK win : win = window'
    BY Zenon
  <2>2. WorkersOK(rpcc, conn, nonce, ran, win, [wk EXCEPT ![w] = s])
    BY <1>12, <1>13, <2>1, OneWorker, Zenon
  <2> QED
    BY <1>4, <2>1, <2>2, Zenon
<1>15. /\ ConnsOK(rpcc, nonce, ran', conn') /\ SameConns(conn, conn')
       /\ JobsOK(rpcc, conn', jobs') /\ SavedOK(conn', conns')
  BY <1>4, ServerStays, Zenon
<1> QED
  BY <1>4, <1>11, <1>12, <1>14, <1>15, ServerStep, Zenon

\* A new incarnation remembers nothing.
LEMMA EmptyWindow ==
  ASSUME NEW rn
  PROVE  WindowOK(rn, [k \in ClientId |-> <<>>])
<1>1. PICK win : win = [k \in ClientId |-> <<>>]
  BY Zenon
<1>2. << >> \in Seq(Entries) /\ DOMAIN << >> = {}
  OBVIOUS
<1>3. win \in [ClientId -> Seq(Entries)] /\ \A k \in ClientId : DOMAIN win[k] = {}
  BY <1>1, <1>2, Zenon
<1> QED
  BY <1>1, <1>3, Zenon DEF WindowOK, Entries

\* The new incarnation has a number no client is bound to.
LEMMA StepCrash ==
  ASSUME RpcInv, Crash
  PROVE  RpcInv'
<1>1. PICK n : n = nonce + 1
  BY Zenon
<1>2. /\ nonce' = n
      /\ window' = [k \in ClientId |-> <<>>] /\ conns' = [k \in ClientId |-> 0]
      /\ jobs' = <<>> /\ wk' = [w \in Worker |-> Idle]
      /\ conn' = [c \in DOMAIN conn |-> [conn[c] EXCEPT !.sdead = TRUE, !.ref = 0]]
      /\ UNCHANGED <<rpcc, th, hmap, hlock, ran>>
  BY <1>1, Zenon DEF Crash, Incarnation, clientVars
<1>3. nonce \in Nat \ {0} /\ n \in Nat \ {0} /\ nonce < n
  BY <1>1 DEF RpcInv
<1>4. Later(rpcc, nonce, ran, rpcc, n, ran)
  <2>1. n \in Nat /\ nonce <= n
    BY <1>3
  <2> QED
    BY <2>1, LaterSame, Zenon
<1>5. \A k \in DOMAIN rpcc : ClientOK(n, rpcc[k]) /\ rpcc[k].srv # n
  <2>1. SUFFICES ASSUME NEW k \in DOMAIN rpcc PROVE ClientOK(n, rpcc[k]) /\ rpcc[k].srv # n
    BY Zenon
  <2>2. PICK x : x = rpcc[k]
    BY Zenon
  <2>3. ClientOK(nonce, x)
    BY <2>2, Zenon DEF RpcInv, ClientsOK
  <2>4. x.srv \in 0..nonce
    BY <2>3, Zenon DEF ClientOK
  <2>5. x.srv \in 0..n /\ x.srv # n
    BY <1>3, <2>4
  <2> QED
    BY <2>2, <2>3, <2>5, Zenon DEF ClientOK
<1>6. ClientsOK(rpcc, n)
  BY <1>5, Zenon DEF RpcInv, ClientsOK
<1>7. ThreadsOK(rpcc, n, ran, hlock, th)
  BY <1>4, ThreadsStay, Zenon DEF RpcInv
<1>8. ConnsOK(rpcc, n, ran, conn)
  BY <1>4, ServerStays, ConnsStay, Zenon
<1>9. ConnsOK(rpcc, n, ran, conn') /\ SameConns(conn, conn')
  <2>1. PICK ds : ds = conn'
    BY Zenon
  <2>2. ds = [c \in DOMAIN conn |-> ds[c]]
    BY <1>2, <2>1, Zenon
  <2>3. ASSUME NEW c \in DOMAIN conn
        PROVE  ConnOK(rpcc, n, ran, ds[c]) /\ ds[c].clt = conn[c].clt
    <3>1. ConnOK(rpcc, n, ran, conn[c])
      BY <1>8, Zenon DEF ConnsOK
    <3>2. ds[c] = [conn[c] EXCEPT !.sdead = TRUE, !.ref = 0]
      BY <1>2, <2>1, Zenon
    <3>3. Alike(rpcc, conn[c], ds[c])
      BY <3>1, <3>2, Zenon DEF Alike, ConnOK
    <3>4. PICK x, y : x = conn[c] /\ y = ds[c]
      BY Zenon
    <3>5. ConnOK(rpcc, n, ran, x) /\ Alike(rpcc, x, y)
      BY <3>1, <3>3, <3>4, Zenon
    <3>6. ConnOK(rpcc, n, ran, y) /\ y.clt = x.clt
      BY <3>5, FlagsChange
    <3> QED
      BY <3>4, <3>6, Zenon
  <2>4. ConnsOK(rpcc, n, ran, ds) /\ SameConns(conn, ds)
    BY <1>8, <2>2, <2>3, EachConn, Zenon
  <2> QED
    BY <2>1, <2>4, Zenon
<1>10. JobsOK(rpcc, conn', jobs')
  <2>1. << >> \in Seq({}) /\ DOMAIN << >> = {}
    OBVIOUS
  <2> QED
    BY <1>2, <2>1, Zenon DEF JobsOK, IsSeq
<1>11. WindowOK(ran, window')
  BY <1>2, EmptyWindow, Zenon
<1>12. WorkersOK(rpcc, conn', n, ran, window', wk')
  BY <1>2, Zenon DEF WorkersOK, WorkerOK, OneRuns, Idle
<1>13. RanOK(rpcc, n, ran, window')
  BY <1>5, Zenon DEF RpcInv, RanOK
<1>14. SavedOK(conn', conns')
  BY <1>2, Zenon DEF SavedOK
<1>15. ChanOK(rpcc, conn') /\ HandleOK(rpcc, hmap)
  BY <1>9, Zenon DEF RpcInv, ChanOK, SameConns
<1> QED
  BY <1>2, <1>3, <1>6, <1>7, <1>9, <1>10, <1>11, <1>12, <1>13, <1>14, <1>15, ZenonT(30) DEF RpcInv

\* Connections break and end: what is left of their queues is part of them.
Shrunk(rs, y, x) ==
  /\ x \in [clt : DOMAIN rs, inst : {x.inst}, cdead : BOOLEAN, sdead : BOOLEAN,
            up : {x.up}, down : {x.down}, rpdu : {x.rpdu}, ref : {x.ref}]
  /\ x.clt = y.clt /\ x.rpdu = y.rpdu
  /\ Part(y.up, x.up) /\ Part(y.down, x.down)

\* A connection with what is left of its queues stays valid.
LEMMA Broken ==
  ASSUME NEW rs, NEW n, NEW rn, NEW cs, ConnsOK(rs, n, rn, cs), NEW c \in DOMAIN cs,
         NEW x, Shrunk(rs, cs[c], x), NEW ds, ds = [cs EXCEPT ![c] = x]
  PROVE  ConnsOK(rs, n, rn, ds) /\ SameConns(cs, ds)
<1>1. PICK y : y = cs[c]
  BY Zenon
<1>2. ConnOK(rs, n, rn, y)
  BY <1>1, Zenon DEF ConnsOK
<1>3. IsSeq(x.up) /\ \A i \in DOMAIN x.up : HeaderOK(rs, x.clt, x.up[i])
  BY <1>1, <1>2, Zenon DEF Shrunk, Part, ConnOK
<1>4. IsSeq(x.down) /\ \A i \in DOMAIN x.down : ReplyOK(rs, n, rn, x.clt, x.down[i])
  BY <1>1, <1>2, Zenon DEF Shrunk, Part, ConnOK
<1>5. ConnOK(rs, n, rn, x)
  BY <1>1, <1>2, <1>3, <1>4, Zenon DEF Shrunk, ConnOK
<1>6. x.clt = cs[c].clt
  BY Zenon DEF Shrunk
<1> QED
  BY <1>5, <1>6, OneConn, Zenon

BreaksTo(y, x) ==
  \/ \E m \in 0..Len(y.up) : x = [y EXCEPT !.cdead = TRUE, !.up = SubSeq(@, 1, m)]
  \/ \E m \in 0..Len(y.down) : x = [y EXCEPT !.sdead = TRUE, !.down = SubSeq(@, 1, m)]
  \/ x = [y EXCEPT !.cdead = TRUE]
  \/ x = [y EXCEPT !.sdead = TRUE]

\* Break and Eof leave such a connection.
LEMMA Breaks ==
  ASSUME RpcInv, NEW c \in DOMAIN conn, NEW y, y = conn[c], NEW x, BreaksTo(y, x),
         conn' = [conn EXCEPT ![c] = x]
  PROVE  ConnsOK(rpcc, nonce, ran, conn') /\ SameConns(conn, conn')
<1>1. ConnOK(rpcc, nonce, ran, y)
  BY ServerStays, Zenon DEF ConnsOK
<1>2. Part(y.up, y.up) /\ Part(y.down, y.down)
  BY <1>1, Zenon DEF ConnOK, Part
<1>3. /\ \A m \in 0..Len(y.up) : Part(y.up, SubSeq(y.up, 1, m))
      /\ \A m \in 0..Len(y.down) : Part(y.down, SubSeq(y.down, 1, m))
  BY <1>1, PrefixPart, Zenon DEF ConnOK
<1>4. Shrunk(rpcc, y, x)
  <2>1. ASSUME NEW m \in 0..Len(y.up), x = [y EXCEPT !.cdead = TRUE, !.up = SubSeq(@, 1, m)]
        PROVE  Shrunk(rpcc, y, x)
    <3>1. PICK q : q = SubSeq(y.up, 1, m)
      BY Zenon
    <3>2. x = [y EXCEPT !.cdead = TRUE, !.up = q] /\ Part(y.up, q)
      BY <1>3, <2>1, <3>1, Zenon
    <3> QED
      BY <1>1, <1>2, <3>2, Zenon DEF ConnOK, Shrunk
  <2>2. ASSUME NEW m \in 0..Len(y.down), x = [y EXCEPT !.sdead = TRUE, !.down = SubSeq(@, 1, m)]
        PROVE  Shrunk(rpcc, y, x)
    <3>1. PICK q : q = SubSeq(y.down, 1, m)
      BY Zenon
    <3>2. x = [y EXCEPT !.sdead = TRUE, !.down = q] /\ Part(y.down, q)
      BY <1>3, <2>2, <3>1, Zenon
    <3> QED
      BY <1>1, <1>2, <3>2, Zenon DEF ConnOK, Shrunk
  <2>3. CASE x = [y EXCEPT !.cdead = TRUE]
    BY <1>1, <1>2, <2>3, Zenon DEF ConnOK, Shrunk
  <2>4. CASE x = [y EXCEPT !.sdead = TRUE]
    BY <1>1, <1>2, <2>4, Zenon DEF ConnOK, Shrunk
  <2> QED
    BY <2>1, <2>2, <2>3, <2>4, Zenon DEF BreaksTo
<1> QED
  BY <1>4, ServerStays, Broken, Zenon

\* A connection breaks or ends.
LEMMA StepConnection ==
  ASSUME RpcInv, NEW c \in DOMAIN conn, Break(c) \/ Eof(c)
  PROVE  RpcInv'
<1>1. UNCHANGED <<clientVars, serverVars, nonce, ran>>
  BY Zenon DEF Break, Eof
<1>2. PICK y : y = conn[c]
  BY Zenon
<1>3. PICK x : BreaksTo(y, x) /\ conn' = [conn EXCEPT ![c] = x]
  <2>1. \/ \E m \in 0..Len(y.up) :
             conn' = [conn EXCEPT ![c] = [y EXCEPT !.cdead = TRUE, !.up = SubSeq(@, 1, m)]]
        \/ \E m \in 0..Len(y.down) :
             conn' = [conn EXCEPT ![c] = [y EXCEPT !.sdead = TRUE, !.down = SubSeq(@, 1, m)]]
        \/ conn' = [conn EXCEPT ![c] = [y EXCEPT !.cdead = TRUE]]
        \/ conn' = [conn EXCEPT ![c] = [y EXCEPT !.sdead = TRUE]]
    BY <1>2, ZenonT(30) DEF Break, Eof
  <2> QED
    BY <2>1, Zenon DEF BreaksTo
<1>4. ConnsOK(rpcc, nonce, ran, conn') /\ SameConns(conn, conn')
  BY <1>2, <1>3, Breaks, Zenon
<1> QED
  BY <1>1, <1>4, ServerStays, ServerMoves, Zenon DEF serverVars

----------------------------------------------------------------------------
(***************************************************************************)
(* The theorems.                                                           *)
(***************************************************************************)
LEMMA RpcInit == Init => RpcInv
<1> SUFFICES ASSUME Init PROVE RpcInv
  BY Zenon
<1>1. << >> \in Seq({}) /\ DOMAIN << >> = {} /\ Len(<< >>) = 0
  OBVIOUS
<1>2. ClientsOK(rpcc, nonce) /\ ConnsOK(rpcc, nonce, ran, conn) /\ JobsOK(rpcc, conn, jobs)
  BY <1>1, RpcAssumption DEF Init, ClientsOK, ConnsOK, JobsOK, IsSeq
<1>3. ThreadsOK(rpcc, nonce, ran, hlock, th)
  BY RpcAssumption, Zenon DEF Init, ThreadsOK, ThreadOK, InBind, Idle
<1>4. WindowOK(ran, window) /\ RanOK(rpcc, nonce, ran, window)
  BY EmptyWindow DEF Init, RanOK
<1>5. WorkersOK(rpcc, conn, nonce, ran, window, wk)
  BY Zenon DEF Init, WorkersOK, WorkerOK, OneRuns, Idle
<1>6. SavedOK(conn, conns) /\ ChanOK(rpcc, conn)
  BY <1>1, Zenon DEF Init, SavedOK, ChanOK
<1>7. HandleOK(rpcc, hmap)
  BY Zenon DEF Init, HandleOK, NoHandle
<1> QED
  BY <1>2, <1>3, <1>4, <1>5, <1>6, <1>7 DEF RpcInv, Init

\* Every step keeps the invariant.
LEMMA RpcNext == RpcInv /\ [Next]_vars => RpcInv'
<1> SUFFICES ASSUME RpcInv, [Next]_vars PROVE RpcInv'
  BY Zenon
<1>1. ASSUME NEW t \in Thread,
             \/ get_handle(t) \/ Call(t) \/ Transmit(t) \/ Retransmit(t) \/ Expire(t)
             \/ Return(t) \/ done_handle(t)
      PROVE  RpcInv'
  BY <1>1, StepGetHandle, StepCall, StepTransmit, StepWait, StepReturn, StepDoneHandle, Zenon
<1>2. ASSUME NEW w \in Worker,
             \/ takeJob(w) \/ dispatch(w) \/ checkduplicate_and_update(w)
             \/ fn(w) \/ add_reply(w) \/ SendReply(w)
      PROVE  RpcInv'
  BY <1>2, StepTakeJob, StepDispatch, StepCheckDuplicate, StepFn, StepAddReply, StepSendReply, Zenon
<1>3. ASSUME NEW c \in DOMAIN conn, ClientGotPdu(c) \/ read_cb(c) \/ Break(c) \/ Eof(c)
      PROVE  RpcInv'
  BY <1>3, StepClientGotPdu, StepReadCb, StepConnection, Zenon
<1>4. CASE UNCHANGED vars
  BY <1>4, Zenon DEF vars, clientVars, serverVars, RpcInv
<1> QED
  BY <1>1, <1>2, <1>3, <1>4, StepDeleteHandle, StepCrash, Zenon DEF Next
=============================================================================
