--------------------------- MODULE RpcInvariants ---------------------------
(***************************************************************************)
(* The inductive invariants of the RPC library: RpcInv says what every     *)
(* reachable state is like, AckInv, HandleInv and CountInv that three      *)
(* books are right: the window of acknowledgements of a client, the count  *)
(* of users of a handle and the count of holders of a connection.          *)
(*                                                                         *)
(* Their parts are operators of the values they are about: rs the clients, *)
(* n the nonce, rn the history ran, cs the connections.                    *)
(***************************************************************************)
EXTENDS Rpc

IsSeq(s) == \E S : s \in Seq(S)

\* A client has made its bind; its srv is 0 until bind returns, and then the
\* number of an incarnation.
ClientOK(n, x) ==
  x \in [xid : Nat \ {0, 1}, window : {x.window}, bound : BOOLEAN, srv : 0..n, chan : {x.chan}]

ClientsOK(rs, n) ==
  /\ IsSeq(rs) /\ Len(rs) <= MaxClients
  /\ \A k \in DOMAIN rs : ClientOK(n, rs[k])

\* A header of client k: bind's has srv 0, all others the client's srv.  Its xid
\* has been drawn.
HeaderOK(rs, k, h) ==
  /\ h.clt = k /\ h.xid \in Xid /\ h.xid < rs[k].xid
  /\ h.srv = IF h.xid = 1 THEN 0 ELSE rs[k].srv
  /\ h.xid # 1 => h.srv # 0

\* A reply to client k; what was in a freed buffer has xid 0.
ReplyOK(rs, n, rn, k, r) ==
  /\ r.val \in 1..n /\ r.ret # "none" /\ r.xid \in Nat /\ r.xid < rs[k].xid
  /\ r.ret = "ok" /\ r.xid \in Xid \ {1} => rn[<<k, r.xid>>] = 1

ConnOK(rs, n, rn, x) ==
  /\ x \in [clt : DOMAIN rs, inst : {x.inst}, cdead : BOOLEAN, sdead : BOOLEAN,
            up : {x.up}, down : {x.down}, rpdu : {x.rpdu}, ref : {x.ref}]
  /\ IsSeq(x.up) /\ \A i \in DOMAIN x.up : HeaderOK(rs, x.clt, x.up[i])
  /\ IsSeq(x.down) /\ \A i \in DOMAIN x.down : ReplyOK(rs, n, rn, x.clt, x.down[i])
  /\ x.rpdu = NoPdu \/ HeaderOK(rs, x.clt, x.rpdu)

ConnsOK(rs, n, rn, cs) ==
  IsSeq(cs) /\ \A c \in DOMAIN cs : ConnOK(rs, n, rn, cs[c])

\* What a thread is doing in a call, and otherwise.
InCallOK(rs, n, rn, s) ==
  /\ s \in [at : {"send", "wait", "over"}, ch : {s.ch}, ret : {s.ret}, val : {s.val}, h : {s.h}]
  /\ s.h.clt \in DOMAIN rs /\ HeaderOK(rs, s.h.clt, s.h)
  /\ s.ret # "none" =>
       ReplyOK(rs, n, rn, s.h.clt, [xid |-> s.h.xid, ret |-> s.ret, val |-> s.val])

ThreadOK(rs, n, rn, s) ==
  \/ s = Idle
  \/ s \in [at : {"have", "done"}, k : DOMAIN rs] /\ rs[s.k].srv # 0
  \/ InCallOK(rs, n, rn, s)

InBind(s) == s.at \in {"send", "wait", "over"} /\ s.h.xid = 1

\* The thread that holds handle_mutex is in the bind of the latest client.
Binding(rs, s) ==
  InBind(s) /\ s.h.clt = Len(rs) /\ rs[s.h.clt].srv = 0

ThreadsOK(rs, n, rn, hl, ts) ==
  /\ DOMAIN ts = Thread
  /\ \A t \in Thread : /\ ThreadOK(rs, n, rn, ts[t])
                       /\ hl = t => Binding(rs, ts[t])
                       /\ InBind(ts[t]) => hl = t

\* A job on connection c of cs.
JobOK(rs, cs, j) ==
  /\ j.c \in DOMAIN cs
  /\ HeaderOK(rs, cs[j.c].clt, j.h)

JobsOK(rs, cs, js) == IsSeq(js) /\ \A i \in DOMAIN js : JobOK(rs, cs, js[i])

\* The server has an entry for call x of a client with window w.
Present(w, x) == \E i \in DOMAIN w : w[i].xid = x

WindowOK(rn, win) ==
  /\ win \in [ClientId -> Seq([xid : Xid, cb : BOOLEAN, buf : BOOLEAN])]
  /\ \A k \in ClientId : \A i \in DOMAIN win[k] :
       win[k][i].cb /\ win[k][i].xid # 1 => rn[<<k, win[k][i].xid>>] = 1

\* A pool thread: past the check of the incarnation its call is one of this
\* incarnation, past that of duplicates it has an entry, and has not run yet.
BusyOK(rs, cs, n, rn, win, s) ==
  /\ s \in [at : {"check", "dup", "run", "reply", "send"}, c : {s.c}, h : {s.h}]
  /\ JobOK(rs, cs, s)
  /\ s.at # "check" /\ s.h.xid # 1 => s.h.srv = n
  /\ s.at \in {"run", "reply", "send"} => Present(win[s.h.clt], s.h.xid)
  /\ s.h.xid # 1 /\ s.at = "run" => rn[<<s.h.clt, s.h.xid>>] = 0
  /\ s.h.xid # 1 /\ s.at \in {"reply", "send"} => rn[<<s.h.clt, s.h.xid>>] = 1

WorkerOK(rs, cs, n, rn, win, s) == s = Idle \/ BusyOK(rs, cs, n, rn, win, s)

\* Two pool threads never run the handler of one call.
OneRuns(ws) ==
  \A v, w \in Worker :
    ws[v].at = "run" /\ ws[w].at = "run" /\ ws[v].h.xid # 1
    /\ ws[v].h.clt = ws[w].h.clt /\ ws[v].h.xid = ws[w].h.xid => v = w

WorkersOK(rs, cs, n, rn, win, ws) ==
  /\ DOMAIN ws = Worker
  /\ \A w \in Worker : WorkerOK(rs, cs, n, rn, win, ws[w])
  /\ OneRuns(ws)

\* A call that ran belongs to a client that is bound; as long as the server is
\* the one the client is bound to, it remembers the call.
RanOK(rs, n, rn, win) ==
  /\ rn \in [ClientId \X Xid -> {0, 1}]
  /\ \A k \in ClientId, x \in Xid : rn[<<k, x>>] = 1 =>
       /\ k \in DOMAIN rs /\ rs[k].srv # 0
       /\ rs[k].srv = n => Present(win[k], x)

\* conns_ of the server leads to connections of the client.
SavedOK(cs, ks) ==
  /\ DOMAIN ks = ClientId
  /\ \A k \in ClientId : ks[k] # 0 => ks[k] \in DOMAIN cs /\ cs[ks[k]].clt = k

\* The connection of a client, and the client of the handle.
ChanOK(rs, cs) ==
  \A k \in DOMAIN rs :
    rs[k].chan # 0 => rs[k].chan \in DOMAIN cs /\ cs[rs[k].chan].clt = k

HandleOK(rs, hm) ==
  /\ hm \in [in : BOOLEAN, refcnt : {hm.refcnt}, del : {hm.del}]
  /\ hm.in => Len(rs) \in DOMAIN rs /\ rs[Len(rs)].srv # 0

RpcInv ==
  /\ nonce \in Nat \ {0}
  /\ ClientsOK(rpcc, nonce)
  /\ ThreadsOK(rpcc, nonce, ran, hlock, th)
  /\ ConnsOK(rpcc, nonce, ran, conn)
  /\ JobsOK(rpcc, conn, jobs)
  /\ WindowOK(ran, window)
  /\ WorkersOK(rpcc, conn, nonce, ran, window, wk)
  /\ RanOK(rpcc, nonce, ran, window)
  /\ SavedOK(conn, conns)
  /\ ChanOK(rpcc, conn)
  /\ HandleOK(rpcc, hmap)

\* A pool thread that is not idle.
Busy(s) ==
  /\ s \in [at : {"check", "dup", "run", "reply", "send"}, c : {s.c}, h : {s.h}]
  /\ s.c \in DOMAIN conn /\ conn[s.c].clt = s.h.clt
  /\ s.h.clt \in DOMAIN rpcc /\ s.h.clt \in ClientId
  /\ s.h.xid \in Xid
  /\ HeaderOK(rpcc, s.h.clt, s.h)

----------------------------------------------------------------------------
(***************************************************************************)
(* Handles: handle_mgr's entry counts the threads that use it.             *)
(***************************************************************************)
InCall1(s) == s.at \in {"send", "wait", "over"}

\* The threads between get_handle and done_handle, and the client one of them uses.
Users(ts) == {t \in Thread : ts[t].at # "idle"}

Uses(s) == IF InCall1(s) THEN s.h.clt ELSE s.k

\* While a thread holds handle_mutex over a bind there is no entry, and it is the
\* only thread that uses a client.
HandleFits(rs, hm, hl, ts) ==
  /\ hl \in Thread \union {NoThread}
  /\ hl # NoThread => ~hm.in
  /\ hm.in => hm.refcnt = Cardinality(Users(ts))
  /\ \A t \in Thread : ts[t].at # "idle" /\ hl # t => hm.in /\ Len(rs) = Uses(ts[t])

HandleInv == HandleFits(rpcc, hmap, hlock, th)

----------------------------------------------------------------------------
(***************************************************************************)
(* Acknowledgements: the window of a client against its open calls.        *)
(***************************************************************************)
\* A thread waits for the reply to call x of client k.
OpenAt(s, k, x) == InCall1(s) /\ s.ret = "none" /\ s.h.clt = k /\ s.h.xid = x

Open(ts, k, x) == \E t \in Thread : OpenAt(ts[t], k, x)

\* The window w says that no reply to call x is needed any more.
Covered(w, x) == x <= w[1] \/ \E i \in DOMAIN w : w[i] = x

\* Numbers below n in order, possibly with repetitions.
Ordered(w, n) ==
  /\ w \in Seq(Nat) /\ Len(w) # 0
  /\ \A i, j \in DOMAIN w : i <= j => w[i] <= w[j]
  /\ \A i \in DOMAIN w : w[i] < n

\* The number after the front is missing.
Compressed(w) == \A j \in DOMAIN w : w[j] # w[1] + 1

WindowFits(w, n) == Ordered(w, n) /\ Compressed(w)

\* Client k has covered exactly the calls that are not open, of those it made.
Acknowledged(rs, ts, k) ==
  /\ WindowFits(rs[k].window, rs[k].xid)
  /\ \A x \in 1..(rs[k].xid - 1) : Covered(rs[k].window, x) <=> ~Open(ts, k, x)

\* No two threads are in the same call.
Distinct(ts) ==
  \A t, u \in Thread :
    InCall1(ts[t]) /\ InCall1(ts[u]) /\ ts[t].h.clt = ts[u].h.clt
    /\ ts[t].h.xid = ts[u].h.xid => t = u

WindowsFit(rs, ts) == Distinct(ts) /\ \A k \in DOMAIN rs : Acknowledged(rs, ts, k)

AckInv == WindowsFit(rpcc, th)

----------------------------------------------------------------------------
(***************************************************************************)
(* Connections: the count of a connection against its holders.             *)
(***************************************************************************)
\* Those of the queue, of the pool threads and of conns_ that refer to connection c.
Queued(js, c) == {i \in DOMAIN js : js[i].c = c}

Serving(ws, c) == {w \in Worker : ws[w].at # "idle" /\ ws[w].c = c}

Saving(ks, c) == {k \in ClientId : ks[k] = c}

HoldersOf(js, ws, ks, c) ==
  1 + Cardinality(Queued(js, c)) + Cardinality(Serving(ws, c)) + Cardinality(Saving(ks, c))

\* A connection x of this incarnation, n, that has m holders: only a dead one has
\* been dropped by the listener.
Counts(n, x, m) ==
  /\ x.inst \in Nat /\ x.inst <= n
  /\ x.inst = n => /\ x.ref \in Nat
                   /\ x.ref >= m \/ (x.ref = 0 /\ m = 1)
                   /\ x.ref = 0 => x.sdead

CountsFit(n, cs, js, ws, ks) ==
  \A c \in DOMAIN cs : Counts(n, cs[c], HoldersOf(js, ws, ks, c))

CountInv == CountsFit(nonce, conn, jobs, wk, conns)
=============================================================================
