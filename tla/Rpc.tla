-------------------------------- MODULE Rpc --------------------------------
(***************************************************************************)
(* The RPC library: the client side rpcc, the server side rpcs with its    *)
(* thread pool, the connections between them, and the handles (handle.cc)  *)
(* through which the threads of a node share one rpcc of a server.         *)
(*                                                                         *)
(* One server; its clients are the rpcc's that handle_mgr creates for it   *)
(* one after the other.  A request is its header: the marshalled arguments *)
(* and results are left out, bind's result aside.  The calls of a          *)
(* connection are atomic: a partial write or read only delays them.        *)
(***************************************************************************)
EXTENDS Naturals, Sequences, FiniteSetsExt, Functions

CONSTANTS Thread,     \* threads of the node that make calls
          Worker,     \* threads of the server's dispatch pool
          NoThread,
          MaxJobs,    \* capacity of the pool's queue (100 jobs per thread in the code)
          MaxClients, \* bound on the rpcc's created
          MaxXid,     \* bound on the calls of one rpcc, bind included
          MaxConns,   \* bound on the connections made
          MaxFaults   \* bound on broken connections, expired calls and crashes

ASSUME RpcAssumption ==
  /\ IsFiniteSet(Thread) /\ NoThread \notin Thread /\ IsFiniteSet(Worker)
  /\ MaxJobs \in Nat \ {0} /\ MaxClients \in Nat /\ MaxXid \in Nat
  /\ MaxConns \in Nat /\ MaxFaults \in Nat

VARIABLES rpcc,     \* rpcc[k]: the k-th client, k being its nonce
          th,       \* th[t]: what thread t does
          hmap,     \* handle_mgr's entry of the server
          hlock,    \* thread that holds handle_mutex over a bind
          conn,     \* the connections
          nonce,    \* the server's nonce: the number of its incarnation
          window,   \* window[k]: replies kept for client k
          conns,    \* conns[k]: the latest connection of client k, or 0
          jobs,     \* queue of the dispatch pool
          wk,       \* wk[w]: what pool thread w does
          freed,    \* replies whose buffer has been freed
          ran,      \* history: how often the handler of a call has run
          faults

clientVars == <<rpcc, th, hmap, hlock>>
serverVars == <<window, conns, jobs, wk, freed>>
vars == <<clientVars, serverVars, conn, nonce, ran, faults>>

ClientId == 1..MaxClients
Xid == 1..MaxXid
NoPdu == [xid |-> 0]
Idle == [at |-> "idle"]
NoHandle == [in |-> FALSE, refcnt |-> 0, del |-> FALSE]

Init ==
  /\ rpcc = <<>> /\ th = [t \in Thread |-> Idle]
  /\ hmap = NoHandle /\ hlock = NoThread
  /\ conn = <<>> /\ nonce = 1
  /\ window = [k \in ClientId |-> <<>>] /\ conns = [k \in ClientId |-> 0]
  /\ jobs = <<>> /\ wk = [w \in Worker |-> Idle] /\ freed = {}
  /\ ran = [c \in ClientId \X Xid |-> 0]
  /\ faults = 0

Fault == faults < MaxFaults /\ faults' = faults + 1

----------------------------------------------------------------------------
(* rpcc. *)

updateTail(w, xid) ==   \* faulty: the window is not compressed
  IF xid <= Head(w) THEN w ELSE Append(w, xid)

\* xid_rep_window_: xid is inserted before the first number above it, then the
\* front is popped while the number after it is there.
update_xid_rep(w, xid) ==
  LET at == Min({i \in DOMAIN w : w[i] > xid} \union {Len(w) + 1})
      ins == SubSeq(w, 1, at - 1) \o <<xid>> \o SubSeq(w, at, Len(w))
      front == Min({f \in DOMAIN ins : \A j \in DOMAIN ins : ins[j] # ins[f] + 1})
  IN IF xid <= Head(w) THEN w ELSE SubSeq(ins, front, Len(ins))

NewRpcc == [xid |-> 1, window |-> <<0>>, bound |-> FALSE, srv |-> 0, chan |-> 0]

\* Thread t enters call1 of client k of cs: xid and header.
call1(t, cs, k) ==
  /\ cs[k].xid \in Xid
  /\ rpcc' = [cs EXCEPT ![k].xid = @ + 1]
  /\ th' = [th EXCEPT ![t] =
       [at |-> "send", ch |-> 0, ret |-> "none", val |-> 0,
        h |-> [clt |-> k, xid |-> cs[k].xid, srv |-> cs[k].srv,
               xid_rep |-> Head(cs[k].window)]]]

\* A dead connection that only the listener still refers to is deleted when the
\* next connection is accepted.
Collect(cs) == [c \in DOMAIN cs |-> IF cs[c].sdead /\ cs[c].ref = 1
                                    THEN [cs[c] EXCEPT !.ref = 0] ELSE cs[c]]

connect(k, pdu) ==
  Append(Collect(conn),
         [clt |-> k, inst |-> nonce, cdead |-> FALSE, sdead |-> FALSE,
          up |-> <<pdu>>, down |-> <<>>, rpdu |-> NoPdu, ref |-> 1])

\* The client's side of a connection is dead, or there is none.
isdead(c) == c # 0 => conn[c].cdead

\* The connections get_refconn may return to client k: the one it has while it is
\* alive, otherwise a new one, or 0 where connect_to_dst fails.
get_refconn(k) ==
  IF ~isdead(rpcc[k].chan) THEN {rpcc[k].chan}
  ELSE {c \in {Len(conn) + 1} : c <= MaxConns} \union {c \in {0} : faults < MaxFaults}

\* call1 sends its request.
Transmit(t) ==
  LET h == th[t].h
  IN /\ th[t].at = "send"
     /\ \E c \in get_refconn(h.clt) :
          /\ rpcc' = [rpcc EXCEPT ![h.clt].chan = c]
          /\ th' = [th EXCEPT ![t].at = "wait", ![t].ch = IF c = 0 THEN @ ELSE c]
          /\ conn' = IF c = 0 THEN conn
                     ELSE IF c \in DOMAIN conn THEN [conn EXCEPT ![c].up = Append(@, h)]
                     ELSE connect(h.clt, h)
          /\ faults' = IF c = 0 THEN faults + 1 ELSE faults
     /\ UNCHANGED <<hmap, hlock, serverVars, nonce, ran>>

\* The interval is over and the connection is dead: the request is sent again.
Retransmit(t) ==
  /\ th[t].at = "wait" /\ th[t].ret = "none"
  /\ isdead(th[t].ch)
  /\ th' = [th EXCEPT ![t].at = "send"]
  /\ UNCHANGED <<rpcc, hmap, hlock, serverVars, conn, nonce, ran, faults>>

\* The call's deadline has passed.
Expire(t) ==
  /\ th[t].at = "wait" /\ th[t].ret = "none" /\ Fault
  /\ th' = [th EXCEPT ![t].at = "over"]
  /\ UNCHANGED <<rpcc, hmap, hlock, serverVars, conn, nonce, ran>>

\* rpcc::got_pdu on connection c.  A call whose deadline has passed may still
\* get its reply before it leaves calls_.
ClientGotPdu(c) ==
  LET k == conn[c].clt
      r == Head(conn[c].down)
      Pending(t) == /\ th[t].at \in {"send", "wait", "over"} /\ th[t].ret = "none"
                    /\ th[t].h.clt = k /\ th[t].h.xid = r.xid
  IN /\ ~conn[c].cdead /\ conn[c].down # <<>>
     /\ conn' = [conn EXCEPT ![c].down = Tail(@)]
     /\ rpcc' = [rpcc EXCEPT ![k].window = update_xid_rep(@, r.xid)]
     /\ th' = [t \in Thread |-> IF Pending(t)
                               THEN [th[t] EXCEPT !.ret = r.ret, !.val = r.val] ELSE th[t]]
     /\ UNCHANGED <<hmap, hlock, serverVars, nonce, ran, faults>>

\* The end of call1 in thread t: the call leaves calls_.
Closed(t) == [rpcc EXCEPT ![th[t].h.clt].window = update_xid_rep(@, th[t].h.xid)]

\* The call was bind's: get_handle goes on.
bind(t) ==
  LET k == th[t].h.clt
  IN /\ IF th[t].ret = "ok"
        THEN /\ rpcc' = [Closed(t) EXCEPT ![k].bound = TRUE, ![k].srv = th[t].val]
             /\ hmap' = [in |-> TRUE, refcnt |-> 1, del |-> FALSE]
             /\ th' = [th EXCEPT ![t] = [at |-> "have", k |-> k]]
        ELSE /\ rpcc' = Closed(t)
             /\ th' = [th EXCEPT ![t] = Idle]
             /\ UNCHANGED hmap
     /\ hlock' = NoThread

Return(t) ==
  /\ \/ th[t].at = "wait" /\ th[t].ret # "none"
     \/ th[t].at = "over"
  /\ IF hlock = t THEN bind(t)
     ELSE /\ rpcc' = Closed(t)
          /\ th' = [th EXCEPT ![t] = [at |-> "done", k |-> th[t].h.clt]]
          /\ UNCHANGED <<hmap, hlock>>
  /\ UNCHANGED <<serverVars, conn, nonce, ran, faults>>

----------------------------------------------------------------------------
(* Handles. *)

get_handle(t) ==
  /\ th[t].at = "idle" /\ hlock = NoThread
  /\ \/ /\ ~hmap.in /\ Len(rpcc) < MaxClients
        /\ call1(t, Append(rpcc, NewRpcc), Len(rpcc) + 1)
        /\ hlock' = t
        /\ UNCHANGED hmap
     \/ /\ hmap.in /\ ~hmap.del
        /\ hmap' = [hmap EXCEPT !.refcnt = @ + 1]
        /\ th' = [th EXCEPT ![t] = [at |-> "have", k |-> Len(rpcc)]]
        /\ UNCHANGED <<rpcc, hlock>>
  /\ UNCHANGED <<serverVars, conn, nonce, ran, faults>>

Call(t) ==
  /\ th[t].at = "have" /\ call1(t, rpcc, th[t].k)
  /\ UNCHANGED <<hmap, hlock, serverVars, conn, nonce, ran, faults>>

closeconn(ch) ==
  [c \in DOMAIN conn |-> IF c = ch THEN [conn[c] EXCEPT !.cdead = TRUE] ELSE conn[c]]

delete_handle_woNow(n) ==   \* faulty: the references are not looked at
  hmap' = NoHandle /\ conn' = closeconn(rpcc[Len(rpcc)].chan)

\* n references are left: the rpcc and its connection go with the last one.
delete_handle_wo(n) ==
  IF n = 0
  THEN hmap' = NoHandle /\ conn' = closeconn(rpcc[Len(rpcc)].chan)
  ELSE /\ hmap' = [hmap EXCEPT !.del = TRUE, !.refcnt = n]
       /\ UNCHANGED conn

\* At the end of the scope of a handle, after its call.
done_handle(t) ==
  /\ th[t].at = "done" /\ hlock = NoThread
  /\ IF hmap.del THEN delete_handle_wo(hmap.refcnt - 1)
     ELSE hmap' = [hmap EXCEPT !.refcnt = @ - 1] /\ UNCHANGED conn
  /\ th' = [th EXCEPT ![t] = Idle]
  /\ UNCHANGED <<rpcc, hlock, serverVars, nonce, ran, faults>>

delete_handle ==
  /\ hlock = NoThread /\ hmap.in /\ ~hmap.del
  /\ delete_handle_wo(hmap.refcnt)
  /\ UNCHANGED <<rpcc, th, hlock, serverVars, nonce, ran, faults>>

----------------------------------------------------------------------------
(* rpcs. *)

incref(cs, c) == [cs EXCEPT ![c].ref = @ + 1]

decref(cs, c) == [cs EXCEPT ![c].ref = @ - 1]

\* The queue of the dispatch pool, not blocking when it is full.
enq(j) == Len(jobs) < MaxJobs /\ jobs' = Append(jobs, j)

deq == jobs # <<>> /\ jobs' = Tail(jobs)

\* rpcs::got_pdu: a job that refers to c is queued; rest is still to be read.
got_pdu(c, pdu, rest) ==
  /\ enq([c |-> c, h |-> pdu])
  /\ conn' = [incref(conn, c) EXCEPT ![c].rpdu = NoPdu, ![c].up = rest]

\* The server's side of connection c is readable.  A request that finds the queue
\* full stays in rpdu_ until c is readable again.
read_cb(c) ==
  LET held == conn[c].rpdu # NoPdu
      pdu == IF held THEN conn[c].rpdu ELSE Head(conn[c].up)
      rest == IF held THEN conn[c].up ELSE Tail(conn[c].up)
  IN /\ conn[c].inst = nonce /\ ~conn[c].sdead
     /\ conn[c].up # <<>> \/ (held /\ conn[c].cdead)
     /\ \/ got_pdu(c, pdu, rest)
        \/ /\ Len(jobs) = MaxJobs /\ ~held
           /\ conn' = [conn EXCEPT ![c].rpdu = pdu, ![c].up = rest]
           /\ UNCHANGED jobs
     /\ UNCHANGED <<clientVars, window, conns, wk, freed, nonce, ran, faults>>

takeJob(w) ==
  /\ wk[w].at = "idle" /\ deq
  /\ wk' = [wk EXCEPT ![w] = [at |-> "check", c |-> Head(jobs).c, h |-> Head(jobs).h]]
  /\ UNCHANGED <<clientVars, window, conns, freed, conn, nonce, ran, faults>>

\* The connections after r was sent on c and the reference to c was dropped.
Sent(cs, c, r) ==
  [decref(cs, c) EXCEPT ![c].down = IF cs[c].sdead THEN @ ELSE Append(@, r)]

Reply(h, ret) == [xid |-> h.xid, ret |-> ret, val |-> nonce]

\* dispatch saves the latest connection of the client.
SavedNoRef(h, c) == conn   \* faulty: the saved connection is not counted

Saved(h, c) ==
  LET old == conns[h.clt]
      drop == IF old = 0 THEN conn ELSE decref(conn, old)
  IN IF old = c THEN conn ELSE incref(drop, c)

Entry(h) == {i \in DOMAIN window[h.clt] : window[h.clt][i].xid = h.xid}

\* Entries whose buffer checkduplicate_and_update frees: acknowledged ones.
Acked(h) ==
  {i \in DOMAIN window[h.clt] : window[h.clt][i].xid <= h.xid_rep /\ window[h.clt][i].buf}

rpcstateNoProgress(h) ==   \* faulty: a request being served is taken for a new one
  IF \E i \in Entry(h) : window[h.clt][i].cb THEN "DONE" ELSE "NEW"

\* checkduplicate_and_update: the verdict.
rpcstate(h) ==
  IF Entry(h) = {} THEN "NEW"
  ELSE IF \E i \in Entry(h) \ Acked(h) : window[h.clt][i].cb THEN "DONE"
  ELSE IF h.xid > h.xid_rep THEN "INPROGRESS" ELSE "FORGOTTEN"

StoredEarly(h) ==   \* faulty: the new entry is marked as answered
  Append(window[h.clt], [xid |-> h.xid, cb |-> TRUE, buf |-> FALSE])

\* checkduplicate_and_update: the freed entries are cleared in a copy of the
\* window, which is stored with the new entry only.
Stored(h) ==
  Append([i \in DOMAIN window[h.clt] |->
            IF window[h.clt][i].xid <= h.xid_rep
            THEN [window[h.clt][i] EXCEPT !.cb = FALSE, !.buf = FALSE]
            ELSE window[h.clt][i]],
         [xid |-> h.xid, cb |-> FALSE, buf |-> FALSE])

Buffers(k, is) == {<<k, window[k][i].xid>> : i \in is}

\* The server comes back as a new incarnation; its connections are gone.
Incarnation ==
  /\ nonce' = nonce + 1
  /\ window' = [k \in ClientId |-> <<>>] /\ conns' = [k \in ClientId |-> 0]
  /\ jobs' = <<>> /\ wk' = [w \in Worker |-> Idle] /\ freed' = {}
  /\ conn' = [c \in DOMAIN conn |-> [conn[c] EXCEPT !.sdead = TRUE, !.ref = 0]]
  /\ UNCHANGED <<clientVars, ran>>

isold(h) == h.srv # 0 /\ h.srv # nonce

\* What send may find in the buffer of a reply: one that has been freed may hold
\* anything, most likely not a reply to a pending call.
Answers(h) ==
  {Reply(h, "ok")} \union
  (IF <<h.clt, h.xid>> \in freed THEN {[Reply(h, "ok") EXCEPT !.xid = 0]} ELSE {})

\* dispatch up to the check for duplicates.  A request to an earlier incarnation
\* is refused, and the reference to c is kept.
dispatch(w) ==
  LET h == wk[w].h
      c == wk[w].c
  IN /\ wk[w].at = "check"
     /\ \/ /\ isold(h)
           /\ conn' = incref(Sent(conn, c, Reply(h, "oldsrv")), c)
           /\ wk' = [wk EXCEPT ![w] = Idle]
           /\ UNCHANGED conns
        \/ /\ ~isold(h)
           /\ conn' = Saved(h, c)
           /\ conns' = [conns EXCEPT ![h.clt] = c]
           /\ wk' = [wk EXCEPT ![w].at = "dup"]
     /\ UNCHANGED <<clientVars, window, jobs, freed, nonce, ran, faults>>

\* checkduplicate_and_update and the cases of its verdict.  A buffer may be freed
\* that is in freed already: the server goes on, or aborts as in Crash.
checkduplicate_and_update(w) ==
  LET h == wk[w].h
      c == wk[w].c
      stat == rpcstate(h)
  IN /\ wk[w].at = "dup"
     /\ freed' = freed \union Buffers(h.clt, Acked(h))
     /\ \/ /\ stat = "NEW"
           /\ window' = [window EXCEPT ![h.clt] = Stored(h)]
           /\ wk' = [wk EXCEPT ![w].at = "run"]
           /\ UNCHANGED conn
        \/ /\ stat = "INPROGRESS"
           /\ conn' = decref(conn, c)
           /\ wk' = [wk EXCEPT ![w] = Idle] /\ UNCHANGED window
        \/ /\ stat \in {"DONE", "FORGOTTEN"}
           /\ \E r \in IF stat = "DONE" THEN Answers(h) ELSE {Reply(h, "forgotten")} :
                conn' = Sent(conn, c, r)
           /\ wk' = [wk EXCEPT ![w] = Idle] /\ UNCHANGED window
     /\ UNCHANGED <<clientVars, conns, jobs, nonce, ran, faults>>

\* The handler.  rpcbind, of xid 1, changes nothing and is not counted.
fn(w) ==
  LET h == wk[w].h
  IN /\ wk[w].at = "run"
     /\ ran' = IF h.xid = 1 THEN ran ELSE [ran EXCEPT ![<<h.clt, h.xid>>] = @ + 1]
     /\ wk' = [wk EXCEPT ![w].at = "reply"]
     /\ UNCHANGED <<clientVars, window, conns, jobs, freed, conn, nonce, faults>>

add_reply(w) ==
  LET h == wk[w].h
  IN /\ wk[w].at = "reply"
     /\ window' = [window EXCEPT ![h.clt] =
          [i \in DOMAIN @ |-> IF @[i].xid = h.xid
                              THEN [@[i] EXCEPT !.cb = TRUE, !.buf = TRUE] ELSE @[i]]]
     /\ wk' = [wk EXCEPT ![w].at = "send"]
     /\ UNCHANGED <<clientVars, conns, jobs, freed, conn, nonce, ran, faults>>

\* The end of dispatch: a dead connection is replaced by the latest one.
SendReply(w) ==
  LET h == wk[w].h
      c == wk[w].c
      latest == conns[h.clt]
      moved == conn[c].sdead /\ c # latest
      cs == IF moved THEN incref(decref(conn, c), latest) ELSE conn
  IN /\ wk[w].at = "send"
     /\ \E r \in Answers(h) : conn' = Sent(cs, IF moved THEN latest ELSE c, r)
     /\ wk' = [wk EXCEPT ![w] = Idle]
     /\ UNCHANGED <<clientVars, window, conns, jobs, freed, nonce, ran, faults>>

Crash == Incarnation /\ Fault

----------------------------------------------------------------------------
(* Connections. *)

\* One side's connection breaks; what it has sent and the other has not read may
\* be lost.
Break(c) ==
  /\ Fault
  /\ \/ /\ ~conn[c].cdead
        /\ \E n \in 0..Len(conn[c].up) :
             conn' = [conn EXCEPT ![c].cdead = TRUE, ![c].up = SubSeq(@, 1, n)]
     \/ /\ ~conn[c].sdead
        /\ \E n \in 0..Len(conn[c].down) :
             conn' = [conn EXCEPT ![c].sdead = TRUE, ![c].down = SubSeq(@, 1, n)]
  /\ UNCHANGED <<clientVars, serverVars, nonce, ran>>

\* A side reads to the end of what the other sent before it closed.
Eof(c) ==
  /\ \/ /\ ~conn[c].cdead /\ conn[c].sdead /\ conn[c].down = <<>>
        /\ conn' = [conn EXCEPT ![c].cdead = TRUE]
     \/ /\ ~conn[c].sdead /\ conn[c].cdead /\ conn[c].up = <<>> /\ conn[c].rpdu = NoPdu
        /\ conn' = [conn EXCEPT ![c].sdead = TRUE]
  /\ UNCHANGED <<clientVars, serverVars, nonce, ran, faults>>

----------------------------------------------------------------------------
Next ==
  \/ \E t \in Thread :
       \/ get_handle(t) \/ Call(t) \/ Transmit(t) \/ Retransmit(t) \/ Expire(t)
       \/ Return(t) \/ done_handle(t)
  \/ delete_handle
  \/ \E w \in Worker :
       \/ takeJob(w) \/ dispatch(w)
       \/ checkduplicate_and_update(w) \/ fn(w) \/ add_reply(w) \/ SendReply(w)
  \/ \E c \in DOMAIN conn : ClientGotPdu(c) \/ read_cb(c) \/ Break(c) \/ Eof(c)
  \/ Crash

Spec == Init /\ [][Next]_vars

----------------------------------------------------------------------------
(* Properties. *)

InCall(t) == th[t].at \in {"send", "wait", "over"}

\* The handler of a call runs at most once, whatever is sent again, on whichever
\* connection, and to whichever incarnation of the server: dispatch refuses what
\* was sent to an earlier one, and the window tells duplicates.
AtMostOnce == \A c \in DOMAIN ran : ran[c] <= 1

\* A caller that is told its call succeeded knows that the handler has run once;
\* a duplicate met while it runs is not answered in its place.
SuccessMeansRun ==
  \A t \in Thread :
    InCall(t) /\ th[t].ret = "ok" /\ th[t].h.xid > 1 => ran[<<th[t].h.clt, th[t].h.xid>>] = 1

\* What a client acknowledges in its next header is exactly the calls it needs no
\* reply of any more: the window, filled in any order by got_pdu and call1,
\* compresses to the last call before the oldest open one.
AcknowledgesAllClosed ==
  \A k \in DOMAIN rpcc :
    Head(rpcc[k].window) + 1 =
      Min({rpcc[k].xid} \union
          {th[t].h.xid : t \in {u \in Thread : InCall(u) /\ th[u].ret = "none"
                                               /\ th[u].h.clt = k}})

\* The references the server holds to a connection: the listener's, those of the
\* queued jobs and of the jobs being served, and that of conns_.
Holders(c) ==
  1 + Cardinality({i \in DOMAIN jobs : jobs[i].c = c})
    + Cardinality({w \in Worker : wk[w].at # "idle" /\ wk[w].c = c})
    + Cardinality({k \in ClientId : conns[k] = c})

\* A connection is not deleted while somebody on the server still uses it: its
\* count covers every holder until the listener drops it as the last one.
ConnectionsCounted ==
  \A c \in DOMAIN conn :
    conn[c].inst = nonce => \/ conn[c].ref >= Holders(c)
                            \/ conn[c].ref = 0 /\ Holders(c) = 1

\* No rpcc is deleted under a thread that got it from get_handle: while a thread is
\* between get_handle and done_handle the entry stays, counts the thread and leads
\* to the rpcc the thread uses.
HandleInUse ==
  /\ hmap.in => hmap.refcnt = Cardinality({t \in Thread : th[t].at # "idle"})
  /\ \A t \in Thread : th[t].at # "idle" /\ hlock # t =>
       /\ hmap.in
       /\ Len(rpcc) = IF InCall(t) THEN th[t].h.clt ELSE th[t].k
=============================================================================
