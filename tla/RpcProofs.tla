----------------------------- MODULE RpcProofs -----------------------------
(***************************************************************************)
(* The theorems about the RPC library, for any number of threads, clients, *)
(* calls, connections and faults: the handler of a call runs at most once, *)
(* a caller that is told so knows that it ran, and the acknowledgements,   *)
(* the users of a handle and the holders of a connection are what the      *)
(* library has written down of them.                                       *)
(***************************************************************************)
EXTENDS RpcStepProofs, RpcBookProofs

\* Whatever the connections lose or the clients send again, and whenever the
\* server restarts, dispatch runs the handler of a call at most once: a request
\* of an earlier incarnation is refused, and this incarnation has an entry for
\* every call it ran.
THEOREM AtMostOnceHolds == Spec => []AtMostOnce
<1>1. RpcInv => AtMostOnce
  <2>1. RpcInv => ran \in [ClientId \X Xid -> {0, 1}]
    BY Zenon DEF RpcInv, RanOK
  <2>2. ASSUME NEW c \in DOMAIN ran, ran \in [ClientId \X Xid -> {0, 1}] PROVE ran[c] <= 1
    BY <2>2
  <2> QED
    BY <2>1, <2>2 DEF AtMostOnce
<1> QED
  BY <1>1, RpcInit, RpcNext, PTL DEF Spec

\* call1 returns success only for a call whose handler has run: every reply of
\* success on a connection was made after the handler ran, a stored one included.
THEOREM SuccessMeansRunHolds == Spec => []SuccessMeansRun
<1>1. RpcInv => SuccessMeansRun
  <2>1. SUFFICES ASSUME RpcInv, NEW t \in Thread, InCall(t), th[t].ret = "ok", th[t].h.xid > 1
                 PROVE  ran[<<th[t].h.clt, th[t].h.xid>>] = 1
    BY DEF SuccessMeansRun
  <2>2. InCallOK(rpcc, nonce, ran, th[t])
    BY <2>1, SameStay, CallThread, ZenonT(30) DEF InCall
  <2>3. th[t].h.xid \in Xid
    BY <2>2, Zenon DEF InCallOK, HeaderOK
  <2>4. th[t].h.xid \in Xid \ {1}
    BY <2>1, <2>3 DEF Xid
  <2> QED
    BY <2>1, <2>2, <2>4 DEF InCallOK, ReplyOK
<1> QED
  BY <1>1, RpcInit, RpcNext, PTL DEF Spec

\* xid_rep_window_ never claims too much or too little: whatever the order in which replies
\* come and calls end, its front is the last call before the oldest one that still needs
\* its reply.  AckInv says more: every closed call is in the window or below its front.
THEOREM AcknowledgesAllClosedHolds == Spec => []AcknowledgesAllClosed
<1>1. RpcInv /\ AckInv => AcknowledgesAllClosed
  BY FrontIsLast
<1> QED
  BY <1>1, RpcInit, RpcNext, AckInit, AckNext, PTL DEF Spec

\* handle_mgr deletes no rpcc that a thread uses: the count of an entry is the number of
\* threads between get_handle and done_handle, and they use the client of the entry.
THEOREM HandleInUseHolds == Spec => []HandleInUse
<1>1. HandleInv => HandleInUse
  <2>1. SUFFICES ASSUME HandleInv PROVE HandleInUse
    OBVIOUS
  <2>2. hmap.in => hmap.refcnt = Cardinality({t \in Thread : th[t].at # "idle"})
    BY <2>1, Zenon DEF HandleInv, HandleFits, Users
  <2>3. ASSUME NEW t \in Thread, th[t].at # "idle", hlock # t
        PROVE  hmap.in /\ Len(rpcc) = IF InCall(t) THEN th[t].h.clt ELSE th[t].k
    BY <2>1, <2>3, ZenonT(30) DEF HandleInv, HandleFits, Uses, InCall, InCall1
  <2> QED
    BY <2>2, <2>3, ZenonT(30) DEF HandleInUse
<1> QED
  BY <1>1, RpcInit, RpcNext, HandleInit, HandleNext, PTL DEF Spec

\* No connection is freed under a job, a pool thread or conns_: incref and decref keep its
\* count at or above its holders until the listener, the last one, drops it dead.
THEOREM ConnectionsCountedHolds == Spec => []ConnectionsCounted
<1>1. CountInv => ConnectionsCounted
  <2>1. \A c : HoldersOf(jobs, wk, conns, c) = Holders(c)
    BY DEF HoldersOf, Holders, Queued, Serving, Saving
  <2> QED
    BY <2>1, Zenon DEF CountInv, CountsFit, Counts, ConnectionsCounted
<1> QED
  BY <1>1, RpcInit, RpcNext, CountInit, CountNext, PTL DEF Spec
=============================================================================
