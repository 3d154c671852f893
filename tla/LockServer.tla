----------------------------- MODULE LockServer -----------------------------
(***************************************************************************)
(* lock_server_cache.cc: the caching lock server.  Its acquire and release *)
(* handlers run under lock_mutex from end to end, so each is one step; the *)
(* revoker and retryer threads drop the mutex around the RPC they make to  *)
(* a client, so each of their rounds is a send step and a reply step.      *)
(***************************************************************************)
EXTENDS LockProtocol

VARIABLES
    owner,       \* locks[l].clt_id; NoClient exactly when locks[l].state = FREE
    waiting,     \* locks[l].waiting_clients
    sentTo,      \* locks[l].retryer_sent_to
    revokes,     \* revokes: <<lock, client>> pairs still to be revoked
    free_locks,  \* free_locks: locks the retryer looks at, repeats included
    revoker,     \* the revoker thread: its iterator and its call
    retryer      \* the retryer thread: its iterator and its call

serverVars == <<owner, waiting, sentTo, revokes, free_locks, revoker, retryer>>

(***************************************************************************)
(* A server thread is idle (waiting on its condition variable or about to  *)
(* start a pass), or in an RPC about lock l to client c with its iterator  *)
(* at position i.                                                          *)
(***************************************************************************)
Idle == [at |-> "idle"]
Calling(i, l, c) == [at |-> "sent", i |-> i, lock |-> l, clt |-> c]
Called(w, ret) == [at |-> "done", i |-> w.i, lock |-> w.lock, clt |-> w.clt, ret |-> ret]

Worker == {Idle}
    \cup [at : {"sent"}, i : Nat, lock : Lock, clt : Client]
    \cup [at : {"done"}, i : Nat, lock : Lock, clt : Client, ret : Status]

ServerInit ==
    /\ owner = [l \in Lock |-> NoClient]
    /\ waiting = [l \in Lock |-> <<>>]
    /\ sentTo = [l \in Lock |-> NoClient]
    /\ revokes = <<>>
    /\ free_locks = <<>>
    /\ revoker = Idle
    /\ retryer = Idle

ServerTypeOK ==
    /\ owner \in [Lock -> Client \cup {NoClient}]
    /\ waiting \in [Lock -> Seq(Client)]
    /\ sentTo \in [Lock -> Client \cup {NoClient}]
    /\ revokes \in Seq(Lock \X Client)
    /\ free_locks \in Seq(Lock)
    /\ revoker \in Worker
    /\ retryer \in Worker

(***************************************************************************)
(* acquire: a free lock is granted if nobody waits for it and no retry is  *)
(* out for it, or to the client the retry went to.                         *)
(***************************************************************************)
Grantable(c, l) ==
    /\ owner[l] = NoClient
    /\ \/ sentTo[l] = NoClient /\ waiting[l] = <<>>
       \/ sentTo[l] = c

AcquireStatus(c, l) == IF Grantable(c, l) THEN "OK" ELSE "RETRY"

Grant(c, l) ==
    /\ Grantable(c, l)
    /\ owner' = [owner EXCEPT ![l] = c]
    /\ sentTo' = [sentTo EXCEPT ![l] = NoClient]
    /\ UNCHANGED <<waiting, revokes>>

\* Faulty: a lock that is FREE is revoked from the client "".
RefuseAlwaysRevokes(c, l) ==
    /\ ~ Grantable(c, l)
    /\ waiting' = [waiting EXCEPT ![l] = AppendNew(@, c)]
    /\ revokes' = AppendNew(revokes, <<l, owner[l]>>)
    /\ UNCHANGED <<owner, sentTo>>

Refuse(c, l) ==
    /\ ~ Grantable(c, l)
    /\ waiting' = [waiting EXCEPT ![l] = AppendNew(@, c)]
    /\ revokes' = IF owner[l] = NoClient THEN revokes
                  ELSE AppendNew(revokes, <<l, owner[l]>>)
    /\ UNCHANGED <<owner, sentTo>>

acquire(c, l) ==
    /\ Grant(c, l) \/ Refuse(c, l)
    /\ UNCHANGED <<free_locks, revoker, retryer>>

(***************************************************************************)
(* release: refused unless the caller is the owner or the client a retry   *)
(* is out to; otherwise the lock is free, whoever owned it.                *)
(***************************************************************************)
MayRelease(c, l) == owner[l] = c \/ sentTo[l] = c

ReleaseStatus(c, l) == IF MayRelease(c, l) THEN "OK" ELSE "RPCERR"

\* Faulty: the revoke of the released lock is erased under the revoker.
releaseErasesRevoke(c, l) ==
    /\ IF MayRelease(c, l)
       THEN /\ owner' = [owner EXCEPT ![l] = NoClient]
            /\ sentTo' = [sentTo EXCEPT ![l] = NoClient]
            /\ free_locks' = Append(free_locks, l)
            /\ revokes' = Remove(revokes, <<l, c>>)
       ELSE UNCHANGED <<owner, sentTo, free_locks, revokes>>
    /\ UNCHANGED <<waiting, revoker, retryer>>

release(c, l) ==
    /\ IF MayRelease(c, l)
       THEN /\ owner' = [owner EXCEPT ![l] = NoClient]
            /\ sentTo' = [sentTo EXCEPT ![l] = NoClient]
            /\ free_locks' = Append(free_locks, l)
       ELSE UNCHANGED <<owner, sentTo, free_locks>>
    /\ UNCHANGED <<waiting, revokes, revoker, retryer>>

(***************************************************************************)
(* revoker: a pass over revokes, one RPC per pair; the pair is erased when *)
(* the client answers OK and kept for the next pass otherwise.             *)
(***************************************************************************)
RevokerAt(list, i) ==
    IF i <= Len(list) THEN Calling(i, list[i][1], list[i][2]) ELSE Idle

RevokerStart ==
    /\ revoker = Idle
    /\ revokes # <<>>
    /\ revoker' = RevokerAt(revokes, 1)
    /\ UNCHANGED <<owner, waiting, sentTo, revokes, free_locks, retryer>>

RevokerReply ==
    /\ revoker.at = "done"
    /\ IF revoker.ret = "OK"
       THEN /\ revokes' = Erase(revokes, revoker.i)
            /\ revoker' = RevokerAt(revokes', revoker.i)
       ELSE /\ revoker' = RevokerAt(revokes, revoker.i + 1)
            /\ UNCHANGED revokes
    /\ UNCHANGED <<owner, waiting, sentTo, free_locks, retryer>>

(***************************************************************************)
(* retryer: a pass over free_locks.  At a lock with a waiting client and   *)
(* no retry out, the first waiter is taken off the list and called.  A     *)
(* lock without one stays in free_locks, even after it has been granted.   *)
(***************************************************************************)
RetryerMove(i, list, queue, sent) ==
    LET due(l) == queue[l] # <<>> /\ sent[l] = NoClient
        j == FirstOf({n \in i .. Len(list) : due(list[n])})
    IN  IF j # 0
        THEN LET l == list[j] IN
             /\ waiting' = [queue EXCEPT ![l] = Tail(@)]
             /\ sentTo' = [sent EXCEPT ![l] = Head(queue[l])]
             /\ retryer' = Calling(j, l, Head(queue[l]))
        ELSE /\ retryer' = Idle
             /\ waiting' = queue
             /\ sentTo' = sent

RetryerStart ==
    /\ retryer = Idle
    /\ \E i \in DOMAIN free_locks :
          waiting[free_locks[i]] # <<>> /\ sentTo[free_locks[i]] = NoClient
    /\ RetryerMove(1, free_locks, waiting, sentTo)
    /\ UNCHANGED <<owner, revokes, free_locks, revoker>>

RetryerReply ==
    /\ retryer.at = "done"
    /\ revokes' = IF waiting[retryer.lock] = <<>> THEN revokes
                  ELSE AppendNew(revokes, <<retryer.lock, retryer.clt>>)
    /\ IF retryer.ret = "OK"
       THEN /\ free_locks' = Erase(free_locks, retryer.i)
            /\ RetryerMove(retryer.i, free_locks', waiting, sentTo)
       ELSE /\ RetryerMove(retryer.i + 1, free_locks, waiting, sentTo)
            /\ UNCHANGED free_locks
    /\ UNCHANGED <<owner, revoker>>
=============================================================================
