---------------------------- MODULE LockService -----------------------------
(***************************************************************************)
(* The caching lock service: clients and server composed.  A step is a     *)
(* step of a client's thread, releaser or RPC handler, a step of a server  *)
(* handler or thread, or an RPC that times out.                            *)
(***************************************************************************)
EXTENDS LockServer, LockClient

vars == <<serverVars, clientVars, rpcVars>>

Init == ServerInit /\ ClientInit /\ RpcInit

TypeOK == ServerTypeOK /\ ClientTypeOK /\ RpcTypeOK

(***************************************************************************)
(* The server runs the handler of a call it has received.                  *)
(***************************************************************************)
ServeAcquire(c, x) ==
    /\ call[c][x].at = "sent" /\ call[c][x].op = "acquire"
    /\ LET l == call[c][x].lock IN
       /\ acquire(c, l)
       /\ call' = [call EXCEPT ![c][x] = Answer("acquire", l, AcquireStatus(c, l))]
    /\ UNCHANGED <<clientVars, late, timeouts>>

ServeRelease(c, x) ==
    /\ call[c][x].at = "sent" /\ call[c][x].op = "release"
    /\ LET l == call[c][x].lock IN
       /\ release(c, l)
       /\ call' = [call EXCEPT ![c][x] = Answer("release", l, ReleaseStatus(c, l))]
    /\ UNCHANGED <<clientVars, late, timeouts>>

(***************************************************************************)
(* A client runs the handler of a call of the revoker or the retryer.      *)
(***************************************************************************)
DeliverRevoke ==
    /\ revoker.at = "sent"
    /\ revoke(revoker.clt, revoker.lock)
    /\ revoker' = Called(revoker, "OK")
    /\ UNCHANGED <<owner, waiting, sentTo, revokes, free_locks, retryer, rpcVars>>

DeliverRetry ==
    /\ retryer.at = "sent"
    /\ retry(retryer.clt, retryer.lock)
    /\ retryer' = Called(retryer, RetryStatus(retryer.clt, retryer.lock))
    /\ UNCHANGED <<owner, waiting, sentTo, revokes, free_locks, revoker, rpcVars>>

(***************************************************************************)
(* Timeouts, and the handler of a call whose caller has given up.          *)
(***************************************************************************)
CallTimeout(c, x) ==
    /\ call[c][x].at # "none"
    /\ CountTimeout
    /\ LeaveLate(call[c][x].at, call[c][x].op, c, call[c][x].lock)
    /\ call' = [call EXCEPT ![c][x] = Answer(@.op, @.lock, "TIMEOUT")]
    /\ UNCHANGED <<serverVars, clientVars>>

RevokerTimeout ==
    /\ revoker # Idle
    /\ CountTimeout
    /\ LeaveLate(revoker.at, "revoke", revoker.clt, revoker.lock)
    /\ revoker' = Called(revoker, "TIMEOUT")
    /\ UNCHANGED <<owner, waiting, sentTo, revokes, free_locks, retryer, clientVars, call>>

RetryerTimeout ==
    /\ retryer # Idle
    /\ CountTimeout
    /\ LeaveLate(retryer.at, "retry", retryer.clt, retryer.lock)
    /\ retryer' = Called(retryer, "TIMEOUT")
    /\ UNCHANGED <<owner, waiting, sentTo, revokes, free_locks, revoker, clientVars, call>>

Late(m) ==
    /\ late' = late \ {m}
    /\ \/ m.op = "acquire" /\ acquire(m.client, m.lock) /\ UNCHANGED clientVars
       \/ m.op = "release" /\ release(m.client, m.lock) /\ UNCHANGED clientVars
       \/ m.op = "revoke" /\ revoke(m.client, m.lock) /\ UNCHANGED serverVars
       \/ m.op = "retry" /\ retry(m.client, m.lock) /\ UNCHANGED serverVars
    /\ UNCHANGED <<call, timeouts>>

ThreadStep(c, t) ==
    \/ AcquireWake(c, t)
    \/ RetryWake(c, t)
    \/ AcquireReturn(c, t)
    \/ Release(c, t)

ReleaserStep(c) == ReleaserStart(c) \/ ReleaserReturn(c)

ClientStep(c) ==
    /\ \/ \E t \in Thread : ThreadStep(c, t)
       \/ \E t \in Thread, l \in Lock : AcquireEnter(c, t, l)
       \/ ReleaserStep(c)
    /\ UNCHANGED serverVars

ServerThreadStep ==
    /\ RevokerStart \/ RevokerReply \/ RetryerStart \/ RetryerReply
    /\ UNCHANGED <<clientVars, rpcVars>>

Next ==
    \/ \E c \in Client : ClientStep(c)
    \/ \E c \in Client, x \in Caller : ServeAcquire(c, x) \/ ServeRelease(c, x)
    \/ ServerThreadStep
    \/ DeliverRevoke
    \/ DeliverRetry
    \/ \E c \in Client, x \in Caller : CallTimeout(c, x)
    \/ RevokerTimeout
    \/ RetryerTimeout
    \/ \E m \in late : Late(m)

Spec == Init /\ [][Next]_vars

-----------------------------------------------------------------------------
(***************************************************************************)
(* At most one thread of the whole system holds a lock: lock_tester.cc     *)
(* counts the holders of each lock in check_grant and dies at the second.  *)
(***************************************************************************)
Holders(l) == {h \in Client \X Thread : pc[h[1]][h[2]] = "holding" /\ wants[h[1]][h[2]] = l}

MutualExclusion == \A l \in Lock : \A h1, h2 \in Holders(l) : h1 = h2

(***************************************************************************)
(* A thread is in a client's list of waiting threads for a lock, once, for *)
(* exactly as long as it is inside acquire for that lock: pop_front in     *)
(* acquire takes out the thread that runs it and nobody else, and remove   *)
(* in release finds nothing.                                               *)
(***************************************************************************)
InAcquire == {"asleep", "awake", "calling", "retrysleep", "retryawake"}

QueuedWhileAcquiring ==
    \A c \in Client, l \in Lock :
       /\ \A t \in Thread : t \in Range(waiting_threads[c][l])
                              <=> wants[c][t] = l /\ pc[c][t] \in InAcquire
       /\ \A i, j \in DOMAIN waiting_threads[c][l] :
             waiting_threads[c][l][i] = waiting_threads[c][l][j] => i = j

(***************************************************************************)
(* The thread that talks to the server about a lock, from the call of      *)
(* acquire to the end of the wait for a retry, is the first of the list    *)
(* the whole time, however the releaser changes the lock's state meanwhile *)
(* (lock_client_cache.h, "the first thread in the list interacts with the  *)
(* server").  So a client never has two acquire calls out for one lock.    *)
(***************************************************************************)
FirstThreadTalks ==
    \A c \in Client, t \in Thread :
       pc[c][t] \in {"calling", "retrysleep", "retryawake"}
          => Head(waiting_threads[c][wants[c][t]]) = t

(***************************************************************************)
(* No wakeup is lost: a thread asleep on li.cond in acquire still has a    *)
(* reason to sleep.  Every change that would let it go on (release, retry, *)
(* the releaser giving the lock back) broadcasts, and the changes that do  *)
(* not broadcast (a grant, a RETRY answer) leave every sleeper blocked.    *)
(***************************************************************************)
NoLostWakeup ==
    \A c \in Client, t \in Thread :
       /\ pc[c][t] = "asleep"
             => Blocked(c, t, wants[c][t], waiting_threads[c][wants[c][t]], state)
       /\ pc[c][t] = "retrysleep" => ~ retry_received[c][wants[c][t]]

(***************************************************************************)
(* The iterators that the releaser, the revoker and the retryer keep over  *)
(* an RPC, while others append to the lists, still point at the element    *)
(* the RPC was about when it returns, so that erase takes out that one.    *)
(***************************************************************************)
IteratorsValid ==
    /\ \A c \in Client : relpos[c] # 0 =>
          /\ relpos[c] \in DOMAIN revoke_queue[c]
          /\ call[c][Releaser].lock = revoke_queue[c][relpos[c]]
    /\ revoker # Idle =>
          /\ revoker.i \in DOMAIN revokes
          /\ revokes[revoker.i] = <<revoker.lock, revoker.clt>>
    /\ retryer # Idle =>
          /\ retryer.i \in DOMAIN free_locks
          /\ free_locks[retryer.i] = retryer.lock

(***************************************************************************)
(* A lock is marked to_be_revoked at a client exactly while it is in the   *)
(* releaser's queue: no thread is barred from a lock nobody will give      *)
(* back, and no lock is given back that threads may still take.            *)
(***************************************************************************)
RevokedIffQueued ==
    \A c \in Client, l \in Lock :
       to_be_revoked[c][l] <=> l \in Range(revoke_queue[c])

(***************************************************************************)
(* Threads of a client get a lock in the order in which they asked for it: *)
(* a thread that starts to hold it has no thread before it in the list.    *)
(***************************************************************************)
NoOvertaking ==
    [][\A c \in Client, t \in Thread :
          pc[c][t] # "holding" /\ pc'[c][t] = "holding" =>
             LET q == waiting_threads[c][wants'[c][t]]
             IN  q = <<>> \/ Head(q) = t]_vars

(***************************************************************************)
(* Nothing is under way: no call, no handler, no thread about to run.      *)
(***************************************************************************)
Quiet ==
    /\ \A c \in Client : \A x \in Caller : call[c][x] = NoCall
    /\ \A c \in Client, t \in Thread : pc[c][t] \in {"idle", "asleep", "retrysleep"}
    /\ \A c \in Client : ~ \E i \in DOMAIN revoke_queue[c] :
                               Releasable(c, state, revoke_queue[c][i])
    /\ revoker = Idle /\ revokes = <<>>
    /\ retryer = Idle
    /\ ~ \E i \in DOMAIN free_locks :
            waiting[free_locks[i]] # <<>> /\ sentTo[free_locks[i]] = NoClient

(***************************************************************************)
(* When everything has come to rest, nobody is left inside acquire: the    *)
(* server sends a thread it refused a retry "at some point later"          *)
(* (lock_client_cache.h).                                                  *)
(***************************************************************************)
NobodyStranded ==
    Quiet => \A c \in Client, t \in Thread : pc[c][t] = "idle"

(***************************************************************************)
(* Who has the lock, as its users see it.                                  *)
(***************************************************************************)
Nobody == <<NoClient, NoLock>>

HolderOf(l) == IF Holders(l) = {} THEN Nobody ELSE CHOOSE h \in Holders(l) : TRUE

Exclusive == INSTANCE ExclusiveLock WITH
    Agent <- Client \X Thread,
    holder <- [l \in Lock |-> HolderOf(l)]

(***************************************************************************)
(* The service is an exclusive lock for the threads of its clients: a lock *)
(* goes from nobody to one thread and from that thread to nobody.          *)
(***************************************************************************)
ImplementsExclusiveLock == Exclusive!Spec
=============================================================================
