----------------------------- MODULE LockClient -----------------------------
(***************************************************************************)
(* lock_client_cache.cc: the caching lock client.  Every step runs from    *)
(* one pthread_mutex_lock of lock_mutex to the next unlock, wait or RPC,   *)
(* so a thread of acquire is asleep on li.cond, in its acquire RPC, or     *)
(* running; the releaser thread is in its release RPC or between passes.   *)
(* The sequence numbers are left out: the server stores the number of a    *)
(* granted acquire and never reads it.  dorelease, the call the releaser   *)
(* makes to the extent client before its RPC, is not of this module.       *)
(***************************************************************************)
EXTENDS LockProtocol

VARIABLES
    state,            \* lock_cache[l].state at client c
    waiting_threads,  \* lock_cache[l].waiting_threads
    to_be_revoked,    \* lock_cache[l].to_be_revoked
    retry_received,   \* lock_cache[l].retry_received
    cached,           \* the locks lock_cache has an entry for
    revoke_queue,     \* revoke_queue
    pc,               \* where thread t of client c is in acquire, or holding
    wants,            \* the lock thread t acquires or holds
    relpos,           \* the releaser's iterator, 0 between passes
    acquires          \* how often acquire has been called, up to MaxAcquires

clientVars == <<state, waiting_threads, to_be_revoked, retry_received, cached,
                revoke_queue, pc, wants, relpos, acquires>>

LockState == {"NONE", "FREE", "LOCKED", "ACQUIRING", "RELEASING"}

(***************************************************************************)
(* "asleep": in pthread_cond_wait at the top of the loop; "awake": that    *)
(* wait was broadcast to and has yet to get the mutex; "calling": in the   *)
(* acquire RPC; "retrysleep", "retryawake": the same two in the loop that  *)
(* waits for retry_received; "holding": acquire has returned.              *)
(***************************************************************************)
PC == {"idle", "asleep", "awake", "calling", "retrysleep", "retryawake", "holding"}

ClientInit ==
    /\ state = [c \in Client |-> [l \in Lock |-> "NONE"]]
    /\ waiting_threads = [c \in Client |-> [l \in Lock |-> <<>>]]
    /\ to_be_revoked = [c \in Client |-> [l \in Lock |-> FALSE]]
    /\ retry_received = [c \in Client |-> [l \in Lock |-> FALSE]]
    /\ cached = [c \in Client |-> {}]
    /\ revoke_queue = [c \in Client |-> <<>>]
    /\ pc = [c \in Client |-> [t \in Thread |-> "idle"]]
    /\ wants = [c \in Client |-> [t \in Thread |-> NoLock]]
    /\ relpos = [c \in Client |-> 0]
    /\ acquires = 0

ClientTypeOK ==
    /\ state \in [Client -> [Lock -> LockState]]
    /\ waiting_threads \in [Client -> [Lock -> Seq(Thread)]]
    /\ to_be_revoked \in [Client -> [Lock -> BOOLEAN]]
    /\ retry_received \in [Client -> [Lock -> BOOLEAN]]
    /\ cached \in [Client -> SUBSET Lock]
    /\ revoke_queue \in [Client -> Seq(Lock)]
    /\ pc \in [Client -> [Thread -> PC]]
    /\ wants \in [Client -> [Thread -> Lock \cup {NoLock}]]
    /\ relpos \in [Client -> Nat]
    /\ acquires \in 0 .. MaxAcquires

(***************************************************************************)
(* pthread_cond_broadcast(li.cond).                                        *)
(***************************************************************************)
Woken(p) == CASE p = "asleep" -> "awake" [] p = "retrysleep" -> "retryawake" [] OTHER -> p

Broadcast(c, l) == [pc EXCEPT ![c] =
    [t \in Thread |-> IF wants[c][t] = l THEN Woken(pc[c][t]) ELSE pc[c][t]]]

(***************************************************************************)
(* What the loop of acquire does with the mutex held, q the list of        *)
(* waiting threads and s the states: sleep, call the server, or take a     *)
(* lock the client owns.                                                   *)
(***************************************************************************)
\* Faulty: any thread of the list may go ahead.
BlockedAnyTurn(c, t, l, q, s) ==
    \/ to_be_revoked[c][l]
    \/ s[c][l] \notin {"NONE", "FREE"}

Blocked(c, t, l, q, s) ==
    \/ to_be_revoked[c][l]
    \/ Head(q) # t
    \/ s[c][l] \notin {"NONE", "FREE"}

Sleep(c, t, l, q, s) ==
    /\ Blocked(c, t, l, q, s)
    /\ pc' = [pc EXCEPT ![c][t] = "asleep"]
    /\ waiting_threads' = [waiting_threads EXCEPT ![c][l] = q]
    /\ call' = [call EXCEPT ![c][t] = NoCall]
    /\ state' = s
    /\ UNCHANGED retry_received

CallServer(c, t, l, q, s) ==
    /\ ~ Blocked(c, t, l, q, s)
    /\ s[c][l] = "NONE"
    /\ state' = [s EXCEPT ![c][l] = "ACQUIRING"]
    /\ retry_received' = [retry_received EXCEPT ![c][l] = FALSE]
    /\ pc' = [pc EXCEPT ![c][t] = "calling"]
    /\ call' = [call EXCEPT ![c][t] = Sent("acquire", l)]
    /\ waiting_threads' = [waiting_threads EXCEPT ![c][l] = q]

\* Faulty: the state stays FREE.
TakeFreeUnmarked(c, t, l, q, s) ==
    /\ ~ Blocked(c, t, l, q, s)
    /\ s[c][l] = "FREE"
    /\ state' = s
    /\ pc' = [pc EXCEPT ![c][t] = "holding"]
    /\ waiting_threads' = [waiting_threads EXCEPT ![c][l] = Tail(q)]
    /\ call' = [call EXCEPT ![c][t] = NoCall]
    /\ UNCHANGED retry_received

TakeFree(c, t, l, q, s) ==
    /\ ~ Blocked(c, t, l, q, s)
    /\ s[c][l] = "FREE"
    /\ state' = [s EXCEPT ![c][l] = "LOCKED"]
    /\ pc' = [pc EXCEPT ![c][t] = "holding"]
    /\ waiting_threads' = [waiting_threads EXCEPT ![c][l] = Tail(q)]
    /\ call' = [call EXCEPT ![c][t] = NoCall]
    /\ UNCHANGED retry_received

Loop(c, t, l, q, s) ==
    \/ Sleep(c, t, l, q, s)
    \/ CallServer(c, t, l, q, s)
    \/ TakeFree(c, t, l, q, s)

AcquireEnter(c, t, l) ==
    /\ pc[c][t] = "idle"
    /\ acquires < MaxAcquires
    /\ acquires' = acquires + 1
    /\ wants' = [wants EXCEPT ![c][t] = l]
    /\ cached' = [cached EXCEPT ![c] = @ \cup {l}]
    /\ Loop(c, t, l, AppendNew(waiting_threads[c][l], t), state)
    /\ UNCHANGED <<to_be_revoked, revoke_queue, relpos, late, timeouts>>

AcquireWake(c, t) ==
    /\ pc[c][t] = "awake"
    /\ LET l == wants[c][t] IN Loop(c, t, l, waiting_threads[c][l], state)
    /\ UNCHANGED <<to_be_revoked, cached, revoke_queue, wants, relpos, acquires, late,
                   timeouts>>

(***************************************************************************)
(* while (!li.retry_received) pthread_cond_wait(li.cond, &lock_mutex), and *)
(* round the loop after it.                                                *)
(***************************************************************************)
AwaitRetry(c, t, l, s) ==
    IF retry_received[c][l]
    THEN Loop(c, t, l, waiting_threads[c][l], s)
    ELSE /\ pc' = [pc EXCEPT ![c][t] = "retrysleep"]
         /\ call' = [call EXCEPT ![c][t] = NoCall]
         /\ state' = s
         /\ UNCHANGED <<waiting_threads, retry_received>>

RetryWake(c, t) ==
    /\ pc[c][t] = "retryawake"
    /\ AwaitRetry(c, t, wants[c][t], state)
    /\ UNCHANGED <<to_be_revoked, cached, revoke_queue, wants, relpos, acquires, late,
                   timeouts>>

(***************************************************************************)
(* The acquire RPC returns.  OK: the thread holds the lock.  RETRY: it     *)
(* waits for a retry, or goes on if one has come.  Any other code: it goes *)
(* round the loop with the state as it is, ACQUIRING as a rule.            *)
(***************************************************************************)
\* Faulty: the thread stays in the list.
AcquireOKNoPop(c, t, l) ==
    /\ call[c][t].ret = "OK"
    /\ state' = [state EXCEPT ![c][l] = "LOCKED"]
    /\ pc' = [pc EXCEPT ![c][t] = "holding"]
    /\ call' = [call EXCEPT ![c][t] = NoCall]
    /\ UNCHANGED <<waiting_threads, retry_received>>

AcquireOK(c, t, l) ==
    /\ call[c][t].ret = "OK"
    /\ state' = [state EXCEPT ![c][l] = "LOCKED"]
    /\ waiting_threads' = [waiting_threads EXCEPT ![c][l] = Tail(@)]
    /\ pc' = [pc EXCEPT ![c][t] = "holding"]
    /\ call' = [call EXCEPT ![c][t] = NoCall]
    /\ UNCHANGED retry_received

AcquireRetry(c, t, l) ==
    /\ call[c][t].ret = "RETRY"
    /\ AwaitRetry(c, t, l, [state EXCEPT ![c][l] = "NONE"])

AcquireFailed(c, t, l) ==
    /\ call[c][t].ret \notin {"OK", "RETRY"}
    /\ Loop(c, t, l, waiting_threads[c][l], state)

AcquireReturn(c, t) ==
    /\ call[c][t].at = "done"
    /\ LET l == wants[c][t] IN
          AcquireOK(c, t, l) \/ AcquireRetry(c, t, l) \/ AcquireFailed(c, t, l)
    /\ UNCHANGED <<to_be_revoked, cached, revoke_queue, wants, relpos, acquires, late,
                   timeouts>>

(***************************************************************************)
(* release: the state becomes FREE whatever it was; everybody is woken.    *)
(* The list has a thread at most once (QueuedWhileAcquiring), so that      *)
(* list::remove takes out the first occurrence or nothing.                 *)
(***************************************************************************)
\* Faulty: nobody is woken.
ReleaseNoBroadcast(c, t) ==
    /\ pc[c][t] = "holding"
    /\ LET l == wants[c][t] IN
       /\ state' = [state EXCEPT ![c][l] = "FREE"]
       /\ waiting_threads' = [waiting_threads EXCEPT ![c][l] = Remove(@, t)]
    /\ pc' = [pc EXCEPT ![c][t] = "idle"]
    /\ wants' = [wants EXCEPT ![c][t] = NoLock]
    /\ UNCHANGED <<to_be_revoked, retry_received, cached, revoke_queue, relpos, acquires,
                   rpcVars>>

\* Faulty: the state stays LOCKED.
ReleaseStillLocked(c, t) ==
    /\ pc[c][t] = "holding"
    /\ LET l == wants[c][t] IN
       /\ waiting_threads' = [waiting_threads EXCEPT ![c][l] = Remove(@, t)]
       /\ pc' = [Broadcast(c, l) EXCEPT ![c][t] = "idle"]
    /\ wants' = [wants EXCEPT ![c][t] = NoLock]
    /\ UNCHANGED <<state, to_be_revoked, retry_received, cached, revoke_queue, relpos,
                   acquires, rpcVars>>

Release(c, t) ==
    /\ pc[c][t] = "holding"
    /\ LET l == wants[c][t] IN
       /\ state' = [state EXCEPT ![c][l] = "FREE"]
       /\ waiting_threads' = [waiting_threads EXCEPT ![c][l] = Remove(@, t)]
       /\ pc' = [Broadcast(c, l) EXCEPT ![c][t] = "idle"]
    /\ wants' = [wants EXCEPT ![c][t] = NoLock]
    /\ UNCHANGED <<to_be_revoked, retry_received, cached, revoke_queue, relpos, acquires,
                   rpcVars>>

(***************************************************************************)
(* releaser: a pass over revoke_queue.  It stops at the next lock that is  *)
(* not LOCKED, marks it RELEASING and calls the server.                    *)
(***************************************************************************)
Releasable(c, s, l) == s[c][l] # "LOCKED"

ReleaserMove(c, i, list, s) ==
    LET due(l) == Releasable(c, s, l)
        j == FirstOf({n \in i .. Len(list) : due(list[n])})
    IN  IF j # 0
        THEN /\ state' = [s EXCEPT ![c][list[j]] = "RELEASING"]
             /\ relpos' = [relpos EXCEPT ![c] = j]
             /\ call' = [call EXCEPT ![c][Releaser] = Sent("release", list[j])]
        ELSE /\ state' = s
             /\ relpos' = [relpos EXCEPT ![c] = 0]
             /\ call' = [call EXCEPT ![c][Releaser] = NoCall]

ReleaserStart(c) ==
    /\ relpos[c] = 0
    /\ \E i \in DOMAIN revoke_queue[c] : Releasable(c, state, revoke_queue[c][i])
    /\ ReleaserMove(c, 1, revoke_queue[c], state)
    /\ UNCHANGED <<waiting_threads, to_be_revoked, retry_received, cached, revoke_queue,
                   pc, wants, acquires, late, timeouts>>

\* Faulty: to_be_revoked is not reset.
ReleaserReturnStillRevoked(c) ==
    /\ call[c][Releaser].at = "done"
    /\ LET l == call[c][Releaser].lock IN
       IF call[c][Releaser].ret = "OK"
       THEN /\ revoke_queue' = [revoke_queue EXCEPT ![c] = Erase(@, relpos[c])]
            /\ pc' = Broadcast(c, l)
            /\ ReleaserMove(c, relpos[c], revoke_queue'[c],
                            [state EXCEPT ![c][l] = "NONE"])
       ELSE /\ ReleaserMove(c, relpos[c] + 1, revoke_queue[c], state)
            /\ UNCHANGED <<revoke_queue, pc>>
    /\ UNCHANGED <<waiting_threads, to_be_revoked, retry_received, cached, wants, acquires,
                   late, timeouts>>

ReleaserReturn(c) ==
    /\ call[c][Releaser].at = "done"
    /\ LET l == call[c][Releaser].lock IN
       IF call[c][Releaser].ret = "OK"
       THEN /\ to_be_revoked' = [to_be_revoked EXCEPT ![c][l] = FALSE]
            /\ revoke_queue' = [revoke_queue EXCEPT ![c] = Erase(@, relpos[c])]
            /\ pc' = Broadcast(c, l)
            /\ ReleaserMove(c, relpos[c], revoke_queue'[c],
                            [state EXCEPT ![c][l] = "NONE"])
       ELSE /\ ReleaserMove(c, relpos[c] + 1, revoke_queue[c], state)
            /\ UNCHANGED <<to_be_revoked, revoke_queue, pc>>
    /\ UNCHANGED <<waiting_threads, retry_received, cached, wants, acquires, late, timeouts>>

(***************************************************************************)
(* The handlers of the server's RPCs: revoke and retry.                    *)
(***************************************************************************)
revoke(c, l) ==
    /\ to_be_revoked' = [to_be_revoked EXCEPT ![c][l] = TRUE]
    /\ revoke_queue' = [revoke_queue EXCEPT ![c] = AppendNew(@, l)]
    /\ cached' = [cached EXCEPT ![c] = @ \cup {l}]
    /\ UNCHANGED <<state, waiting_threads, retry_received, pc, wants, relpos, acquires>>

RetryStatus(c, l) == IF l \in cached[c] THEN "OK" ELSE "RPCERR"

\* Faulty: the waiting thread is not woken.
retryNoBroadcast(c, l) ==
    /\ retry_received' = IF l \in cached[c] THEN [retry_received EXCEPT ![c][l] = TRUE]
                         ELSE retry_received
    /\ UNCHANGED <<state, waiting_threads, to_be_revoked, cached, revoke_queue, pc, wants,
                   relpos, acquires>>

retry(c, l) ==
    /\ IF l \in cached[c]
       THEN /\ retry_received' = [retry_received EXCEPT ![c][l] = TRUE]
            /\ pc' = Broadcast(c, l)
       ELSE UNCHANGED <<retry_received, pc>>
    /\ UNCHANGED <<state, waiting_threads, to_be_revoked, cached, revoke_queue, wants, relpos,
                   acquires>>
=============================================================================
