--------------------------- MODULE MCLockService ----------------------------
(***************************************************************************)
(* LockService for TLC: symmetry, fairness and liveness.                   *)
(***************************************************************************)
EXTENDS LockService, TLC

Symmetry == Permutations(Client) \cup Permutations(Thread)

(***************************************************************************)
(* Threads run when they can, RPCs are served and answered, and a thread   *)
(* that holds a lock releases it, as the threads of lock_tester.cc do.     *)
(***************************************************************************)
Fairness ==
    /\ \A c \in Client, t \in Thread : WF_vars(ThreadStep(c, t) /\ UNCHANGED serverVars)
    /\ \A c \in Client, x \in Caller : WF_vars(ServeAcquire(c, x) \/ ServeRelease(c, x))
    /\ \A c \in Client : WF_vars(ReleaserStep(c) /\ UNCHANGED serverVars)
    /\ WF_vars((RevokerStart \/ RevokerReply) /\ UNCHANGED <<clientVars, rpcVars>>)
    /\ WF_vars((RetryerStart \/ RetryerReply) /\ UNCHANGED <<clientVars, rpcVars>>)
    /\ WF_vars(DeliverRevoke)
    /\ WF_vars(DeliverRetry)

FairSpec == Spec /\ Fairness

(***************************************************************************)
(* Every call of acquire returns with the lock.                            *)
(***************************************************************************)
EventuallyHolds ==
    \A c \in Client, t \in Thread : pc[c][t] \in InAcquire ~> pc[c][t] = "holding"
=============================================================================
