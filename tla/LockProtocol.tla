---------------------------- MODULE LockProtocol ----------------------------
(***************************************************************************)
(* What the caching lock client and the caching lock server share: the     *)
(* names of the parties, the status codes of lock_protocol.h, and the RPCs *)
(* a client's threads have outstanding at the server.                      *)
(*                                                                         *)
(* The RPC library is reduced to what its users see.  A call executes its  *)
(* handler at most once and then returns the handler's status, or it times *)
(* out; a call that timed out before its handler ran may still run late,   *)
(* and nobody sees its result.                                             *)
(***************************************************************************)
EXTENDS Naturals, Sequences, Functions

CONSTANTS
    Client,      \* lock clients, by the id "host:port" they give the server
    Thread,      \* application threads of one client
    Lock,        \* lock ids
    NoClient,    \* the empty client id ""
    NoLock,      \* what a thread that is not in acquire wants
    Releaser,    \* the releaser thread of a client
    MaxAcquires, \* bound on the calls of lock_client_cache::acquire
    MaxTimeouts  \* bound on the RPCs that time out

ASSUME ProtocolAssumption ==
    /\ NoClient \notin Client
    /\ NoLock \notin Lock
    /\ Releaser \notin Thread
    /\ MaxAcquires \in Nat
    /\ MaxTimeouts \in Nat

(***************************************************************************)
(* lock_protocol.h and the negative codes of the RPC library.              *)
(***************************************************************************)
Status == {"OK", "RETRY", "RPCERR", "TIMEOUT"}

Caller == Thread \cup {Releaser}

VARIABLES
    call,     \* call[c][x]: the call thread x of client c is blocked in
    late,     \* requests whose caller gave up before the handler ran
    timeouts  \* how many calls have timed out

rpcVars == <<call, late, timeouts>>

(***************************************************************************)
(* A call is nowhere, at the server, or answered with ret.                 *)
(***************************************************************************)
NoCall == [at |-> "none"]
Sent(op, l) == [at |-> "sent", op |-> op, lock |-> l]
Answer(op, l, ret) == [at |-> "done", op |-> op, lock |-> l, ret |-> ret]

Op == {"acquire", "release", "revoke", "retry"}
CallState == {NoCall}
    \cup [at : {"sent"}, op : Op, lock : Lock]
    \cup [at : {"done"}, op : Op, lock : Lock, ret : Status]
Request == [op : Op, client : Client, lock : Lock]

RpcInit ==
    /\ call = [c \in Client |-> [x \in Caller |-> NoCall]]
    /\ late = {}
    /\ timeouts = 0

RpcTypeOK ==
    /\ call \in [Client -> [Caller -> CallState]]
    /\ late \subseteq Request
    /\ timeouts \in Nat

(***************************************************************************)
(* cl->call gives up: it returns a negative code, and if the handler has   *)
(* not run yet the request stays on its way.                               *)
(***************************************************************************)
CountTimeout ==
    /\ timeouts < MaxTimeouts
    /\ timeouts' = timeouts + 1

LeaveLate(at, op, c, l) ==
    late' = IF at = "sent" THEN late \cup {[op |-> op, client |-> c, lock |-> l]} ELSE late

(***************************************************************************)
(* The std::list operations of both sides: push_back of an element that    *)
(* find does not find; erase at a position; remove of an element that is   *)
(* in the list at most once; and where a loop over the list first acts, of *)
(* the positions at which it would (0: nowhere).  They are written out     *)
(* here because the modules below SequencesExt and FiniteSetsExt slow the  *)
(* proof manager down by an order of magnitude.                            *)
(***************************************************************************)
AppendNew(s, e) == IF e \in Range(s) THEN s ELSE Append(s, e)

Erase(s, i) == SubSeq(s, 1, i - 1) \o SubSeq(s, i + 1, Len(s))

Remove(s, e) ==
    IF e \in Range(s) THEN Erase(s, CHOOSE i \in DOMAIN s : s[i] = e) ELSE s

FirstOf(found) ==
    LET least(i) == \A j \in found : i =< j
    IN  IF \E i \in found : least(i) THEN CHOOSE i \in found : least(i) ELSE 0
=============================================================================
