------------------------------- MODULE Paxos -------------------------------
(***************************************************************************)
(* The proposer and the acceptor of paxos.cc and the acceptor's log        *)
(* (log.cc).  Every node runs one of each.  A proposer runs one instance   *)
(* at a time and calls the nodes one after the other; a call that times    *)
(* out leaves its request in late, where it is served later or never.      *)
(*                                                                         *)
(* The log is kept as what logread makes of it: each record appended to    *)
(* the file is applied to disk[p] as logread would apply it.  A string is  *)
(* an element of Value, NoValue standing for the empty one.  One handler   *)
(* runs at a time on a node.                                               *)
(***************************************************************************)
EXTENDS Naturals, Sequences, FiniteSets, Functions

CONSTANTS Node,         \* addresses, numbers: prop_t::m is compared with >
          First,        \* the node started with first = me
          Value,        \* the values proposed
          NoValue,      \* the empty string
          FirstValue,   \* the value of instance 1
          GarbageN,     \* what the uninitialised proposer::my_n.n may hold
          MaxN,         \* bound on proposal numbers
          MaxInstance,  \* bound on instances
          MaxFaults     \* bound on timeouts and crashes

ASSUME PaxosAssumption ==
  /\ Node \subseteq Nat /\ First \in Node
  /\ FirstValue # NoValue /\ NoValue \notin Value
  /\ GarbageN \subseteq Nat /\ GarbageN # {}
  /\ MaxN \in Nat /\ MaxInstance \in Nat \ {0} /\ MaxFaults \in Nat

VARIABLES acc,       \* acc[p]: the acceptor of node p
          disk,      \* disk[p]: what logread makes of p's log
          pro,       \* pro[p]: the run of p's proposer
          my_n,      \* my_n[p]: number of the last proposal of p
          late,      \* requests whose call has timed out
          faults,    \* number of timeouts and crashes so far
          votes      \* history: the proposals accepted, and by whom

paxosVars == <<acc, disk, pro, my_n, late, faults, votes>>

Instance == 0..MaxInstance

gt(a, b) == a.n > b.n \/ (a.n = b.n /\ a.m > b.m)

ge(a, b) == a.n > b.n \/ (a.n = b.n /\ a.m >= b.m)

majorityOne(l1, l2) ==   \* faulty: one node is enough
  \E i \in DOMAIN l1 : l1[i] \in Range(l2)

majority(l1, l2) ==
  Cardinality({i \in DOMAIN l1 : l1[i] \in Range(l2)}) >= (Len(l1) \div 2) + 1

----------------------------------------------------------------------------
(* The log. *)

loginstance(d, i, v) ==
  [d EXCEPT !.values[i] = v, !.instance_h = i, !.v_a = NoValue,
            !.n_h.n = 0, !.n_a.n = 0]

loghighLost(d, n) == d   \* faulty: the promise is not written

loghigh(d, n) == [d EXCEPT !.n_h = n]

logprop(d, n, v) == [d EXCEPT !.n_a = n, !.v_a = v]

----------------------------------------------------------------------------
(* The acceptor. *)

Blank(p) ==
  [n_h |-> [n |-> 0, m |-> p], n_a |-> [n |-> 0, m |-> p], v_a |-> NoValue,
   instance_h |-> 0, values |-> [i \in Instance |-> NoValue]]

\* The constructor: the log is read and, on the first node, instance 1 is
\* decided if the log decides nothing.
Constructed(p, d) ==
  IF d.instance_h = 0 /\ p = First THEN loginstance(d, 1, FirstValue) ELSE d

PrepareReply(p, a) ==
  LET old == a.instance <= acc[p].instance_h
  IN [oldinstance |-> old,
      accept |-> ~old /\ gt(a.n, acc[p].n_h),
      n_a |-> acc[p].n_a,
      v_a |-> IF old THEN acc[p].values[a.instance] ELSE acc[p].v_a]

preparereq(p, a) ==
  IF PrepareReply(p, a).accept
  THEN /\ acc' = [acc EXCEPT ![p].n_h = a.n]
       /\ disk' = [disk EXCEPT ![p] = loghigh(@, a.n)]
       /\ UNCHANGED votes
  ELSE UNCHANGED <<acc, disk, votes>>

AcceptReplyAny(p, a) == a.instance > acc[p].instance_h   \* faulty: no promise kept

AcceptReply(p, a) == a.instance > acc[p].instance_h /\ ge(a.n, acc[p].n_h)

acceptreq(p, a) ==
  IF AcceptReply(p, a)
  THEN /\ acc' = [acc EXCEPT ![p].n_h = a.n, ![p].n_a = a.n, ![p].v_a = a.v]
       /\ disk' = [disk EXCEPT ![p] = logprop(@, a.n, a.v)]
       /\ votes' = votes \union
            {[by |-> p, instance |-> a.instance, n |-> a.n, v |-> a.v]}
  ELSE UNCHANGED <<acc, disk, votes>>

commitAgain(p, i, v) ==   \* faulty: instance > instance_h is not checked
  /\ acc' = [acc EXCEPT ![p] = [Blank(p) EXCEPT
               !.instance_h = i, !.values = [acc[p].values EXCEPT ![i] = v]]]
  /\ disk' = [disk EXCEPT ![p] = loginstance(@, i, v)]
  /\ UNCHANGED votes

commit(p, i, v) ==
  IF i > acc[p].instance_h
  THEN /\ acc' = [acc EXCEPT ![p] = [Blank(p) EXCEPT
                    !.instance_h = i, !.values = [acc[p].values EXCEPT ![i] = v]]]
       /\ disk' = [disk EXCEPT ![p] = loginstance(@, i, v)]
       /\ UNCHANGED votes
  ELSE UNCHANGED <<acc, disk, votes>>

decidereq(p, a) == commit(p, a.instance, a.v)

serve(a) ==
  \/ a.op = "prepare" /\ preparereq(a.to, a)
  \/ a.op = "accept" /\ acceptreq(a.to, a)
  \/ a.op = "decide" /\ decidereq(a.to, a)

----------------------------------------------------------------------------
(* The proposer. *)

Stable == [op |-> "stable"]
Running(p) == pro[p].op # "stable"

setn(p) == 1 + (IF acc[p].n_h.n > my_n[p] THEN acc[p].n_h.n ELSE my_n[p])

\* Nobody runs with an empty list of nodes; a run that finds the proposer busy
\* returns at once and changes nothing.
run(p, i, nodes, v) ==
  /\ ~Running(p) /\ nodes # <<>>
  /\ my_n' = [my_n EXCEPT ![p] = setn(p)]
  /\ pro' = [pro EXCEPT ![p] =
       [op |-> "prepare", instance |-> i, c_nodes |-> nodes, left |-> nodes,
        accepts |-> <<>>, v |-> v, highest_n |-> 0]]
  /\ UNCHANGED <<acc, disk, late, faults, votes>>

\* The call the proposer of p is in.
Request(p) ==
  LET q == pro[p]
  IN [to |-> Head(q.left), op |-> q.op, instance |-> q.instance,
      n |-> [n |-> my_n[p], m |-> p], v |-> q.v]

\* The proposer of p goes on from q: the next node, the next phase, or the
\* end of run.  accept() goes to the nodes that accepted the prepare, decide()
\* to those that accepted the proposal.
Goes(p, q) ==
  LET won == q.op # "decide" /\ majority(q.c_nodes, q.accepts)
      phase == IF q.op = "prepare" THEN "accept" ELSE "decide"
  IN pro' = [pro EXCEPT ![p] =
       IF q.left # <<>> THEN q
       ELSE IF won
       THEN [q EXCEPT !.op = phase, !.left = q.accepts, !.accepts = <<>>]
       ELSE Stable]

Accepted(q, ok) ==
  [q EXCEPT !.left = Tail(q.left),
            !.accepts = IF ok THEN Append(q.accepts, Head(q.left)) ELSE q.accepts]

\* An answer to a prepare: the value of the highest number n is taken over, an
\* old instance is committed, a rejection ends the run.
Prepare(p) ==
  LET q == pro[p]
      r == PrepareReply(Head(q.left), Request(p))
      higher == r.n_a.n > q.highest_n /\ r.v_a # NoValue
      heard == IF higher THEN [q EXCEPT !.highest_n = r.n_a.n, !.v = r.v_a] ELSE q
  IN /\ q.op = "prepare"
     /\ \/ /\ r.accept
           /\ preparereq(Head(q.left), Request(p))
           /\ Goes(p, Accepted(heard, TRUE))
        \/ /\ r.oldinstance
           /\ commit(p, q.instance, r.v_a)
           /\ pro' = [pro EXCEPT ![p] = Stable]
        \/ /\ ~r.accept /\ ~r.oldinstance
           /\ pro' = [pro EXCEPT ![p] = Stable]
           /\ UNCHANGED <<acc, disk, votes>>
     /\ UNCHANGED <<my_n, late, faults>>

Accept(p) ==
  LET q == pro[p]
  IN /\ q.op = "accept"
     /\ acceptreq(Head(q.left), Request(p))
     /\ Goes(p, Accepted(q, AcceptReply(Head(q.left), Request(p))))
     /\ UNCHANGED <<my_n, late, faults>>

Decide(p) ==
  LET q == pro[p]
  IN /\ q.op = "decide"
     /\ decidereq(Head(q.left), Request(p))
     /\ Goes(p, Accepted(q, FALSE))
     /\ UNCHANGED <<my_n, late, faults>>

\* The call of p's proposer fails: it goes on to the next node.
Timeout(p) ==
  /\ Running(p)
  /\ faults < MaxFaults
  /\ faults' = faults + 1
  /\ late' = late \union {Request(p)}
  /\ Goes(p, Accepted(pro[p], FALSE))
  /\ UNCHANGED <<acc, disk, my_n, votes>>

\* A request whose call has timed out is served; nobody hears the answer.
Late(a) ==
  /\ a \in late
  /\ late' = late \ {a}
  /\ serve(a)
  /\ UNCHANGED <<pro, my_n, faults>>

\* p crashes, at a breakpoint or anywhere else, and comes back with its log.
Restart(p) ==
  /\ faults < MaxFaults
  /\ faults' = faults + 1
  /\ acc' = [acc EXCEPT ![p] = Constructed(p, disk[p])]
  /\ disk' = [disk EXCEPT ![p] = Constructed(p, disk[p])]
  /\ pro' = [pro EXCEPT ![p] = Stable]
  /\ \E n \in GarbageN : my_n' = [my_n EXCEPT ![p] = n]
  /\ UNCHANGED <<late, votes>>
=============================================================================
