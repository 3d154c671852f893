---------------------------- MODULE PaxosGroup ----------------------------
(***************************************************************************)
(* Paxos among a fixed list of nodes, Group: a node proposes its value for *)
(* the instance after the last one it knows to be decided, as config::add  *)
(* and config::remove_wo do.                                               *)
(***************************************************************************)
EXTENDS Paxos

CONSTANTS Group,    \* c_nodes of every run
          Wants     \* Wants[p]: the value p proposes, if it does

ASSUME GroupAssumption ==
  /\ Group \in Seq(Node) /\ Group # <<>>
  /\ DOMAIN Wants \subseteq Node /\ Range(Wants) \subseteq Value

Init ==
  /\ acc = [p \in Node |-> [Blank(p) EXCEPT !.instance_h = 1,
                                            !.values[1] = FirstValue]]
  /\ disk = acc
  /\ pro = [p \in Node |-> Stable]
  /\ my_n \in [Node -> GarbageN]
  /\ late = {} /\ votes = {}
  /\ faults = 0

Propose(p) ==
  /\ p \in DOMAIN Wants
  /\ acc[p].instance_h < MaxInstance /\ setn(p) <= MaxN
  /\ run(p, acc[p].instance_h + 1, Group, Wants[p])

Next ==
  \/ \E p \in Node :
       \/ Propose(p)
       \/ Prepare(p)
       \/ Accept(p)
       \/ Decide(p)
       \/ Timeout(p)
       \/ Restart(p)
  \/ \E a \in late : Late(a)

Spec == Init /\ [][Next]_paxosVars

----------------------------------------------------------------------------
Decided(p, i) == i \in 1..acc[p].instance_h

\* Two nodes that know an instance to be decided know the same value: the
\* "total order of views" that config.cc asks Paxos for.
Agreement ==
  \A p, q \in Node, i \in Instance :
    Decided(p, i) /\ Decided(q, i) => acc[p].values[i] = acc[q].values[i]

Tie ==
  \E a, b \in votes :
    /\ a.instance = b.instance /\ a.v # b.v
    /\ a.n.n = b.n.n /\ a.n.m # b.n.m

OneInstance == \A a, b \in votes : a.instance = b.instance

\* As long as proposals of one instance only have been accepted, the nodes agree,
\* unless two nodes have had different values accepted under the same n:
\* proposer::prepare compares n and leaves m out.
AgreementUnlessTie == OneInstance => Agreement \/ Tie

\* Proposal numbers that compare alike: m is left over from an earlier number
\* when logread sets n to 0, and never compared with anything then.
Same(a, b) == a.n = b.n /\ (a.n = 0 \/ a.m = b.m)

\* What logread would rebuild is the acceptor's state, except for a promise that
\* acceptreq raised to the number it accepts: logprop writes n_a, not n_h.
DurableState ==
  \A p \in Node :
    /\ disk[p].instance_h = acc[p].instance_h
    /\ disk[p].values = acc[p].values
    /\ disk[p].v_a = acc[p].v_a
    /\ Same(disk[p].n_a, acc[p].n_a)
    /\ Same(disk[p].n_h, acc[p].n_h) \/ acc[p].n_h = acc[p].n_a

\* Positions of Group whose node accepted v for instance i under number n.
Accepters(i, n, v) ==
  {k \in DOMAIN Group :
     [by |-> Group[k], instance |-> i, n |-> n, v |-> v] \in votes}

Chosen(i, v) == \E n \in {w.n : w \in votes} : 2 * Cardinality(Accepters(i, n, v)) > Len(Group)

\* A value decided by Paxos is one that a majority of the nodes accepted under one
\* number, whether it came in a decide or in the answer to a late prepare, and in
\* whatever order: "the majority of the previous view agrees to the next view".
MajorityAgreed ==
  \A p \in Node : \A i \in 2..acc[p].instance_h :
    acc[p].values[i] = NoValue \/ Chosen(i, acc[p].values[i])

\* A node never unlearns a decision nor replaces it, through crashes as well.
Irrevocable ==
  [][\A p \in Node :
       /\ acc[p].instance_h <= acc'[p].instance_h
       /\ \A i \in Instance : Decided(p, i) => acc'[p].values[i] = acc[p].values[i]
    ]_paxosVars
=============================================================================
