-------------------------- MODULE AgreementProofs --------------------------
(***************************************************************************)
(* Agreement of the nodes, for every list of nodes and any number of       *)
(* proposals and faults.  The proof is about the histories in which one    *)
(* instance is voted on, the second, and no two nodes had different values *)
(* accepted under the same n.                                              *)
(***************************************************************************)
EXTENDS PaxosProofs

-----------------------------------------------------------------------------
(* The steps. *)

\* Acceptors and votes are left alone.
LEMMA QuietNodes ==
  ASSUME PaxosInv, Consensus, acc' = acc, disk' = disk, votes' = votes
  PROVE  Grows /\ NodesFine' /\ SecondOnly'
<1>1. Grows
  BY QuietGrows, Zenon DEF PaxosInv, AcceptorInv
<1>2. ASSUME NEW k \in Node PROVE NodeFine(k)'
  <2>1. NodeFine(k)
    BY Zenon DEF Consensus, NodesFine
  <2> QED
    BY <2>1, NodeStays, Zenon
<1> QED
  BY <1>1, <1>2, Zenon DEF NodesFine, SecondOnly, Consensus

\* The number of a proposer.
LEMMA ItsNumber ==
  ASSUME PaxosInv, NEW p \in Node
  PROVE  Num(p) \in Number /\ Num(p).m = p /\ Num(p).n = my_n[p]
BY Zenon DEF PaxosInv, Num, Number

\* The nodes a call leaves to be called.
LEMMA CallLeft ==
  ASSUME NEW q \in Run, q.left # <<>>, NEW ok \in BOOLEAN
  PROVE  /\ Accepted(q, ok).highest_n = q.highest_n
         /\ Range(Accepted(q, ok).left) \subseteq Range(q.left)
         /\ Head(q.left) \in Range(q.left)
<1>1. q.left \in Seq(Node)
  BY Zenon DEF Run
<1>2. PICK s, t : s = (IF ok THEN Append(q.accepts, Head(q.left)) ELSE q.accepts)
                  /\ t = Tail(q.left)
  BY Zenon
<1>3. Accepted(q, ok) = [q EXCEPT !.left = t, !.accepts = s]
  BY <1>2, Zenon DEF Accepted
<1>4. Accepted(q, ok).left = t /\ Accepted(q, ok).highest_n = q.highest_n
  BY <1>3, Zenon DEF Run
<1>5. Range(t) \subseteq Range(q.left) /\ Head(q.left) \in Range(q.left)
  BY <1>1, <1>2 DEF Range
<1> QED
  BY <1>4, <1>5, Zenon

\* The state of a run before a step is what the run may be after it.
LEMMA RunMayStay ==
  ASSUME PaxosInv, AcceptorInv', Consensus, Grows, my_n' = my_n, NEW p \in Node,
         NEW q \in Run, q = pro[p], NEW N \in Number, N = Num(p)
  PROVE  RunMay(p, q, N)
<1>1. RunFine(p, q)
  BY Zenon DEF Consensus, RunsFine, Run
<1>2. my_n[p] \in Nat /\ AcceptorInv
  BY Zenon DEF PaxosInv
<1>3. q.instance = 2 /\ q.op = "prepare" => Heard(p, q)'
  BY <1>1, <1>2, HeardStays, Zenon DEF RunFine
<1>4. q.instance = 2 /\ q.op = "accept" => Proposal(N, q.v)
  BY Zenon DEF Proposal
<1>5. /\ N.n > 0 /\ (q.instance = 2 \/ votes # {})
      /\ q.instance = 2 /\ q.op = "prepare" =>
           \A v \in Val : Proposal(N, v) => Owned(N, Range(q.accepts))
      /\ q.instance = 2 /\ q.op = "accept" => \A k \in Range(q.left) : Promised(k, N)
  BY <1>1, Zenon DEF RunFine, Unused, Num
<1> QED
  BY <1>3, <1>4, <1>5, Zenon DEF RunMay

\* A run that goes on after a call without an answer it heeds.
LEMMA RunMayGoOn ==
  ASSUME NEW p \in Node, NEW q \in Run, NEW N \in Number, N = Num(p)', RunMay(p, q, N),
         NEW r \in Run, r.op = q.op, r.instance = q.instance, r.v = q.v,
         r.highest_n = q.highest_n, Range(r.left) \subseteq Range(q.left),
         q.op = "prepare" => Range(r.accepts) \subseteq Range(q.accepts)
  PROVE  RunMay(p, r, N)
<1>1. CASE q.instance = 2 /\ q.op = "prepare"
  <2>1. Heard(p, r)'
    BY <1>1, Zenon DEF RunMay, Heard
  <2>2. \A v \in Val : Proposal(N, v) => Owned(N, Range(r.accepts))
    <3> SUFFICES ASSUME NEW v \in Val, Proposal(N, v) PROVE Owned(N, Range(r.accepts))
      BY Zenon
    <3>1. Owned(N, Range(q.accepts))
      BY <1>1, Zenon DEF RunMay
    <3> QED
      BY <1>1, <3>1, Zenon DEF Owned
  <2> QED
    BY <1>1, <2>1, <2>2, Zenon DEF RunMay
<1>2. CASE q.instance = 2 /\ q.op = "accept"
  BY <1>2, Zenon DEF RunMay
<1>3. CASE ~(q.instance = 2 /\ q.op \in {"prepare", "accept"})
  BY <1>3, Zenon DEF RunMay
<1> QED
  BY <1>1, <1>2, <1>3, Zenon

\* A step that no proposer takes.
LEMMA NoProposerMoves ==
  ASSUME PaxosInv, PaxosInv', Consensus, Grows, NodesFine', SecondOnly', pro' = pro,
         my_n' = my_n, late' \subseteq late,
         \A w \in votes' : w \in votes \/ Proposal(w.n, w.v)
  PROVE  Consensus'
<1>1. NothingNew
  BY Zenon DEF NothingNew
<1>2. PICK p \in Node : TRUE
  BY PaxosAssumption, Zenon
<1>3. PICK q, N : q = pro[p] /\ N = Num(p)
  BY Zenon
<1>4. N \in Number /\ N = Num(p)' /\ AcceptorInv'
  BY <1>3, ItsNumber, Zenon DEF Num, PaxosInv
<1>5. OneRun(p, q)
  BY <1>3, Zenon DEF OneRun
<1>6. q = Stable \/ (q \in Run /\ RunMay(p, q, N))
  <2>1. CASE q = Stable
    BY <2>1, Zenon
  <2>2. CASE q \in Run
    BY <1>3, <1>4, <2>2, RunMayStay, Zenon
  <2> QED
    BY <1>3, <2>1, <2>2, Zenon DEF PaxosInv, RunsReady, Ready
<1>7. ProposalsOK' /\ RunsFine'
  BY <1>1, <1>4, <1>5, <1>6, QuietRun, Zenon
<1>8. LateFine'
  BY <1>4, LateStaysFine, Zenon DEF PaxosInv, Consensus
<1> QED
  BY <1>7, <1>8, Zenon DEF Consensus

\* A run that ends.
LEMMA EndsFine ==
  ASSUME PaxosInv, PaxosInv', Consensus, Grows, NodesFine', votes' = votes, late' = late,
         NEW p \in Node, pro' = [pro EXCEPT ![p] = Stable],
         \A k \in Node \ {p} : my_n'[k] = my_n[k]
  PROVE  Consensus'
<1>1. NothingNew
  BY Zenon DEF NothingNew
<1>2. PICK q : q = Stable
  BY Zenon
<1>3. OneRun(p, q)
  BY <1>2, Zenon DEF OneRun, PaxosInv, RunsReady
<1>4. PICK N : N = Num(p)'
  BY Zenon
<1>5. N \in Number /\ AcceptorInv' /\ late' \subseteq Message
  BY <1>4, Zenon DEF PaxosInv, Num, Number
<1>6. ProposalsOK' /\ RunsFine'
  BY <1>1, <1>2, <1>3, <1>4, <1>5, QuietRun, Zenon
<1>7. LateFine'
  BY <1>5, LateStaysFine, Zenon DEF Consensus
<1>8. SecondOnly'
  BY Zenon DEF SecondOnly, Consensus
<1> QED
  BY <1>6, <1>7, <1>8, Zenon DEF Consensus

\* run starts: it proposes for the second instance, or knows that one decided.
LEMMA AgreePropose ==
  ASSUME PaxosInv, PaxosInv', Consensus, NEW p \in Node, Propose(p)
  PROVE  Consensus'
<1>1. /\ acc' = acc /\ disk' = disk /\ votes' = votes /\ late' = late
      /\ my_n' = [my_n EXCEPT ![p] = setn(p)]
  BY Zenon DEF Propose, run
<1>2. Grows /\ NodesFine' /\ SecondOnly'
  BY <1>1, QuietNodes, Zenon
<1>3. NothingNew
  BY <1>1, Zenon DEF NothingNew
<1>4. PICK i, v : i = acc[p].instance_h + 1 /\ v = Wants[p]
  BY Zenon
<1>5. i \in 2..MaxInstance /\ v \in Val /\ v # NoValue
  <2>1. acc[p].instance_h \in 1..MaxInstance
    BY PaxosAssumption, SMTT(30) DEF PaxosInv, AcceptorInv, Acceptor, Instance
  <2>2. acc[p].instance_h < MaxInstance /\ p \in DOMAIN Wants
    BY Zenon DEF Propose
  <2>3. v \in Value
    BY <1>4, <2>2, GroupAssumption, Zenon DEF Range
  <2> QED
    BY <1>4, <2>1, <2>2, <2>3, PaxosAssumption, SMTT(30) DEF Val
<1>6. PICK q : q = [op |-> "prepare", instance |-> i, c_nodes |-> Group, left |-> Group,
                    accepts |-> <<>>, v |-> v, highest_n |-> 0]
  BY Zenon
<1>7. /\ q \in Run /\ q.instance = i /\ q.op = "prepare" /\ q.v = v /\ q.highest_n = 0
      /\ Range(q.accepts) = {}
  BY <1>5, <1>6, GroupAssumption DEF Run, Range
<1>8. OneRun(p, q)
  <2>1. pro' = [pro EXCEPT ![p] = q]
    BY <1>4, <1>6, Zenon DEF Propose, run
  <2>2. DOMAIN pro = Node /\ my_n \in [Node -> Nat]
    BY Zenon DEF PaxosInv, RunsReady
  <2> QED
    BY <1>1, <2>1, <2>2, Zenon DEF OneRun
<1>9. PICK N : N = Num(p)'
  BY Zenon
<1>10. N \in Number /\ N.n > 0
  <2>1. setn(p) \in Nat /\ setn(p) > 0
    BY DEF setn, PaxosInv, AcceptorInv, Acceptor, Number
  <2>2. N = [n |-> setn(p), m |-> p]
    BY <1>1, <1>9, Zenon DEF Num, PaxosInv
  <2> QED
    BY <2>1, <2>2, Zenon DEF Number
<1>11. i = 2 \/ votes # {}
  <2>1. CASE acc[p].instance_h = 1
    BY <1>4, <2>1
  <2>2. CASE acc[p].instance_h # 1
    <3>1. acc[p].instance_h = 2 /\ acc[p].values[2] # NoValue
      BY <2>2, Zenon DEF Consensus, NodesFine, NodeFine
    <3>2. 2 \in 2..MaxInstance
      BY <3>1, PaxosAssumption DEF PaxosInv, AcceptorInv, Acceptor, Instance
    <3>3. Chosen(2, acc[p].values[2])
      BY <3>1, <3>2, Zenon DEF PaxosInv, AcceptorInv, Learned
    <3> QED
      BY <3>3, Zenon DEF Chosen
  <2> QED
    BY <2>1, <2>2, Zenon
<1>12. RunMay(p, q, N)
  <2>1. Heard(p, q)'
    BY <1>5, <1>7, Zenon DEF Heard
  <2>2. \A x \in Val : Proposal(N, x) => Owned(N, Range(q.accepts))
    BY <1>7, <1>10, Zenon DEF Consensus, ProposalsOK
  <2> QED
    BY <1>7, <1>10, <1>11, <2>1, <2>2, Zenon DEF RunMay
<1>13. AcceptorInv' /\ late' \subseteq Message
  BY Zenon DEF PaxosInv
<1>14. ProposalsOK' /\ RunsFine'
  BY <1>2, <1>3, <1>7, <1>8, <1>9, <1>10, <1>12, <1>13, QuietRun, SMTT(30)
<1>15. LateFine'
  BY <1>1, <1>2, <1>13, LateStaysFine, Zenon DEF Consensus
<1> QED
  BY <1>2, <1>14, <1>15, Zenon DEF Consensus
\* The answer of node k to a prepare of p: k promises N, and the value it voted
\* for is taken over when its n is higher than what p heard of so far.
LEMMA PrepareHeard ==
  ASSUME PaxosInv, AcceptorInv', Consensus, Grows, votes' = votes, my_n' = my_n,
         NEW p \in Node, NEW q \in Run, q = pro[p], q.op = "prepare",
         NEW N \in Number, N = Num(p), NEW k \in Node, Promised(k, N)',
         q.instance = 2 => acc[k].instance_h = 1 /\ gt(N, acc[k].n_h),
         NEW h \in Run, h.op = q.op, h.instance = q.instance,
         q.instance = 2 => IF acc[k].n_a.n > q.highest_n /\ acc[k].v_a # NoValue
                           THEN h.highest_n = acc[k].n_a.n /\ h.v = acc[k].v_a
                           ELSE h.highest_n = q.highest_n /\ h.v = q.v,
         NEW r \in Run, r.op = h.op, r.instance = h.instance, r.v = h.v,
         r.highest_n = h.highest_n,
         \A j \in Range(r.accepts) : j \in Range(q.accepts) \/ j = k
  PROVE  RunMay(p, r, N)
<1>0. /\ acc \in [Node -> Acceptor] /\ votes \subseteq Vote /\ ProposalsOK /\ NodeFine(k)
      /\ N = Num(p)'
  BY Zenon DEF PaxosInv, AcceptorInv, Consensus, NodesFine, Num
<1>1. RunMay(p, q, N)
  BY RunMayStay, Zenon
<1>2. CASE q.instance # 2
  BY <1>1, <1>2, Zenon DEF RunMay
<1>3. CASE q.instance = 2
  <2>1. /\ Heard(p, q)' /\ N.n > 0
        /\ \A v \in Val : Proposal(N, v) => Owned(N, Range(q.accepts))
    BY <1>1, <1>3, Zenon DEF RunMay
  <2>2. /\ q.v # NoValue
        /\ \A j \in Range(q.accepts) : Promised(j, N)'
        /\ \A w \in votes : w.by \in Range(q.accepts) /\ gt(N, w.n) => w.n.n <= q.highest_n
        /\ q.highest_n = 0 \/ \E w \in votes : w.n.n = q.highest_n /\ w.v = q.v
    BY <1>0, <2>1, Zenon DEF Heard, Promised
  <2>3. PICK na, va : na = acc[k].n_a /\ va = acc[k].v_a
    BY Zenon
  <2>4. na \in Number /\ va \in Val /\ na.n \in Nat /\ q.highest_n \in Nat
    BY <1>0, <2>3, Zenon DEF Acceptor, Number, Run
  <2>5. /\ \A w \in votes : w.by = k => ge(na, w.n)
        /\ na.n = 0 \/ VotedFor(k, na, va)
    BY <1>0, <1>3, <2>3, Zenon DEF NodeFine
  <2>6. na.n # 0 => /\ va # NoValue
                    /\ \E w \in votes : w.n.n = na.n /\ w.v = va
    <3> SUFFICES ASSUME na.n # 0
                 PROVE  /\ va # NoValue
                        /\ \E w \in votes : w.n.n = na.n /\ w.v = va
      BY Zenon
    <3>1. PICK w \in votes : w = [by |-> k, instance |-> 2, n |-> na, v |-> va]
      BY <2>5, Zenon DEF VotedFor
    <3>2. w.n = na /\ w.v = va
      BY <3>1, Zenon
    <3>3. Proposal(na, va)
      BY <3>2, Zenon DEF Proposal
    <3> QED
      BY <1>0, <2>4, <3>2, <3>3, Zenon DEF ProposalsOK
  <2>7. /\ na.n > q.highest_n => r.highest_n = na.n /\ r.v = va
        /\ ~(na.n > q.highest_n) => r.highest_n = q.highest_n /\ r.v = q.v
    BY <1>3, <2>3, <2>4, <2>6, SMTT(30)
  <2>8. \A w \in votes : w.by = k => w.n.n <= na.n
    BY <1>0, <2>4, <2>5, Order, SMTT(30) DEF Vote, Number
  <2>9. r.v # NoValue /\ (r.highest_n = 0 \/ \E w \in votes : w.n.n = r.highest_n /\ w.v = r.v)
    BY <2>2, <2>4, <2>6, <2>7, SMTT(30)
  <2>10. \A w \in votes : w.by \in Range(r.accepts) /\ gt(N, w.n) => w.n.n <= r.highest_n
    <3> SUFFICES ASSUME NEW w \in votes, w.by \in Range(r.accepts), gt(N, w.n)
                 PROVE  w.n.n <= r.highest_n
      BY Zenon
    <3>1. w.n.n \in Nat
      BY <1>0, Zenon DEF Vote, Number
    <3>2. w.n.n <= q.highest_n \/ w.n.n <= na.n
      BY <2>2, <2>8, Zenon
    <3> QED
      BY <2>4, <2>7, <3>1, <3>2, SMTT(30)
  <2>11. Heard(p, r)'
    <3>1. \A j \in Range(r.accepts) : Promised(j, N)'
      BY <2>2, Zenon
    <3> QED
      BY <1>0, <2>9, <2>10, <3>1, Zenon DEF Heard, Promised
  <2>12. \A v \in Val : Proposal(N, v) => Owned(N, Range(r.accepts))
    <3> SUFFICES ASSUME NEW v \in Val, Proposal(N, v) PROVE Owned(N, Range(r.accepts))
      BY Zenon
    <3>1. PICK K \in Quorum : \A i \in K : Promised(Group[i], N) /\ Group[i] \notin Range(q.accepts)
      BY <2>1, Zenon DEF Owned
    <3>2. ~Promised(k, N)
      <4>1. acc[k].n_h \in Number
        BY <1>0, Zenon DEF Acceptor
      <4> QED
        BY <1>3, <4>1, Order, Zenon DEF Promised
    <3>3. \A i \in K : Group[i] \notin Range(r.accepts)
      BY <3>1, <3>2, Zenon
    <3> QED
      BY <3>1, <3>3, Zenon DEF Owned
  <2> QED
    BY <1>3, <2>1, <2>11, <2>12, Zenon DEF RunMay
<1> QED
  BY <1>2, <1>3, Zenon

\* An answer to a prepare.
LEMMA AgreePrepare ==
  ASSUME PaxosInv, PaxosInv', Consensus, ~Tie, NEW p \in Node, Prepare(p)
  PROVE  Consensus'
<1>1. PICK q, k, a : q = pro[p] /\ k = Head(q.left) /\ a = Request(p)
  BY Zenon
<1>2. q.op = "prepare" /\ my_n' = my_n /\ late' = late
  BY <1>1, Zenon DEF Prepare
<1>3a. q.op # "stable"
  BY <1>2, Zenon
<1>3b. InCall(p, q, a)
  BY <1>1, <1>3a, Requested, Zenon
<1>3. /\ q \in Run /\ q.left # <<>> /\ k \in Node
      /\ a \in Message /\ a.instance = q.instance /\ a.n = Num(p)
  BY <1>1, <1>3b, Zenon DEF InCall, Num
<1>4. PICK N : N = Num(p)
  BY Zenon
<1>5. N \in Number /\ N = a.n /\ AcceptorInv' /\ late' \subseteq Message
  BY <1>3, <1>4, ItsNumber, Zenon DEF PaxosInv
<1>6. /\ acc \in [Node -> Acceptor] /\ AcceptorInv /\ NodesFine /\ NodeFine(k)
      /\ acc[k] \in Acceptor
  BY <1>3, Zenon DEF PaxosInv, AcceptorInv, Consensus, NodesFine
<1>7. /\ q.instance \in 2..MaxInstance /\ acc[k].instance_h \in 1..MaxInstance
      /\ acc[k].n_a \in Number /\ acc[k].v_a \in Val /\ acc[k].values \in [Instance -> Val]
  BY <1>3, <1>6, PaxosAssumption DEF Run, Acceptor, Instance
<1>8. PICK r : r = PrepareReply(k, a)
  BY Zenon
<1>9. CASE r.accept /\ preparereq(k, a)
           /\ Goes(p, Accepted(IF r.n_a.n > q.highest_n /\ r.v_a # NoValue
                               THEN [q EXCEPT !.highest_n = r.n_a.n, !.v = r.v_a]
                               ELSE q, TRUE))
  <2>1. Grows /\ NodesFine' /\ votes' = votes /\ Promised(k, N)'
    BY <1>3, <1>5, <1>6, <1>8, <1>9, PromiseMade, Zenon
  <2>2. ~(q.instance <= acc[k].instance_h) /\ gt(N, acc[k].n_h)
    BY <1>3, <1>5, <1>8, <1>9, ZenonT(30) DEF PrepareReply
  <2>3. r.n_a = acc[k].n_a /\ r.v_a = acc[k].v_a
    BY <1>3, <1>8, <2>2, Zenon DEF PrepareReply
  <2>4. q.instance = 2 => acc[k].instance_h = 1 /\ gt(N, acc[k].n_h)
    BY <1>7, <2>2, PaxosAssumption
  <2>5. PICK h : h = IF r.n_a.n > q.highest_n /\ r.v_a # NoValue
                     THEN [q EXCEPT !.highest_n = r.n_a.n, !.v = r.v_a] ELSE q
    BY Zenon
  <2>6. /\ h \in Run /\ h.left = q.left /\ h.op = q.op /\ h.instance = q.instance
        /\ h.accepts = q.accepts
        /\ IF acc[k].n_a.n > q.highest_n /\ acc[k].v_a # NoValue
           THEN h.highest_n = acc[k].n_a.n /\ h.v = acc[k].v_a
           ELSE h.highest_n = q.highest_n /\ h.v = q.v
    BY <1>3, <1>7, <2>3, <2>5, Zenon DEF Run, Number
  <2>7. PICK s : s = Accepted(h, TRUE)
    BY ZenonT(30)
  <2>8. /\ s \in Run /\ s.op = h.op /\ s.instance = h.instance /\ s.v = h.v
        /\ s.highest_n = h.highest_n
        /\ \A j \in Range(s.accepts) : j \in Range(q.accepts) \/ j = k
    <3>1. h.left # <<>> /\ Head(h.left) = k /\ TRUE \in BOOLEAN
      BY <1>1, <1>3, <2>6, ZenonT(30)
    <3>2. s.highest_n = h.highest_n
      BY <2>6, <2>7, <3>1, CallLeft, Zenon
    <3>3. /\ s \in Run /\ s.op = h.op /\ s.instance = h.instance /\ s.v = h.v
          /\ \A j \in Range(s.accepts) : j \in Range(h.accepts) \/ j = k
      BY <2>6, <2>7, <3>1, AfterCall, ZenonT(30)
    <3> QED
      BY <2>6, <3>2, <3>3, Zenon
  <2>9. RunMay(p, s, N)
    BY <1>1, <1>2, <1>3, <1>4, <1>5, <2>1, <2>4, <2>6, <2>8, PrepareHeard
  <2>10. NothingNew
    BY <1>2, <2>1, Zenon DEF NothingNew
  <2>11. Goes(p, s)
    BY <1>9, <2>5, <2>7, Zenon
  <2>12. ProposalsOK' /\ RunsFine'
    BY <1>2, <1>4, <1>5, <2>1, <2>8, <2>9, <2>10, <2>11, GoesOnFine, ZenonT(30)
  <2>13. LateFine'
    BY <1>2, <1>5, <2>1, LateStaysFine, Zenon DEF Consensus
  <2>14. SecondOnly'
    BY <2>1, Zenon DEF SecondOnly, Consensus
  <2> QED
    BY <2>1, <2>12, <2>13, <2>14, Zenon DEF Consensus
<1>10. CASE r.oldinstance /\ commit(p, q.instance, r.v_a) /\ pro' = [pro EXCEPT ![p] = Stable]
  <2>1. q.instance <= acc[k].instance_h /\ r.v_a = acc[k].values[q.instance]
    BY <1>3, <1>8, <1>10, ZenonT(30) DEF PrepareReply
  <2>2. q.instance = 2 /\ acc[k].values[2] # NoValue
    BY <1>6, <1>7, <2>1, PaxosAssumption DEF NodeFine
  <2>3. r.v_a \in Val /\ r.v_a # NoValue /\ 2 \in 2..MaxInstance
    BY <1>7, <2>1, <2>2, PaxosAssumption, SMTT(30) DEF Instance
  <2>4. Grows /\ NodesFine' /\ votes' = votes
    BY <1>6, <1>10, <2>2, <2>3, DecisionTaken, Zenon
  <2> QED
    BY <1>2, <1>10, <2>4, EndsFine, ZenonT(30)
<1>11. CASE pro' = [pro EXCEPT ![p] = Stable] /\ UNCHANGED <<acc, disk, votes>>
  <2>1. Grows /\ NodesFine'
    BY <1>11, QuietNodes, Zenon
  <2> QED
    BY <1>2, <1>11, <2>1, EndsFine, ZenonT(30)
<1> QED
  BY <1>1, <1>8, <1>9, <1>10, <1>11, Zenon DEF Prepare

\* An answer to an accept.
LEMMA AgreeAccept ==
  ASSUME PaxosInv, PaxosInv', Consensus, ~Tie, OneInstance', NEW p \in Node, Accept(p)
  PROVE  Consensus'
<1>1. PICK q, k, a : q = pro[p] /\ k = Head(q.left) /\ a = Request(p)
  BY Zenon
<1>2. PICK ok \in BOOLEAN : ok = AcceptReply(k, a)
  BY Zenon DEF AcceptReply
<1>3. /\ q.op = "accept" /\ acceptreq(k, a) /\ Goes(p, Accepted(q, ok))
      /\ my_n' = my_n /\ late' = late
  BY <1>1, <1>2, Zenon DEF Accept
<1>4a. q.op # "stable"
  BY <1>3, Zenon
<1>4b. InCall(p, q, a)
  BY <1>1, <1>4a, Requested, Zenon
<1>4. /\ q \in Run /\ q.left # <<>> /\ k \in Node /\ a \in Message
      /\ a.instance = q.instance /\ a.v = q.v /\ a.n = Num(p)
  BY <1>1, <1>4b, Zenon DEF InCall, Num
<1>5. PICK N : N = Num(p)
  BY SMTT(30)
<1>6. N \in Number /\ N = a.n /\ N = Num(p)' /\ AcceptorInv' /\ late' \subseteq Message
  BY <1>3, <1>4, <1>5, ItsNumber, Zenon DEF PaxosInv, Num
<1>7. RunFine(p, q)
  BY <1>1, <1>3, Zenon DEF Consensus, RunsFine
<1>8. (a.instance = 2 \/ votes # {}) /\ (a.instance = 2 => Promised(k, a.n))
  <2>1. k \in Range(q.left)
    BY <1>1, <1>4, CallLeft, Zenon
  <2> QED
    BY <1>3, <1>4, <1>7, <2>1, Zenon DEF RunFine
<1>9. AcceptorInv /\ NodesFine /\ SecondOnly /\ LateFine
  BY SMTT(30) DEF PaxosInv, Consensus
<1>10. /\ Grows /\ NodesFine' /\ SecondOnly'
       /\ \A w \in votes' : \/ w \in votes
                            \/ a.instance = 2 /\ w.by = k /\ w.n = a.n /\ w.v = a.v
  BY <1>3, <1>4, <1>8, <1>9, VoteCast, Zenon
<1>11. a.instance = 2 => Proposal(a.n, a.v)
  BY <1>1, <1>3, <1>4, Zenon DEF Proposal
<1>12. NothingNew
  BY <1>3, <1>10, <1>11, Zenon DEF NothingNew
<1>13. RunMay(p, q, N)
  BY <1>1, <1>3, <1>4, <1>5, <1>6, <1>10, RunMayStay, ZenonT(30)
<1>14. PICK r : r = Accepted(q, ok)
  BY Zenon
<1>15. /\ r \in Run /\ r.op = q.op /\ r.instance = q.instance /\ r.v = q.v
       /\ r.highest_n = q.highest_n /\ Range(r.left) \subseteq Range(q.left)
  BY <1>2, <1>4, <1>14, AfterCall, CallLeft, ZenonT(30)
<1>16. RunMay(p, r, N)
  BY <1>3, <1>4, <1>6, <1>13, <1>15, RunMayGoOn, ZenonT(30)
<1>17. ProposalsOK' /\ RunsFine'
  BY <1>3, <1>5, <1>6, <1>10, <1>12, <1>14, <1>15, <1>16, GoesOnFine, ZenonT(30)
<1>18. LateFine'
  BY <1>3, <1>6, <1>9, <1>10, LateStaysFine, ZenonT(30)
<1> QED
  BY <1>10, <1>17, <1>18, Zenon DEF Consensus

\* What is chosen is of the second instance, and is a value.
LEMMA ChosenIsValue ==
  ASSUME PaxosInv, Consensus, NEW i, NEW v \in Val, Chosen(i, v)
  PROVE  i = 2 /\ v # NoValue
<1>1. votes \subseteq Vote /\ SecondOnly /\ ProposalsOK
  BY Zenon DEF PaxosInv, AcceptorInv, Consensus
<1>2. i = 2
  BY <1>1, ChosenVotes, Zenon
<1>3. PICK b \in Number, K \in Quorum : \A j \in K : VotedFor(Group[j], b, v)
  BY <1>1, ChosenVotes, Zenon
<1>4. PICK j \in DOMAIN Group : j \in K
  BY QuorumsMeet, Zenon
<1>5. PICK w \in votes : w = [by |-> Group[j], instance |-> 2, n |-> b, v |-> v]
  BY <1>3, <1>4, Zenon DEF VotedFor
<1>6. w.n = b /\ w.v = v
  BY <1>5, Zenon
<1>7. Proposal(b, v)
  BY <1>6, Zenon DEF Proposal
<1> QED
  BY <1>1, <1>2, <1>7, Zenon DEF ProposalsOK

\* A decide is served.
LEMMA AgreeDecide ==
  ASSUME PaxosInv, PaxosInv', Consensus, ~Tie, NEW p \in Node, Decide(p)
  PROVE  Consensus'
<1>1. PICK q, k, a : q = pro[p] /\ k = Head(q.left) /\ a = Request(p)
  BY Zenon
<1>2. /\ q.op = "decide" /\ commit(k, a.instance, a.v) /\ Goes(p, Accepted(q, FALSE))
      /\ my_n' = my_n /\ late' = late
  BY <1>1, Zenon DEF Decide, decidereq
<1>3a. q.op # "stable"
  BY <1>2, Zenon
<1>3b. InCall(p, q, a)
  BY <1>1, <1>3a, Requested, Zenon
<1>3. /\ q \in Run /\ q.left # <<>> /\ k \in Node /\ RunOK(p, q)
      /\ a.instance = q.instance /\ a.v = q.v
  BY <1>1, <1>3b, Zenon DEF InCall
<1>4. Chosen(q.instance, q.v) /\ q.instance \in 2..MaxInstance /\ q.v \in Val
  BY <1>2, <1>3, Zenon DEF RunOK, Run
<1>5. q.instance = 2 /\ q.v # NoValue
  BY <1>4, ChosenIsValue, Zenon
<1>6. AcceptorInv /\ NodesFine /\ SecondOnly /\ LateFine
  BY SMTT(30) DEF PaxosInv, Consensus
<1>7. Grows /\ NodesFine' /\ votes' = votes
  BY <1>2, <1>3, <1>4, <1>5, <1>6, DecisionTaken, ZenonT(30)
<1>8. PICK N : N = Num(p)
  BY Zenon
<1>9. N \in Number /\ N = Num(p)' /\ AcceptorInv' /\ late' \subseteq Message
  BY <1>2, <1>8, ItsNumber, Zenon DEF PaxosInv, Num
<1>10. PICK r : r = Accepted(q, FALSE)
  BY Zenon
<1>11. /\ r \in Run /\ r.op = q.op /\ r.instance = q.instance /\ r.v = q.v
       /\ r.highest_n = q.highest_n /\ Range(r.left) \subseteq Range(q.left)
  BY <1>3, <1>10, AfterCall, CallLeft, ZenonT(30)
<1>12. RunMay(p, q, N)
  BY <1>1, <1>2, <1>3, <1>7, <1>8, <1>9, RunMayStay, ZenonT(30)
<1>13. RunMay(p, r, N)
  BY <1>2, <1>3, <1>9, <1>11, <1>12, RunMayGoOn, ZenonT(30)
<1>14. NothingNew
  BY <1>2, <1>7, Zenon DEF NothingNew
<1>15. ProposalsOK' /\ RunsFine'
  BY <1>2, <1>7, <1>8, <1>9, <1>10, <1>11, <1>13, <1>14, GoesOnFine, ZenonT(30)
<1>16. LateFine'
  BY <1>2, <1>6, <1>7, <1>9, LateStaysFine, ZenonT(30)
<1>17. SecondOnly'
  BY <1>6, <1>7, Zenon DEF SecondOnly
<1> QED
  BY <1>7, <1>15, <1>16, <1>17, Zenon DEF Consensus

\* A call of the proposer times out.
LEMMA AgreeTimeout ==
  ASSUME PaxosInv, PaxosInv', Consensus, ~Tie, NEW p \in Node, Timeout(p)
  PROVE  Consensus'
<1>1. PICK q, a : q = pro[p] /\ a = Request(p)
  BY SMTT(30)
<1>2. /\ q.op # "stable" /\ Goes(p, Accepted(q, FALSE)) /\ late' = late \union {a}
      /\ acc' = acc /\ disk' = disk /\ votes' = votes /\ my_n' = my_n
  BY <1>1, Zenon DEF Timeout, Running
<1>3a. InCall(p, q, a)
  BY <1>1, <1>2, Requested, Zenon
<1>3. /\ q \in Run /\ q.left # <<>> /\ a.to = Head(q.left) /\ a.op = q.op
      /\ a.instance = q.instance /\ a.v = q.v /\ a.n = Num(p)
  BY <1>3a, Zenon DEF InCall, Num
<1>4. Grows /\ NodesFine' /\ SecondOnly'
  BY <1>2, QuietNodes, Zenon
<1>5. PICK N : N = Num(p)
  BY Zenon
<1>6. N \in Number /\ N = Num(p)' /\ AcceptorInv' /\ late' \subseteq Message
  BY <1>2, <1>5, ItsNumber, Zenon DEF PaxosInv, Num
<1>7. RunMay(p, q, N)
  BY <1>1, <1>2, <1>3, <1>4, <1>5, <1>6, RunMayStay, ZenonT(30)
<1>8. PICK r : r = Accepted(q, FALSE)
  BY Zenon
<1>9. /\ r \in Run /\ r.op = q.op /\ r.instance = q.instance /\ r.v = q.v
      /\ r.highest_n = q.highest_n /\ Range(r.left) \subseteq Range(q.left)
      /\ Range(r.accepts) \subseteq Range(q.accepts)
  BY <1>3, <1>8, AfterCall, CallLeft, ZenonT(30)
<1>10. RunMay(p, r, N)
  BY <1>3, <1>6, <1>7, <1>9, RunMayGoOn, Zenon
<1>11. NothingNew
  <2>1. a.op = "accept" /\ a.instance = 2 => Proposal(a.n, a.v)
    BY <1>1, <1>3, ZenonT(30) DEF Proposal
  <2> QED
    BY <1>2, <2>1, Zenon DEF NothingNew
<1>12. ProposalsOK' /\ RunsFine'
  BY <1>2, <1>4, <1>5, <1>6, <1>8, <1>9, <1>10, <1>11, GoesOnFine, ZenonT(30)
<1>13. LateFine'
  <2>1. Head(q.left) \in Range(q.left)
    BY <1>3, CallLeft, ZenonT(30)
  <2>2. /\ a.instance = 2 \/ votes # {}
        /\ a.instance = 2 /\ a.op = "accept" => Promised(a.to, a.n)
    BY <1>3, <1>5, <1>7, <2>1, Zenon DEF RunMay
  <2> QED
    BY <1>2, <1>4, <1>6, <2>2, LateStaysFine, Zenon DEF Consensus
<1> QED
  BY <1>4, <1>12, <1>13, Zenon DEF Consensus

\* A request is served after its call has timed out.
LEMMA AgreeLate ==
  ASSUME PaxosInv, PaxosInv', Consensus, OneInstance', NEW a \in late, Late(a)
  PROVE  Consensus'
<1>1. /\ late' \subseteq late /\ serve(a) /\ pro' = pro /\ my_n' = my_n
      /\ a \in Message /\ a.to \in Node
  BY Zenon DEF Late, PaxosInv, Message
<1>2. /\ AcceptorInv /\ NodesFine /\ SecondOnly
      /\ a.instance = 2 \/ votes # {}
      /\ a.instance = 2 /\ a.op = "accept" => Promised(a.to, a.n)
  BY Zenon DEF PaxosInv, Consensus, LateFine
<1>3. CASE a.op = "prepare" /\ preparereq(a.to, a)
  <2>1. Grows /\ NodesFine' /\ votes' = votes
    BY <1>1, <1>2, <1>3, PromiseMade, Zenon
  <2>2. SecondOnly'
    BY <1>2, <2>1, Zenon DEF SecondOnly
  <2> QED
    BY <1>1, <2>1, <2>2, NoProposerMoves, Zenon
<1>4. CASE a.op = "accept" /\ acceptreq(a.to, a)
  <2>1. /\ Grows /\ NodesFine' /\ SecondOnly'
        /\ \A w \in votes' : \/ w \in votes
                             \/ a.instance = 2 /\ w.by = a.to /\ w.n = a.n /\ w.v = a.v
    BY <1>1, <1>2, <1>4, VoteCast, ZenonT(30)
  <2>2. a.instance = 2 => Proposal(a.n, a.v)
    BY <1>4, Zenon DEF Proposal
  <2>3. \A w \in votes' : w \in votes \/ Proposal(w.n, w.v)
    BY <2>1, <2>2, ZenonT(30)
  <2> QED
    BY <1>1, <2>1, <2>3, NoProposerMoves, ZenonT(30)
<1>5. CASE a.op = "decide" /\ decidereq(a.to, a)
  <2>1. Chosen(a.instance, a.v) /\ a.instance \in 2..MaxInstance /\ a.v \in Val
    BY <1>1, <1>5, Zenon DEF PaxosInv, LateOK, Message
  <2>2. a.instance = 2 /\ a.v # NoValue
    BY <2>1, ChosenIsValue, Zenon
  <2>3. commit(a.to, 2, a.v)
    BY <1>5, <2>2, Zenon DEF decidereq
  <2>4. Grows /\ NodesFine' /\ votes' = votes
    BY <1>1, <1>2, <2>1, <2>2, <2>3, DecisionTaken, ZenonT(30)
  <2>5. SecondOnly'
    BY <1>2, <2>4, Zenon DEF SecondOnly
  <2> QED
    BY <1>1, <2>4, <2>5, NoProposerMoves, Zenon
<1> QED
  BY <1>1, <1>3, <1>4, <1>5, Zenon DEF serve

\* A node restarts from its log; it does not come back with its number.
LEMMA AgreeRestart ==
  ASSUME PaxosInv, PaxosInv', Consensus, NEW p \in Node, Restart(p)
  PROVE  Consensus'
<1>1. /\ acc \in [Node -> Acceptor] /\ disk \in [Node -> Acceptor] /\ AcceptorInv /\ NodesFine
  BY Zenon DEF PaxosInv, AcceptorInv, Consensus
<1>2. Constructed(p, disk[p]) = disk[p]
  <2>1. disk[p].instance_h # 0
    BY <1>1, Zenon DEF Acceptor
  <2> QED
    BY <2>1, Zenon DEF Constructed
<1>3. /\ acc' = [acc EXCEPT ![p] = disk[p]] /\ disk' = disk /\ late' = late
      /\ votes' = votes /\ pro' = [pro EXCEPT ![p] = Stable]
  BY <1>1, <1>2, Zenon DEF Restart
<1>4. \A k \in Node \ {p} : my_n'[k] = my_n[k]
  BY Zenon DEF Restart, PaxosInv
<1>5. Grows /\ NodesFine'
  BY <1>1, <1>3, NodeComesBack, Zenon
<1> QED
  BY <1>3, <1>4, <1>5, EndsFine, Zenon

\* Votes are never taken back.
LEMMA VotesStay ==
  ASSUME Next
  PROVE  votes \subseteq votes'
<1>1. ASSUME NEW k, NEW a, acceptreq(k, a) PROVE votes \subseteq votes'
  BY <1>1, Zenon DEF acceptreq
<1>2. ASSUME NEW k, NEW a, preparereq(k, a) PROVE votes \subseteq votes'
  BY <1>2, Zenon DEF preparereq
<1>3. ASSUME NEW k, NEW i, NEW v, commit(k, i, v) PROVE votes \subseteq votes'
  BY <1>3, Zenon DEF commit
<1>4. ASSUME NEW p \in Node, Propose(p) \/ Timeout(p) \/ Restart(p) PROVE votes \subseteq votes'
  BY <1>4, Zenon DEF Propose, run, Timeout, Restart
<1>5. ASSUME NEW p \in Node, Prepare(p) PROVE votes \subseteq votes'
  BY <1>2, <1>3, <1>5, ZenonT(30) DEF Prepare
<1>6. ASSUME NEW p \in Node, Accept(p) PROVE votes \subseteq votes'
  BY <1>1, <1>6, Zenon DEF Accept
<1>7. ASSUME NEW p \in Node, Decide(p) PROVE votes \subseteq votes'
  BY <1>3, <1>7, Zenon DEF Decide, decidereq
<1>8. ASSUME NEW a \in late, Late(a) PROVE votes \subseteq votes'
  BY <1>1, <1>2, <1>3, <1>8, Zenon DEF Late, serve, decidereq
<1> QED
  BY <1>4, <1>5, <1>6, <1>7, <1>8, Zenon DEF Next

\* Every step keeps the invariant.
LEMMA ConsensusStep ==
  ASSUME PaxosInv, PaxosInv', ConsensusInv, [Next]_paxosVars
  PROVE  ConsensusInv'
<1> SUFFICES ASSUME OneInstance', ~Tie' PROVE Consensus'
  BY Zenon DEF ConsensusInv
<1>1. votes \subseteq votes'
  BY VotesStay, Zenon DEF paxosVars
<1>2. OneInstance /\ ~Tie
  BY <1>1, Zenon DEF OneInstance, Tie
<1>3. Consensus
  BY <1>2, Zenon DEF ConsensusInv
<1>4. CASE UNCHANGED paxosVars
  <2>1. /\ acc' = acc /\ disk' = disk /\ pro' = pro /\ my_n' = my_n /\ late' = late
        /\ votes' = votes
    BY <1>4, Zenon DEF paxosVars
  <2>2. Grows /\ NodesFine' /\ SecondOnly'
    BY <1>3, <2>1, QuietNodes, Zenon
  <2> QED
    BY <1>3, <2>1, <2>2, NoProposerMoves, Zenon
<1>5. CASE Next
  BY <1>2, <1>3, <1>5, AgreePropose, AgreePrepare, AgreeAccept, AgreeDecide, AgreeTimeout,
     AgreeLate, AgreeRestart, ZenonT(30) DEF Next
<1> QED
  BY <1>4, <1>5, Zenon
\* The invariant holds initially.
LEMMA ConsensusStarts == Init => ConsensusInv
<1> SUFFICES ASSUME Init PROVE Consensus
  BY SMTT(30) DEF ConsensusInv
<1>1. votes = {} /\ late = {} /\ disk = acc /\ pro = [p \in Node |-> Stable] /\ PaxosInv
  BY PaxosStarts, Zenon DEF Init
<1>2. SecondOnly /\ LateFine
  BY <1>1, Zenon DEF SecondOnly, LateFine
<1>3. \A p \in Node : pro[p] = Stable
  BY <1>1, Zenon
<1>4. RunsFine
  BY <1>3 DEF RunsFine, Stable
<1>5. ProposalsOK
  BY <1>1, <1>3, Zenon DEF ProposalsOK, Proposal, Stable
<1>6. NodesFine
  <2> SUFFICES ASSUME NEW k \in Node PROVE NodeFine(k)
    BY Zenon DEF NodesFine
  <2>1. PICK z, none : z = [n |-> 0, m |-> k] /\ none = [i \in Instance |-> NoValue]
    BY Zenon
  <2>2. PICK b : b = [n_h |-> z, n_a |-> z, v_a |-> NoValue, instance_h |-> 0, values |-> none]
    BY Zenon
  <2>3. acc[k] = [b EXCEPT !.instance_h = 1, !.values[1] = FirstValue]
    BY <2>1, <2>2, Zenon DEF Init, Blank
  <2>4. acc[k].instance_h = 1 /\ acc[k].n_h = z /\ acc[k].n_a = z
    BY <2>2, <2>3, Zenon
  <2>5. acc[k].values[1] = FirstValue
    <3>1. 1 \in Instance
      BY PaxosAssumption DEF Instance
    <3>2. acc[k].values = [none EXCEPT ![1] = FirstValue]
      BY <2>2, <2>3, Zenon
    <3> QED
      BY <2>1, <3>1, <3>2, Zenon
  <2>6. z \in Number /\ z.n = 0
    BY <2>1, Zenon DEF Number
  <2>7. ge(z, z)
    BY <2>6, Order, Zenon
  <2> QED
    BY <1>1, <2>4, <2>5, <2>6, <2>7, Zenon DEF NodeFine
<1> QED
  BY <1>2, <1>4, <1>5, <1>6, Zenon DEF Consensus

\* Only one value is chosen.
LEMMA OneIsChosen ==
  ASSUME PaxosInv, Consensus, NEW v \in Val, NEW x \in Val, Chosen(2, v), Chosen(2, x)
  PROVE  v = x
<1>1. votes \subseteq Vote /\ SecondOnly /\ ProposalsOK
  BY Zenon DEF PaxosInv, AcceptorInv, Consensus
<1>2. PICK b \in Number, K \in Quorum : \A j \in K : VotedFor(Group[j], b, v)
  BY <1>1, ChosenVotes, Zenon
<1>3. PICK c \in Number, L \in Quorum : \A j \in L : VotedFor(Group[j], c, x)
  BY <1>1, ChosenVotes, Zenon
<1>4. ASSUME NEW k, NEW d \in Number, NEW y \in Val, VotedFor(k, d, y) PROVE Proposal(d, y)
  <2>1. PICK w \in votes : w = [by |-> k, instance |-> 2, n |-> d, v |-> y]
    BY <1>4, Zenon DEF VotedFor
  <2>2. w.n = d /\ w.v = y
    BY <2>1, Zenon
  <2> QED
    BY <2>2, Zenon DEF Proposal
<1>5. Proposal(b, v) /\ Proposal(c, x)
  <2>1. (\E j \in DOMAIN Group : j \in K) /\ (\E j \in DOMAIN Group : j \in L)
    BY QuorumsMeet, Zenon
  <2> QED
    BY <1>2, <1>3, <1>4, <2>1, Zenon
<1>6. ASSUME NEW d \in Number, NEW y \in Val, NEW e \in Number, NEW z \in Val,
             Proposal(d, y), gt(d, e), NEW Q \in Quorum,
             \A j \in Q : VotedFor(Group[j], e, z)
      PROVE  y = z
  <2>1. SafeAt(d, y)
    BY <1>1, <1>6, Zenon DEF ProposalsOK
  <2>2. PICK R \in Quorum : \A i \in R :
          \/ VotedFor(Group[i], e, y)
          \/ Past(Group[i], e) /\ \A u \in Val : ~VotedFor(Group[i], e, u)
    BY <1>6, <2>1, Zenon DEF SafeAt
  <2>3. PICK i \in DOMAIN Group : i \in Q /\ i \in R
    BY QuorumsMeet, Zenon
  <2>4. VotedFor(Group[i], e, z) /\ VotedFor(Group[i], e, y)
    BY <1>6, <2>2, <2>3, Zenon
  <2>5. Proposal(e, z) /\ Proposal(e, y)
    BY <1>4, <2>4, Zenon
  <2> QED
    BY <1>1, <2>5, Zenon DEF ProposalsOK
<1>7. CASE b = c
  BY <1>1, <1>5, <1>7, Zenon DEF ProposalsOK
<1>8. CASE gt(b, c)
  BY <1>3, <1>5, <1>6, <1>8
<1>9. CASE gt(c, b)
  BY <1>2, <1>5, <1>6, <1>9
<1> QED
  BY <1>7, <1>8, <1>9, Order, Zenon

(***************************************************************************)
(* Nodes that know an instance to be decided know the same value, however  *)
(* prepares, accepts and decides of the proposers interleave, time out and *)
(* arrive late, and whoever crashes in between and forgets its number:     *)
(* unless proposer::prepare met two values under the same n, of which it   *)
(* does not compare the m.                                                 *)
(***************************************************************************)
THEOREM AgreementUnlessTieHolds == Spec => []AgreementUnlessTie
<1>1. PaxosInv /\ ConsensusInv => AgreementUnlessTie
  <2> SUFFICES ASSUME PaxosInv, ConsensusInv, OneInstance, ~Tie PROVE Agreement
    BY Zenon DEF AgreementUnlessTie
  <2>1. Consensus
    BY Zenon DEF ConsensusInv
  <2> SUFFICES ASSUME NEW p \in Node, NEW q \in Node, NEW i \in Instance,
                      Decided(p, i), Decided(q, i)
               PROVE  acc[p].values[i] = acc[q].values[i]
    BY DEF Agreement
  <2>2. NodeFine(p) /\ NodeFine(q)
    BY <2>1, Zenon DEF Consensus, NodesFine
  <2>3. CASE i = 1
    BY <2>2, <2>3, Zenon DEF NodeFine
  <2>4. CASE i # 1
    <3>1. acc[p].instance_h \in 1..MaxInstance /\ acc[q].instance_h \in 1..MaxInstance
      BY PaxosAssumption DEF PaxosInv, AcceptorInv, Acceptor, Instance
    <3>2. acc[p].instance_h # 1 /\ acc[q].instance_h # 1
      BY <2>4, PaxosAssumption, SMTT(30) DEF Decided, Instance
    <3>3. /\ acc[p].instance_h = 2 /\ acc[q].instance_h = 2
          /\ acc[p].values[2] # NoValue /\ acc[q].values[2] # NoValue
      BY <2>2, <3>2, Zenon DEF NodeFine
    <3>4. i = 2 /\ 2 \in 2..MaxInstance
      BY <2>4, <3>1, <3>3, PaxosAssumption DEF Decided, Instance
    <3>5. PICK v, x : v = acc[p].values[2] /\ x = acc[q].values[2]
      BY Zenon
    <3>6. v \in Val /\ x \in Val
      BY <3>4, <3>5 DEF PaxosInv, AcceptorInv, Acceptor
    <3>7. Chosen(2, v) /\ Chosen(2, x)
      BY <3>3, <3>4, <3>5, Zenon DEF PaxosInv, AcceptorInv, Learned
    <3> QED
      BY <2>1, <3>4, <3>5, <3>6, <3>7, OneIsChosen, ZenonT(30)
  <2> QED
    BY <2>3, <2>4, Zenon
<1>2. PaxosInv /\ PaxosInv' /\ ConsensusInv /\ [Next]_paxosVars => ConsensusInv'
  BY ConsensusStep, Zenon
<1> QED
  BY <1>1, <1>2, ConsensusStarts, PaxosInvHolds, PTL DEF Spec
=============================================================================
