---------------------------- MODULE PaxosProofs ----------------------------
(***************************************************************************)
(* Proofs about Paxos among a fixed list of nodes, for every list, every   *)
(* set of values, and any number of proposals, instances and faults.       *)
(***************************************************************************)
EXTENDS PaxosGroup, FiniteSetTheorems, TLAPS

Val == Value \union {NoValue, FirstValue}

Number == [n : Nat, m : Node]

Acceptor == [n_h : Number, n_a : Number, v_a : Val, instance_h : Instance \ {0},
             values : [Instance -> Val]]

Run == [op : {"prepare", "accept", "decide"}, instance : 2..MaxInstance,
        c_nodes : {Group}, left : Seq(Node), accepts : Seq(Node), v : Val,
        highest_n : Nat]

Message == [to : Node, op : {"prepare", "accept", "decide"},
            instance : 2..MaxInstance, n : Number, v : Val]

Vote == [by : Node, instance : 2..MaxInstance, n : Number, v : Val]

\* The vote of node k for what the run q of p proposes.
VoteFor(k, p, q) ==
  [by |-> k, instance |-> q.instance, n |-> [n |-> my_n[p], m |-> p], v |-> q.v]

\* The nodes that accepted the proposal of a run have voted for it; what it tells
\* the nodes to decide is chosen.
RunOK(p, q) ==
  /\ q.op = "accept" => \A k \in Range(q.accepts) : VoteFor(k, p, q) \in votes
  /\ q.op = "decide" => Chosen(q.instance, q.v)

\* What a run may be: nothing, or in a call.
Ready(p, q) == q = Stable \/ (q \in Run /\ q.left # <<>> /\ RunOK(p, q))

RunsReady == DOMAIN pro = Node /\ \A p \in Node : Ready(p, pro[p])

LateOK == \A a \in late : a.op = "decide" => Chosen(a.instance, a.v)

Learned ==
  \A p \in Node, i \in 2..MaxInstance :
    acc[p].values[i] = NoValue \/ Chosen(i, acc[p].values[i])

AcceptorInv ==
  /\ acc \in [Node -> Acceptor]
  /\ disk \in [Node -> Acceptor]
  /\ votes \subseteq Vote
  /\ DurableState
  /\ Learned

(***************************************************************************)
(* The inductive invariant.  Learned alone is not inductive: a value is    *)
(* learned from a decide, which is sent once a majority has voted, and     *)
(* RunOK and LateOK say so of the decides being sent and of the late ones. *)
(***************************************************************************)
PaxosInv ==
  /\ AcceptorInv
  /\ RunsReady
  /\ my_n \in [Node -> Nat]
  /\ late \subseteq Message
  /\ LateOK

-----------------------------------------------------------------------------
(***************************************************************************)
(* majority counts at least one node.                                      *)
(***************************************************************************)
LEMMA MajorityCounts ==
  ASSUME NEW s \in Seq(Node), majority(Group, s)
  PROVE  /\ s # <<>>
         /\ LET K == {k \in DOMAIN Group : Group[k] \in Range(s)}
            IN IsFiniteSet(K) /\ 2 * Cardinality(K) > Len(Group) /\ K # {}
<1> DEFINE K == {k \in DOMAIN Group : Group[k] \in Range(s)}
<1>1. Len(Group) \in Nat /\ DOMAIN Group = 1..Len(Group)
  BY GroupAssumption
<1>2. IsFiniteSet(DOMAIN Group)
  BY <1>1, FS_Interval
<1>3. IsFiniteSet(K) /\ Cardinality(K) \in Nat
  BY <1>2, FS_Subset, FS_CardinalityType, Zenon
<1>4. Cardinality(K) >= (Len(Group) \div 2) + 1
  BY Zenon DEF majority
<1>5. 2 * Cardinality(K) > Len(Group) /\ Cardinality(K) # 0
  BY <1>1, <1>3, <1>4
<1>6. K # {}
  BY <1>5, FS_EmptySet, Zenon
<1>7. s # <<>>
  BY <1>6 DEF Range
<1> QED
  BY <1>3, <1>5, <1>6, <1>7, Zenon

(***************************************************************************)
(* What is chosen stays chosen: votes are never taken back.                *)
(***************************************************************************)
LEMMA ChosenStays ==
  ASSUME votes \subseteq votes', NEW i, NEW v, Chosen(i, v)
  PROVE  Chosen(i, v)'
<1>1. PICK n \in {w.n : w \in votes} : 2 * Cardinality(Accepters(i, n, v)) > Len(Group)
  BY Zenon DEF Chosen
<1>2. IsFiniteSet(Accepters(i, n, v)') /\ Accepters(i, n, v) \subseteq Accepters(i, n, v)'
  <2>1. Len(Group) \in Nat /\ DOMAIN Group = 1..Len(Group)
    BY GroupAssumption
  <2>2. IsFiniteSet(DOMAIN Group)
    BY <2>1, FS_Interval
  <2>3. Accepters(i, n, v)' \subseteq DOMAIN Group
    BY Zenon DEF Accepters
  <2> QED
    BY <2>2, <2>3, FS_Subset, Zenon DEF Accepters
<1>3. /\ Cardinality(Accepters(i, n, v)) \in Nat
      /\ Cardinality(Accepters(i, n, v)') \in Nat
      /\ Cardinality(Accepters(i, n, v)) <= Cardinality(Accepters(i, n, v)')
  BY <1>2, FS_Subset, FS_CardinalityType, Zenon
<1>4. Len(Group) \in Nat
  BY GroupAssumption
<1>5. 2 * Cardinality(Accepters(i, n, v)') > Len(Group)
  BY <1>1, <1>3, <1>4
<1>6. n \in {w.n : w \in votes'}
  BY <1>1, Zenon
<1> QED
  BY <1>5, <1>6, Zenon DEF Chosen

(***************************************************************************)
(* A majority of votes for what run q of p proposes makes it chosen.       *)
(***************************************************************************)
LEMMA MajorityChooses ==
  ASSUME NEW p, NEW q, NEW s \in Seq(Node), majority(Group, s),
         \A k \in Range(s) : VoteFor(k, p, q)' \in votes'
  PROVE  Chosen(q.instance, q.v)'
<1>0. PICK n : n = [n |-> my_n'[p], m |-> p]
  BY Zenon
<1> DEFINE K == {k \in DOMAIN Group : Group[k] \in Range(s)}
           A == Accepters(q.instance, n, q.v)'
<1>1. IsFiniteSet(K) /\ 2 * Cardinality(K) > Len(Group) /\ K # {}
  BY MajorityCounts, Zenon
<1>2. K \subseteq A
  BY <1>0, Zenon DEF Accepters, VoteFor
<1>3. Len(Group) \in Nat /\ DOMAIN Group = 1..Len(Group)
  BY GroupAssumption
<1>4. IsFiniteSet(A)
  <2>1. IsFiniteSet(DOMAIN Group) /\ A \subseteq DOMAIN Group
    BY <1>3, FS_Interval DEF Accepters
  <2> QED
    BY <2>1, FS_Subset, Zenon
<1>5. 2 * Cardinality(A) > Len(Group)
  <2>1. Cardinality(K) \in Nat /\ Cardinality(A) \in Nat /\ Cardinality(K) <= Cardinality(A)
    BY <1>1, <1>2, <1>4, FS_Subset, FS_CardinalityType, Zenon
  <2> QED
    BY <2>1, <1>1, <1>3
<1>6. n \in {w.n : w \in votes'}
  <2>1. PICK k \in K : TRUE
    BY <1>1, Zenon
  <2>2. VoteFor(Group[k], p, q)' \in votes' /\ VoteFor(Group[k], p, q)'.n = n
    BY <1>0, <2>1, Zenon DEF VoteFor
  <2> QED
    BY <2>2, Zenon
<1> QED
  BY <1>5, <1>6, Zenon DEF Chosen

-----------------------------------------------------------------------------
(* The acceptors. *)

\* What a node knows to be decided, it still knows after the step.
Keeps ==
  \A p \in Node :
    /\ acc[p].instance_h <= acc'[p].instance_h
    /\ \A i \in Instance : Decided(p, i) => acc'[p].values[i] = acc[p].values[i]

\* DurableState of one acceptor a and its log d.
Durable(a, d) ==
  /\ d.instance_h = a.instance_h /\ d.values = a.values /\ d.v_a = a.v_a
  /\ Same(d.n_a, a.n_a)
  /\ Same(d.n_h, a.n_h) \/ a.n_h = a.n_a

\* A step that changes no decided value keeps the decisions.
LEMMA SameDecisions ==
  ASSUME acc \in [Node -> Acceptor],
         \A q \in Node : acc'[q].values = acc[q].values
                         /\ acc'[q].instance_h = acc[q].instance_h
  PROVE  Keeps
<1>1. \A q \in Node : acc[q].instance_h \in Nat
  BY PaxosAssumption DEF Acceptor, Instance
<1> QED
  BY <1>1 DEF Keeps

\* A step that changes neither acceptors nor logs keeps both properties of them.
LEMMA NothingChanges ==
  ASSUME acc \in [Node -> Acceptor], DurableState, acc' = acc, disk' = disk
  PROVE  DurableState' /\ Keeps
<1>1. Keeps
  BY SameDecisions, Zenon
<1> QED
  BY <1>1, Zenon DEF DurableState, Same

\* A decided value stays one that was chosen while votes are added.
LEMMA LearnedStays ==
  ASSUME Learned, votes \subseteq votes',
         \A p \in Node : acc'[p].values = acc[p].values
  PROVE  Learned'
<1> SUFFICES ASSUME NEW p \in Node, NEW i \in 2..MaxInstance, NEW v,
                    v = acc'[p].values[i], v # NoValue
             PROVE  Chosen(i, v)'
  BY Zenon DEF Learned
<1>1. Chosen(i, v)
  BY Zenon DEF Learned
<1> QED
  BY <1>1, ChosenStays, Zenon

(***************************************************************************)
(* The records of the log, applied to what logread has so far.             *)
(***************************************************************************)
LEMMA LogHigh ==
  ASSUME NEW d \in Acceptor, NEW n \in Number
  PROVE  /\ loghigh(d, n) \in Acceptor /\ loghigh(d, n).n_h = n
         /\ loghigh(d, n).n_a = d.n_a /\ loghigh(d, n).v_a = d.v_a
         /\ loghigh(d, n).instance_h = d.instance_h /\ loghigh(d, n).values = d.values
BY Zenon DEF loghigh, Acceptor

\* What logprop changes of the log, and what it leaves alone.
LEMMA LogProp ==
  ASSUME NEW d \in Acceptor, NEW n \in Number, NEW v \in Val
  PROVE  /\ logprop(d, n, v) \in Acceptor /\ logprop(d, n, v).n_h = d.n_h
         /\ logprop(d, n, v).n_a = n /\ logprop(d, n, v).v_a = v
         /\ logprop(d, n, v).instance_h = d.instance_h
         /\ logprop(d, n, v).values = d.values
BY Zenon DEF logprop, Acceptor

\* What loginstance changes of the log.
LEMMA LogInstance ==
  ASSUME NEW d \in Acceptor, NEW i \in Instance \ {0}, NEW v \in Val
  PROVE  /\ loginstance(d, i, v) \in Acceptor
         /\ loginstance(d, i, v).n_h.n = 0 /\ loginstance(d, i, v).n_a.n = 0
         /\ loginstance(d, i, v).v_a = NoValue /\ loginstance(d, i, v).instance_h = i
         /\ loginstance(d, i, v).values = [d.values EXCEPT ![i] = v]
<1> DEFINE r == [n_h |-> [n |-> 0, m |-> d.n_h.m], n_a |-> [n |-> 0, m |-> d.n_a.m],
                 v_a |-> NoValue, instance_h |-> i, values |-> [d.values EXCEPT ![i] = v]]
<1>1. NoValue \in Val /\ d.values \in [Instance -> Val]
  BY Zenon DEF Val, Acceptor
<1>2. [d.values EXCEPT ![i] = v] \in [Instance -> Val]
  BY <1>1, Zenon
<1>3. d.n_h \in Number /\ d.n_a \in Number
  BY Zenon DEF Acceptor
<1>4. r \in Acceptor
  BY <1>1, <1>2, <1>3, Zenon DEF Acceptor, Number
<1>5. loginstance(d, i, v) = r
  <2> DEFINE h == [d.n_h EXCEPT !.n = 0]
             c == [d.n_a EXCEPT !.n = 0]
             vs == [d.values EXCEPT ![i] = v]
  <2>1. h = r.n_h /\ c = r.n_a
    BY <1>3 DEF Number
  <2>2. loginstance(d, i, v) = [d EXCEPT !.values = vs, !.instance_h = i,
                                         !.v_a = NoValue, !.n_h = h, !.n_a = c]
    BY Zenon DEF loginstance
  <2>3. r.values = vs
    BY Zenon
  <2> HIDE DEF h, c, vs
  <2>4. loginstance(d, i, v) = [n_h |-> h, n_a |-> c, v_a |-> NoValue,
                                instance_h |-> i, values |-> vs]
    BY <2>2, Zenon DEF Acceptor
  <2> QED
    BY <2>1, <2>3, <2>4, Zenon
<1> QED
  BY <1>4, <1>5

(***************************************************************************)
(* A promise: preparereq.                                                  *)
(***************************************************************************)
LEMMA PrepareServed ==
  ASSUME AcceptorInv, NEW p \in Node, NEW a \in Message, preparereq(p, a)
  PROVE  AcceptorInv' /\ Keeps /\ votes' = votes
<1>0. /\ acc \in [Node -> Acceptor] /\ disk \in [Node -> Acceptor]
      /\ votes \subseteq Vote /\ DurableState /\ Learned
  BY Zenon DEF AcceptorInv
<1>1. votes' = votes
  BY Zenon DEF preparereq
<1>2. CASE ~PrepareReply(p, a).accept
  <2>1. acc' = acc /\ disk' = disk
    BY <1>2, Zenon DEF preparereq
  <2> QED
    BY <2>1, <1>0, <1>1, LearnedStays, NothingChanges, Zenon DEF AcceptorInv
<1>3. CASE PrepareReply(p, a).accept
  <2>1. a.n \in Number
    BY Zenon DEF Message
  <2>2. acc' = [acc EXCEPT ![p] = loghigh(@, a.n)] /\ disk' = [disk EXCEPT ![p] = loghigh(@, a.n)]
    BY <1>3, Zenon DEF preparereq, loghigh
  <2>3. /\ acc' \in [Node -> Acceptor] /\ disk' \in [Node -> Acceptor]
        /\ \A q \in Node : acc'[q].values = acc[q].values
                           /\ acc'[q].instance_h = acc[q].instance_h
    BY <1>0, <2>1, <2>2, LogHigh, SMTT(30)
  <2>4. DurableState'
    <3> SUFFICES ASSUME NEW q \in Node PROVE Durable(acc'[q], disk'[q])
      BY Zenon DEF DurableState, Durable, Same
    <3>1. Durable(acc[q], disk[q])
      BY <1>0, Zenon DEF DurableState, Durable
    <3> QED
      BY <3>1, <1>0, <2>1, <2>2, LogHigh, SMTT(30) DEF Durable, Same
  <2> QED
    BY <1>0, <1>1, <2>3, <2>4, LearnedStays, SameDecisions, Zenon DEF AcceptorInv
<1> QED
  BY <1>2, <1>3, Zenon

(***************************************************************************)
(* A vote: acceptreq.                                                      *)
(***************************************************************************)
LEMMA AcceptServed ==
  ASSUME AcceptorInv, NEW p \in Node, NEW a \in Message, acceptreq(p, a)
  PROVE  /\ AcceptorInv' /\ Keeps /\ votes \subseteq votes'
         /\ AcceptReply(p, a)
              => [by |-> p, instance |-> a.instance, n |-> a.n, v |-> a.v] \in votes'
<1>0. /\ acc \in [Node -> Acceptor] /\ disk \in [Node -> Acceptor]
      /\ votes \subseteq Vote /\ DurableState /\ Learned
  BY Zenon DEF AcceptorInv
<1>1. a.n \in Number /\ a.v \in Val /\ a.instance \in 2..MaxInstance
  BY Zenon DEF Message
<1>2. /\ votes \subseteq votes' /\ votes' \subseteq Vote
      /\ AcceptReply(p, a)
           => [by |-> p, instance |-> a.instance, n |-> a.n, v |-> a.v] \in votes'
  BY <1>0, <1>1 DEF acceptreq, Vote
<1>3. CASE ~AcceptReply(p, a)
  <2>1. acc' = acc /\ disk' = disk
    BY <1>3, Zenon DEF acceptreq
  <2> QED
    BY <2>1, <1>0, <1>2, LearnedStays, NothingChanges, Zenon DEF AcceptorInv
<1>4. CASE AcceptReply(p, a)
  <2>1. /\ acc' = [acc EXCEPT ![p] = logprop(loghigh(@, a.n), a.n, a.v)]
        /\ disk' = [disk EXCEPT ![p] = logprop(@, a.n, a.v)]
    BY <1>4, Zenon DEF acceptreq, loghigh, logprop
  <2>2. /\ acc' \in [Node -> Acceptor] /\ disk' \in [Node -> Acceptor]
        /\ \A q \in Node : acc'[q].values = acc[q].values
                           /\ acc'[q].instance_h = acc[q].instance_h
    <3> SUFFICES ASSUME NEW q \in Node
                 PROVE  /\ acc'[q] \in Acceptor /\ disk'[q] \in Acceptor
                        /\ acc'[q].values = acc[q].values
                        /\ acc'[q].instance_h = acc[q].instance_h
      BY <1>0, <2>1, Zenon
    <3> DEFINE h == loghigh(acc[p], a.n)
    <3>1. h \in Acceptor /\ h.values = acc[p].values /\ h.instance_h = acc[p].instance_h
      BY <1>0, <1>1, LogHigh, Zenon
    <3>2. /\ logprop(h, a.n, a.v) \in Acceptor /\ logprop(disk[p], a.n, a.v) \in Acceptor
          /\ logprop(h, a.n, a.v).values = h.values
          /\ logprop(h, a.n, a.v).instance_h = h.instance_h
      <4> HIDE DEF h
      <4> QED
        BY <1>0, <1>1, <3>1, LogProp, SMTT(30)
    <3> QED
      BY <1>0, <2>1, <3>1, <3>2, Zenon
  <2>3. DurableState'
    <3> SUFFICES ASSUME NEW q \in Node PROVE Durable(acc'[q], disk'[q])
      BY Zenon DEF DurableState, Durable, Same
    <3>1. Durable(acc[q], disk[q])
      BY <1>0, Zenon DEF DurableState, Durable
    <3> QED
      BY <3>1, <1>0, <1>1, <2>1, LogHigh, LogProp, SMTT(30) DEF Durable, Same
  <2> QED
    BY <1>0, <1>2, <2>2, <2>3, LearnedStays, SameDecisions, Zenon DEF AcceptorInv
<1> QED
  BY <1>2, <1>3, <1>4, Zenon

(***************************************************************************)
(* A decision: commit, from decidereq or from the answer to a prepare.     *)
(***************************************************************************)
LEMMA CommitServed ==
  ASSUME AcceptorInv, NEW p \in Node, NEW i \in 2..MaxInstance, NEW v \in Val,
         v = NoValue \/ Chosen(i, v), commit(p, i, v)
  PROVE  AcceptorInv' /\ Keeps /\ votes' = votes
<1>0. /\ acc \in [Node -> Acceptor] /\ disk \in [Node -> Acceptor]
      /\ votes \subseteq Vote /\ DurableState /\ Learned
  BY Zenon DEF AcceptorInv
<1>1. votes' = votes
  BY Zenon DEF commit
<1>2. CASE ~(i > acc[p].instance_h)
  <2>1. acc' = acc /\ disk' = disk
    BY <1>2, Zenon DEF commit
  <2> QED
    BY <2>1, <1>0, <1>1, LearnedStays, NothingChanges, Zenon DEF AcceptorInv
<1>3. CASE i > acc[p].instance_h
  <2> DEFINE vs == [acc[p].values EXCEPT ![i] = v]
             b == [Blank(p) EXCEPT !.instance_h = i, !.values = vs]
             d == loginstance(disk[p], i, v)
  <2>0. i \in Instance \ {0} /\ NoValue \in Val
    BY PaxosAssumption DEF Instance, Val
  <2>1. vs \in [Instance -> Val]
    BY <1>0, <2>0, Zenon DEF Acceptor
  <2>2. /\ b \in Acceptor /\ b.instance_h = i /\ b.values = vs /\ b.v_a = NoValue
        /\ b.n_h.n = 0 /\ b.n_a.n = 0
    <3> DEFINE z == [n |-> 0, m |-> p]
               none == [k \in Instance |-> NoValue]
    <3>1. Blank(p) = [n_h |-> z, n_a |-> z, v_a |-> NoValue, instance_h |-> 0,
                      values |-> none]
      BY Zenon DEF Blank
    <3>2. z \in Number /\ z.n = 0 /\ none \in [Instance -> Val]
      BY <2>0, Zenon DEF Number
    <3> HIDE DEF z, none, vs
    <3>3. /\ Blank(p) \in [n_h : Number, n_a : Number, v_a : Val, instance_h : {0},
                           values : [Instance -> Val]]
          /\ Blank(p).n_h = z /\ Blank(p).n_a = z /\ Blank(p).v_a = NoValue
      BY <2>0, <3>1, <3>2
    <3> QED
      BY <2>0, <2>1, <3>2, <3>3, Zenon DEF Acceptor
  <2> HIDE DEF b
  <2>3. acc' = [acc EXCEPT ![p] = b] /\ disk' = [disk EXCEPT ![p] = d]
    BY <1>3, Zenon DEF commit, b
  <2>5. acc' \in [Node -> Acceptor] /\ disk' \in [Node -> Acceptor]
    BY <1>0, <2>0, <2>2, <2>3, LogInstance, Zenon
  <2>6. DurableState'
    <3> SUFFICES ASSUME NEW q \in Node PROVE Durable(acc'[q], disk'[q])
      BY Zenon DEF DurableState, Durable, Same
    <3>1. Durable(acc[q], disk[q])
      BY <1>0, Zenon DEF DurableState, Durable
    <3>2. CASE q # p
      BY <3>1, <3>2, <1>0, <2>3, Zenon
    <3>3. CASE q = p
      <4>1. acc'[q] = b /\ disk'[q] = d
        BY <3>3, <1>0, <2>3, Zenon
      <4>2. /\ d.instance_h = i /\ d.v_a = NoValue /\ d.n_h.n = 0 /\ d.n_a.n = 0
            /\ d.values = [disk[p].values EXCEPT ![i] = v]
        BY <1>0, <2>0, LogInstance
      <4> QED
        BY <4>1, <4>2, <2>2, <3>1, <3>3 DEF Durable, Same
    <3> QED
      BY <3>2, <3>3, Zenon
  <2>7. Learned'
    <3> SUFFICES ASSUME NEW q \in Node, NEW k \in 2..MaxInstance, NEW x,
                        x = acc'[q].values[k], x # NoValue
                 PROVE  Chosen(k, x)'
      BY Zenon DEF Learned
    <3>1. Chosen(k, x)
      <4>1. k \in Instance
        BY DEF Instance
      <4>2. CASE q = p /\ k = i
        BY <4>1, <4>2, <1>0, <2>2, <2>3 DEF Acceptor
      <4>3. CASE ~(q = p /\ k = i)
        <5>1. x = acc[q].values[k]
          BY <4>1, <4>3, <1>0, <2>2, <2>3, ZenonT(30) DEF Acceptor
        <5> QED
          BY <5>1, <1>0, Zenon DEF Learned
      <4> QED
        BY <4>2, <4>3, Zenon
    <3> QED
      BY <3>1, <1>1, ChosenStays, Zenon
  <2>8. Keeps
    <3> SUFFICES ASSUME NEW q \in Node
                 PROVE  /\ acc[q].instance_h <= acc'[q].instance_h
                        /\ \A k \in Instance : Decided(q, k)
                             => acc'[q].values[k] = acc[q].values[k]
      BY Zenon DEF Keeps
    <3>0. acc[q].instance_h \in Nat
      BY <1>0, PaxosAssumption DEF Acceptor, Instance
    <3>1. CASE q # p
      BY <3>0, <3>1, <1>0, <2>3
    <3>2. CASE q = p
      <4>1. acc'[q].instance_h = i /\ acc'[q].values = vs
        BY <3>2, <1>0, <2>2, <2>3, Zenon
      <4> QED
        BY <3>0, <4>1, <3>2, <1>0, <1>3 DEF Decided, Acceptor
    <3> QED
      BY <3>1, <3>2, Zenon
  <2> QED
    BY <1>0, <1>1, <2>5, <2>6, <2>7, <2>8, Zenon DEF AcceptorInv
<1> QED
  BY <1>2, <1>3, Zenon

-----------------------------------------------------------------------------
(* The proposers. *)

\* The run of a proposer is not disturbed by votes that are added.
LEMMA RunStays ==
  ASSUME NEW p, NEW q, votes \subseteq votes', my_n'[p] = my_n[p], RunOK(p, q)
  PROVE  RunOK(p, q)'
<1>1. q.op = "accept" => \A k \in Range(q.accepts) : VoteFor(k, p, q)' \in votes'
  BY Zenon DEF RunOK, VoteFor
<1>2. q.op = "decide" => Chosen(q.instance, q.v)'
  BY ChosenStays, Zenon DEF RunOK
<1> QED
  BY <1>1, <1>2, Zenon DEF RunOK

\* Nor are the requests whose call has timed out.
LEMMA LateStays ==
  ASSUME LateOK, votes \subseteq votes', late' \subseteq late
  PROVE  LateOK'
<1> SUFFICES ASSUME NEW a \in late', a.op = "decide" PROVE Chosen(a.instance, a.v)'
  BY Zenon DEF LateOK
<1>1. Chosen(a.instance, a.v)
  BY Zenon DEF LateOK
<1> QED
  BY <1>1, ChosenStays, Zenon

(***************************************************************************)
(* The run of one proposer changes and those of the others do not.         *)
(***************************************************************************)
LEMMA OneRunChanges ==
  ASSUME RunsReady, NEW p \in Node, NEW q, pro' = [pro EXCEPT ![p] = q],
         votes \subseteq votes', \A k \in Node \ {p} : my_n'[k] = my_n[k],
         Ready(p, q)'
  PROVE  RunsReady'
<1>1. DOMAIN pro' = Node
  BY Zenon DEF RunsReady
<1>2. ASSUME NEW k \in Node PROVE Ready(k, pro[k])'
  <2>1. CASE k = p
    BY <2>1, Zenon DEF RunsReady, Ready
  <2>2. CASE k # p
    <3>1. PICK r : r = pro[k]
      BY Zenon
    <3>2. pro'[k] = r /\ Ready(k, r)
      BY <2>2, <3>1, Zenon DEF RunsReady
    <3>3. Ready(k, r)'
      BY <2>2, <3>2, RunStays DEF Ready
    <3> QED
      BY <3>2, <3>3, Zenon DEF Ready
  <2> QED
    BY <2>1, <2>2, Zenon
<1> QED
  BY <1>1, <1>2, Zenon DEF RunsReady

(***************************************************************************)
(* The run after one call.                                                 *)
(***************************************************************************)
LEMMA AfterCall ==
  ASSUME NEW q \in Run, q.left # <<>>, NEW ok \in BOOLEAN
  PROVE  /\ Accepted(q, ok) \in Run
         /\ Accepted(q, ok).op = q.op /\ Accepted(q, ok).instance = q.instance
         /\ Accepted(q, ok).v = q.v /\ Head(q.left) \in Node
         /\ \A k \in Range(Accepted(q, ok).accepts) :
              k \in Range(q.accepts) \/ (ok /\ k = Head(q.left))
<1>1. q.left \in Seq(Node) /\ q.accepts \in Seq(Node)
  BY Zenon DEF Run
<1>2. Head(q.left) \in Node /\ Tail(q.left) \in Seq(Node)
  BY <1>1
<1>3. PICK s : s = IF ok THEN Append(q.accepts, Head(q.left)) ELSE q.accepts
  BY Zenon
<1>4. s \in Seq(Node)
  BY <1>1, <1>2, <1>3
<1>5. \A k \in Range(s) : k \in Range(q.accepts) \/ (ok /\ k = Head(q.left))
  <2>1. CASE ok
    BY <2>1, <1>1, <1>2, <1>3 DEF Range
  <2>2. CASE ~ok
    BY <2>2, <1>3, Zenon
  <2> QED
    BY <2>1, <2>2, Zenon
<1>6. PICK t : t = Tail(q.left)
  BY Zenon
<1>7. Accepted(q, ok) = [q EXCEPT !.left = t, !.accepts = s]
  BY <1>3, <1>6, Zenon DEF Accepted
<1>8. /\ Accepted(q, ok) \in Run /\ Accepted(q, ok).accepts = s
      /\ Accepted(q, ok).op = q.op /\ Accepted(q, ok).instance = q.instance
      /\ Accepted(q, ok).v = q.v
  BY <1>2, <1>4, <1>6, <1>7, Zenon DEF Run
<1> QED
  BY <1>2, <1>5, <1>8, Zenon

(***************************************************************************)
(* Where run goes next.                                                    *)
(***************************************************************************)
LEMMA GoesOn ==
  ASSUME NEW p \in Node, NEW q \in Run, Goes(p, q), RunOK(p, q)'
  PROVE  \E r : pro' = [pro EXCEPT ![p] = r] /\ Ready(p, r)'
<1> DEFINE phase == IF q.op = "prepare" THEN "accept" ELSE "decide"
           next == [q EXCEPT !.op = phase, !.left = q.accepts, !.accepts = <<>>]
<1>1. CASE q.left # <<>>
  <2>1. pro' = [pro EXCEPT ![p] = q]
    BY <1>1, Zenon DEF Goes
  <2> QED
    BY <1>1, <2>1, Zenon DEF Ready
<1>2. CASE q.left = <<>> /\ ~(q.op # "decide" /\ majority(q.c_nodes, q.accepts))
  <2>1. pro' = [pro EXCEPT ![p] = Stable]
    BY <1>2, Zenon DEF Goes
  <2> QED
    BY <2>1, Zenon DEF Ready
<1>3. CASE q.left = <<>> /\ q.op # "decide" /\ majority(q.c_nodes, q.accepts)
  <2>1. pro' = [pro EXCEPT ![p] = next]
    BY <1>3, Zenon DEF Goes
  <2>2. q.accepts \in Seq(Node) /\ q.c_nodes = Group
    BY Zenon DEF Run
  <2>3. q.accepts # <<>>
    BY <1>3, <2>2, MajorityCounts, Zenon
  <2>4. phase \in {"accept", "decide"} /\ <<>> \in Seq(Node)
    BY <1>3, Zenon DEF Run
  <2>5. PICK ph, ac, e : ph = phase /\ ac = q.accepts /\ e = <<>>
    BY Zenon
  <2>6. next = [q EXCEPT !.op = ph, !.left = ac, !.accepts = e]
    BY <2>5, Zenon
  <2>7. /\ next \in Run /\ next.left = ac /\ next.accepts = e /\ next.op = ph
        /\ next.instance = q.instance /\ next.v = q.v
    BY <2>2, <2>4, <2>5, <2>6, Zenon DEF Run
  <2>8. ph = "decide" => Chosen(q.instance, q.v)'
    <3> SUFFICES ASSUME ph = "decide" PROVE Chosen(q.instance, q.v)'
      BY Zenon
    <3>1. q.op = "accept"
      BY <1>3, <2>5, Zenon DEF Run
    <3>2. \A k \in Range(q.accepts) : VoteFor(k, p, q)' \in votes'
      BY <3>1, Zenon DEF RunOK
    <3> QED
      BY <3>2, <1>3, <2>2, MajorityChooses, Zenon
  <2>9. Range(e) = {}
    BY <2>5 DEF Range
  <2>10. PICK r : r = next
    BY Zenon
  <2>11. RunOK(p, r)'
    <3>1. r.instance = q.instance /\ r.v = q.v /\ r.op = ph /\ r.accepts = e
      BY <2>7, <2>10, Zenon
    <3> QED
      BY <3>1, <2>8, <2>9, Zenon DEF RunOK
  <2> QED
    BY <2>1, <2>3, <2>5, <2>7, <2>10, <2>11, Zenon DEF Ready
<1> QED
  BY <1>1, <1>2, <1>3, Zenon

-----------------------------------------------------------------------------
(* The steps. *)

\* The proposer of p, in run q, is in the call a.
InCall(p, q, a) ==
  /\ q \in Run /\ q.left # <<>> /\ RunOK(p, q) /\ Head(q.left) \in Node
  /\ a \in Message /\ a.op = q.op /\ a.to = Head(q.left)
  /\ a.instance = q.instance /\ a.v = q.v
  /\ a.n = [n |-> my_n[p], m |-> p]

\* The request of a running proposer is well formed.
LEMMA Requested ==
  ASSUME PaxosInv, NEW p \in Node, NEW q, q = pro[p], q.op # "stable",
         NEW a, a = Request(p)
  PROVE  InCall(p, q, a)
<1>1. q \in Run /\ q.left # <<>> /\ RunOK(p, q)
  BY DEF PaxosInv, RunsReady, Ready, Stable
<1>2. Head(q.left) \in Node /\ my_n[p] \in Nat
  BY <1>1 DEF Run, PaxosInv
<1>3. a = [to |-> Head(q.left), op |-> q.op, instance |-> q.instance,
           n |-> [n |-> my_n[p], m |-> p], v |-> q.v]
  BY Zenon DEF Request
<1>4. [n |-> my_n[p], m |-> p] \in Number
  BY <1>2, Zenon DEF Number
<1> QED
  BY <1>1, <1>2, <1>3, <1>4 DEF InCall, Run, Message

(***************************************************************************)
(* A step of the proposer of p that leaves my_n and late alone.            *)
(***************************************************************************)
LEMMA CallAnswered ==
  ASSUME PaxosInv, NEW p \in Node, NEW q \in Run, q.left # <<>>, NEW ok \in BOOLEAN,
         Goes(p, Accepted(q, ok)), AcceptorInv', votes \subseteq votes',
         my_n' = my_n, late' = late,
         q.op = "accept" => /\ \A k \in Range(q.accepts) : VoteFor(k, p, q) \in votes
                            /\ ok => VoteFor(Head(q.left), p, q)' \in votes',
         q.op = "decide" => Chosen(q.instance, q.v)
  PROVE  PaxosInv'
<1>1. PICK r : r = Accepted(q, ok)
  BY Zenon
<1>2. /\ r \in Run /\ r.op = q.op /\ r.instance = q.instance /\ r.v = q.v
      /\ \A k \in Range(r.accepts) : k \in Range(q.accepts) \/ (ok /\ k = Head(q.left))
  BY <1>1, AfterCall, ZenonT(30)
<1>3. RunOK(p, r)'
  <2>1. r.op = "accept" => \A k \in Range(r.accepts) : VoteFor(k, p, r)' \in votes'
    BY <1>2, Zenon DEF VoteFor
  <2>2. r.op = "decide" => Chosen(q.instance, q.v)'
    BY <1>2, ChosenStays, Zenon
  <2> QED
    BY <1>2, <2>1, <2>2, Zenon DEF RunOK
<1>4. PICK s : pro' = [pro EXCEPT ![p] = s] /\ Ready(p, s)'
  BY <1>1, <1>2, <1>3, GoesOn, Zenon
<1>5. RunsReady'
  BY <1>4, OneRunChanges, Zenon DEF PaxosInv
<1>6. LateOK'
  BY LateStays, Zenon DEF PaxosInv
<1> QED
  BY <1>5, <1>6, Zenon DEF PaxosInv

\* A run that ends keeps the invariant.
LEMMA RunEnds ==
  ASSUME PaxosInv, NEW p \in Node, pro' = [pro EXCEPT ![p] = Stable],
         AcceptorInv', votes \subseteq votes', my_n' = my_n, late' = late
  PROVE  PaxosInv'
<1>1. Ready(p, Stable)'
  BY Zenon DEF Ready, Stable
<1>2. PICK q : q = Stable
  BY Zenon
<1>3. RunsReady'
  BY <1>1, <1>2, OneRunChanges, Zenon DEF PaxosInv
<1>4. LateOK'
  BY LateStays, Zenon DEF PaxosInv
<1> QED
  BY <1>3, <1>4, Zenon DEF PaxosInv

\* run starts.
LEMMA StepPropose ==
  ASSUME PaxosInv, NEW p \in Node, Propose(p)
  PROVE  PaxosInv' /\ Keeps
<1> DEFINE i == acc[p].instance_h + 1
<1>1. /\ acc' = acc /\ disk' = disk /\ votes' = votes /\ late' = late
      /\ my_n' = [my_n EXCEPT ![p] = setn(p)]
  BY Zenon DEF Propose, run
<1>2. AcceptorInv' /\ Keeps
  BY <1>1, NothingChanges, LearnedStays, Zenon DEF PaxosInv, AcceptorInv
<1>3. setn(p) \in Nat
  BY DEF setn, PaxosInv, AcceptorInv, Acceptor, Number
<1>4. i \in 2..MaxInstance /\ Wants[p] \in Val
  <2>1. acc[p].instance_h \in 1..MaxInstance
    BY PaxosAssumption DEF PaxosInv, AcceptorInv, Acceptor, Instance
  <2>2. acc[p].instance_h < MaxInstance /\ p \in DOMAIN Wants
    BY Zenon DEF Propose
  <2>3. Wants[p] \in Value
    BY <2>2, GroupAssumption, Zenon DEF Range
  <2> QED
    BY <2>1, <2>2, <2>3, PaxosAssumption DEF Val
<1>5. PICK q : q = [op |-> "prepare", instance |-> i, c_nodes |-> Group, left |-> Group,
                    accepts |-> <<>>, v |-> Wants[p], highest_n |-> 0]
  BY ZenonT(30)
<1>6. pro' = [pro EXCEPT ![p] = q]
  BY <1>5, Zenon DEF Propose, run
<1>7. Ready(p, q)'
  <2>1. q \in Run /\ q.op = "prepare" /\ q.left # <<>>
    BY <1>4, <1>5, GroupAssumption DEF Run
  <2> QED
    BY <2>1, Zenon DEF Ready, RunOK
<1>8. RunsReady'
  BY <1>1, <1>6, <1>7, OneRunChanges, Zenon DEF PaxosInv
<1>9. LateOK'
  BY <1>1, LateStays, Zenon DEF PaxosInv
<1> QED
  BY <1>1, <1>2, <1>3, <1>8, <1>9, Zenon DEF PaxosInv

\* An answer to a prepare.
LEMMA StepPrepare ==
  ASSUME PaxosInv, NEW p \in Node, Prepare(p)
  PROVE  PaxosInv' /\ Keeps
<1>1. PICK q, k, a : q = pro[p] /\ k = Head(q.left) /\ a = Request(p)
  BY Zenon
<1>2. q.op = "prepare" /\ my_n' = my_n /\ late' = late
  BY <1>1, Zenon DEF Prepare
<1>3a. q.op # "stable"
  BY <1>2, Zenon
<1>3b. InCall(p, q, a)
  BY <1>1, <1>3a, Requested, Zenon
<1>3. /\ q \in Run /\ q.left # <<>> /\ k \in Node
      /\ a \in Message /\ a.instance = q.instance
  BY <1>1, <1>3b, Zenon DEF InCall
<1>4. /\ acc \in [Node -> Acceptor] /\ Learned /\ AcceptorInv
  BY Zenon DEF PaxosInv, AcceptorInv
<1>5. PICK r : r = PrepareReply(k, a)
  BY Zenon
<1>6. CASE r.accept /\ preparereq(k, a)
           /\ Goes(p, Accepted(IF r.n_a.n > q.highest_n /\ r.v_a # NoValue
                               THEN [q EXCEPT !.highest_n = r.n_a.n, !.v = r.v_a]
                               ELSE q, TRUE))
  <2>1. AcceptorInv' /\ Keeps /\ votes' = votes
    BY <1>3, <1>4, <1>6, PrepareServed, Zenon
  <2>2. r.n_a \in Number /\ r.v_a \in Val
    <3>1. acc[k] \in Acceptor
      BY <1>3, <1>4, Zenon
    <3>2. a.instance \in Instance
      BY <1>3, PaxosAssumption DEF Message, Instance
    <3> QED
      BY <1>5, <3>1, <3>2, Zenon DEF PrepareReply, Acceptor
  <2>3. PICK h : h = IF r.n_a.n > q.highest_n /\ r.v_a # NoValue
                     THEN [q EXCEPT !.highest_n = r.n_a.n, !.v = r.v_a] ELSE q
    BY Zenon
  <2>4. h \in Run /\ h.left = q.left /\ h.op = q.op
    BY <1>3, <2>2, <2>3, Zenon DEF Run, Number
  <2> QED
    BY <1>2, <1>3, <1>6, <2>1, <2>3, <2>4, CallAnswered, Zenon
<1>7. CASE r.oldinstance /\ commit(p, q.instance, r.v_a) /\ pro' = [pro EXCEPT ![p] = Stable]
  <2>1. q.instance \in 2..MaxInstance
    BY <1>3, Zenon DEF Run
  <2>2. r.v_a = acc[k].values[q.instance]
    BY <1>3, <1>5, <1>7, Zenon DEF PrepareReply
  <2>3. q.instance \in Instance
    BY <2>1, PaxosAssumption DEF Instance
  <2>4. r.v_a \in Val /\ (r.v_a = NoValue \/ Chosen(q.instance, r.v_a))
    BY <1>3, <1>4, <2>1, <2>2, <2>3 DEF Learned, Acceptor
  <2>5. AcceptorInv' /\ Keeps /\ votes' = votes
    BY <1>4, <1>7, <2>1, <2>4, CommitServed, Zenon
  <2> QED
    BY <1>2, <1>7, <2>5, RunEnds, ZenonT(30)
<1>8. CASE pro' = [pro EXCEPT ![p] = Stable] /\ UNCHANGED <<acc, disk, votes>>
  <2>1. AcceptorInv' /\ Keeps
    BY <1>8, NothingChanges, LearnedStays, Zenon DEF PaxosInv, AcceptorInv
  <2> QED
    BY <1>2, <1>8, <2>1, RunEnds, ZenonT(30)
<1> QED
  BY <1>1, <1>5, <1>6, <1>7, <1>8, Zenon DEF Prepare

\* An answer to an accept.
LEMMA StepAccept ==
  ASSUME PaxosInv, NEW p \in Node, Accept(p)
  PROVE  PaxosInv' /\ Keeps
<1>1. PICK q, k, a : q = pro[p] /\ k = Head(q.left) /\ a = Request(p)
  BY Zenon
<1>2. PICK ok \in BOOLEAN : ok = AcceptReply(k, a)
  BY ZenonT(30) DEF AcceptReply
<1>3. /\ q.op = "accept" /\ acceptreq(k, a) /\ Goes(p, Accepted(q, ok))
      /\ my_n' = my_n /\ late' = late
  BY <1>1, <1>2, Zenon DEF Accept
<1>4a. q.op # "stable"
  BY <1>3, Zenon
<1>4b. InCall(p, q, a)
  BY <1>1, <1>4a, Requested, Zenon
<1>4. /\ q \in Run /\ q.left # <<>> /\ k \in Node /\ RunOK(p, q)
      /\ a \in Message /\ a.instance = q.instance /\ a.v = q.v
      /\ a.n = [n |-> my_n[p], m |-> p]
  BY <1>1, <1>4b, Zenon DEF InCall
<1>5. /\ AcceptorInv' /\ Keeps /\ votes \subseteq votes'
      /\ ok => [by |-> k, instance |-> a.instance, n |-> a.n, v |-> a.v] \in votes'
  BY <1>2, <1>3, <1>4, AcceptServed, ZenonT(30) DEF PaxosInv
<1>6. ok => VoteFor(Head(q.left), p, q)' \in votes'
  BY <1>1, <1>3, <1>4, <1>5, ZenonT(30) DEF VoteFor
<1>7. \A n \in Range(q.accepts) : VoteFor(n, p, q) \in votes
  BY <1>3, <1>4, Zenon DEF RunOK
<1> QED
  BY <1>3, <1>4, <1>5, <1>6, <1>7, CallAnswered, Zenon

\* A decide is served.
LEMMA StepDecide ==
  ASSUME PaxosInv, NEW p \in Node, Decide(p)
  PROVE  PaxosInv' /\ Keeps
<1>1. PICK q, k, a : q = pro[p] /\ k = Head(q.left) /\ a = Request(p)
  BY Zenon
<1>2. /\ q.op = "decide" /\ commit(k, a.instance, a.v) /\ Goes(p, Accepted(q, FALSE))
      /\ my_n' = my_n /\ late' = late
  BY <1>1, Zenon DEF Decide, decidereq
<1>3a. q.op # "stable"
  BY <1>2, Zenon
<1>3b. InCall(p, q, a)
  BY <1>1, <1>3a, Requested, Zenon
<1>3. /\ q \in Run /\ q.left # <<>> /\ k \in Node /\ RunOK(p, q)
      /\ a.instance = q.instance /\ a.v = q.v
  BY <1>1, <1>3b, Zenon DEF InCall
<1>4. Chosen(q.instance, q.v) /\ q.instance \in 2..MaxInstance /\ q.v \in Val
  BY <1>2, <1>3, Zenon DEF RunOK, Run
<1>5. AcceptorInv' /\ Keeps /\ votes' = votes
  BY <1>2, <1>3, <1>4, CommitServed, Zenon DEF PaxosInv
<1> QED
  BY <1>2, <1>3, <1>4, <1>5, CallAnswered, ZenonT(30)

\* A call of the proposer times out.
LEMMA StepTimeout ==
  ASSUME PaxosInv, NEW p \in Node, Timeout(p)
  PROVE  PaxosInv' /\ Keeps
<1>1. PICK q, a : q = pro[p] /\ a = Request(p)
  BY Zenon
<1>2. /\ q.op # "stable" /\ Goes(p, Accepted(q, FALSE)) /\ late' = late \union {a}
      /\ acc' = acc /\ disk' = disk /\ votes' = votes /\ my_n' = my_n
  BY <1>1, Zenon DEF Timeout, Running
<1>3a. q.op # "stable"
  BY <1>2, Zenon
<1>3b. InCall(p, q, a)
  BY <1>1, <1>3a, Requested, Zenon
<1>3. /\ q \in Run /\ q.left # <<>> /\ RunOK(p, q)
      /\ a \in Message /\ a.op = q.op /\ a.instance = q.instance /\ a.v = q.v
  BY <1>1, <1>3b, Zenon DEF InCall
<1>4. AcceptorInv' /\ Keeps
  BY <1>2, NothingChanges, LearnedStays, Zenon DEF PaxosInv, AcceptorInv
<1>5. PICK r : r = Accepted(q, FALSE)
  BY Zenon
<1>6. /\ r \in Run /\ r.op = q.op /\ r.instance = q.instance /\ r.v = q.v
      /\ \A k \in Range(r.accepts) : k \in Range(q.accepts)
  BY <1>3, <1>5, AfterCall, Zenon
<1>7. RunOK(p, r)
  BY <1>3, <1>6, Zenon DEF RunOK, VoteFor
<1>8. RunOK(p, r)'
  BY <1>2, <1>7, RunStays, Zenon
<1>9. PICK s : pro' = [pro EXCEPT ![p] = s] /\ Ready(p, s)'
  BY <1>2, <1>5, <1>6, <1>8, GoesOn, Zenon
<1>10. RunsReady'
  BY <1>2, <1>9, OneRunChanges, Zenon DEF PaxosInv
<1>11. LateOK'
  <2> SUFFICES ASSUME NEW b \in late', b.op = "decide" PROVE Chosen(b.instance, b.v)'
    BY SMTT(30) DEF LateOK
  <2>1. Chosen(b.instance, b.v)
    BY <1>2, <1>3, Zenon DEF RunOK, LateOK, PaxosInv
  <2> QED
    BY <1>2, <2>1, ChosenStays, Zenon
<1> QED
  BY <1>2, <1>3, <1>4, <1>10, <1>11, Zenon DEF PaxosInv

\* A request is served after its call has timed out.
LEMMA StepLate ==
  ASSUME PaxosInv, NEW a \in late, Late(a)
  PROVE  PaxosInv' /\ Keeps
<1>1. /\ late' \subseteq late /\ serve(a) /\ pro' = pro /\ my_n' = my_n
      /\ a \in Message /\ a.to \in Node
  BY Zenon DEF Late, PaxosInv, Message
<1>2. AcceptorInv' /\ Keeps /\ votes \subseteq votes'
  <2>1. CASE a.op = "prepare" /\ preparereq(a.to, a)
    BY <1>1, <2>1, PrepareServed, Zenon DEF PaxosInv
  <2>2. CASE a.op = "accept" /\ acceptreq(a.to, a)
    BY <1>1, <2>2, AcceptServed, Zenon DEF PaxosInv
  <2>3. CASE a.op = "decide" /\ decidereq(a.to, a)
    <3>1. Chosen(a.instance, a.v) /\ a.instance \in 2..MaxInstance /\ a.v \in Val
      BY <1>1, <2>3, Zenon DEF PaxosInv, LateOK, Message
    <3>2. commit(a.to, a.instance, a.v)
      BY <2>3, Zenon DEF decidereq
    <3> QED
      BY <1>1, <3>1, <3>2, CommitServed, Zenon DEF PaxosInv
  <2> QED
    BY <1>1, <2>1, <2>2, <2>3, Zenon DEF serve
<1>3. RunsReady'
  <2> SUFFICES ASSUME NEW k \in Node PROVE Ready(k, pro[k])'
    BY <1>1, Zenon DEF RunsReady, PaxosInv
  <2>1. PICK r : r = pro[k]
    BY Zenon
  <2>2. Ready(k, r)'
    BY <1>1, <1>2, <2>1, RunStays, Zenon DEF Ready, RunsReady, PaxosInv
  <2> QED
    BY <1>1, <2>1, <2>2, Zenon DEF Ready
<1>4. LateOK'
  BY <1>1, <1>2, LateStays, Zenon DEF PaxosInv
<1> QED
  BY <1>1, <1>2, <1>3, <1>4, Zenon DEF PaxosInv

\* A node restarts from its log.
LEMMA StepRestart ==
  ASSUME PaxosInv, NEW p \in Node, Restart(p)
  PROVE  PaxosInv' /\ Keeps
<1>1. /\ acc \in [Node -> Acceptor] /\ disk \in [Node -> Acceptor]
      /\ DurableState /\ Learned /\ votes \subseteq Vote
  BY Zenon DEF PaxosInv, AcceptorInv
<1>2. Constructed(p, disk[p]) = disk[p]
  <2>1. disk[p].instance_h # 0
    BY <1>1, Zenon DEF Acceptor
  <2> QED
    BY <2>1, Zenon DEF Constructed
<1>3. /\ acc' = [acc EXCEPT ![p] = disk[p]] /\ disk' = disk /\ late' = late
      /\ votes' = votes /\ pro' = [pro EXCEPT ![p] = Stable]
  BY <1>1, <1>2, Zenon DEF Restart
<1>4. PICK n \in Nat : my_n' = [my_n EXCEPT ![p] = n]
  BY PaxosAssumption, ZenonT(30) DEF Restart
<1>5. \A k \in Node : /\ acc'[k].values = acc[k].values
                      /\ acc'[k].instance_h = acc[k].instance_h
  BY <1>1, <1>3, Zenon DEF DurableState
<1>6. Keeps /\ Learned'
  BY <1>1, <1>3, <1>5, SameDecisions, LearnedStays, Zenon
<1>7. DurableState'
  BY <1>1, <1>3 DEF DurableState, Same
<1>8. AcceptorInv'
  BY <1>1, <1>3, <1>6, <1>7, Zenon DEF AcceptorInv
<1>9. RunsReady'
  <2>1. PICK q : q = Stable
    BY Zenon
  <2>2. Ready(p, q)'
    BY <2>1, Zenon DEF Ready, Stable
  <2> QED
    BY <1>3, <1>4, <2>1, <2>2, OneRunChanges, Zenon DEF PaxosInv
<1>10. LateOK'
  BY <1>3, LateStays, Zenon DEF PaxosInv
<1> QED
  BY <1>3, <1>4, <1>6, <1>8, <1>9, <1>10, Zenon DEF PaxosInv

\* Every step keeps the invariant.
LEMMA PaxosStep ==
  ASSUME PaxosInv, Next
  PROVE  PaxosInv' /\ Keeps
BY StepPropose, StepPrepare, StepAccept, StepDecide, StepTimeout, StepLate, StepRestart, Zenon
DEF Next

\* So does a step that changes nothing of the nodes.
LEMMA PaxosStutters ==
  ASSUME PaxosInv, UNCHANGED paxosVars
  PROVE  PaxosInv' /\ Keeps
<1>1. /\ acc' = acc /\ disk' = disk /\ pro' = pro /\ my_n' = my_n /\ late' = late
      /\ votes' = votes
  BY Zenon DEF paxosVars
<1>2. AcceptorInv' /\ Keeps
  BY <1>1, NothingChanges, LearnedStays, Zenon DEF PaxosInv, AcceptorInv
<1>3. RunsReady'
  <2> SUFFICES ASSUME NEW k \in Node PROVE Ready(k, pro[k])'
    BY <1>1, Zenon DEF RunsReady, PaxosInv
  <2>1. PICK r : r = pro[k]
    BY Zenon
  <2>2. Ready(k, r)'
    BY <1>1, <2>1, RunStays, Zenon DEF Ready, RunsReady, PaxosInv
  <2> QED
    BY <1>1, <2>1, <2>2, Zenon DEF Ready
<1>4. LateOK'
  BY <1>1, LateStays, Zenon DEF PaxosInv
<1> QED
  BY <1>1, <1>2, <1>3, <1>4, Zenon DEF PaxosInv

\* The invariant holds initially.
LEMMA PaxosStarts == Init => PaxosInv
<1> SUFFICES ASSUME Init PROVE PaxosInv
  BY Zenon
<1> DEFINE none == [i \in Instance |-> NoValue]
           z(p) == [n |-> 0, m |-> p]
<1>1. 1 \in Instance \ {0} /\ NoValue \in Val /\ FirstValue \in Val
  BY PaxosAssumption DEF Instance, Val
<1>2. ASSUME NEW p \in Node
      PROVE  /\ acc[p] \in Acceptor /\ acc[p].instance_h = 1
             /\ acc[p].values = [none EXCEPT ![1] = FirstValue]
  <2>1. z(p) \in Number /\ none \in [Instance -> Val]
    BY <1>1, Zenon DEF Number
  <2>2. PICK b : b = Blank(p)
    BY Zenon
  <2>3. b = [n_h |-> z(p), n_a |-> z(p), v_a |-> NoValue, instance_h |-> 0, values |-> none]
    BY <2>2, Zenon DEF Blank
  <2>4. PICK vs : vs = [none EXCEPT ![1] = FirstValue]
    BY ZenonT(30)
  <2>5. vs \in [Instance -> Val]
    BY <1>1, <2>1, <2>4, Zenon
  <2>6. /\ b \in [n_h : Number, n_a : Number, v_a : Val, instance_h : {0},
                  values : [Instance -> Val]]
        /\ b.values = none
    <3> HIDE DEF none, z
    <3> QED
      BY <1>1, <2>1, <2>3, Zenon
  <2>7. acc[p] = [b EXCEPT !.instance_h = 1, !.values = vs]
    BY <2>2, <2>4, <2>6, ZenonT(30) DEF Init
  <2> HIDE DEF none
  <2> QED
    BY <1>1, <2>4, <2>5, <2>6, <2>7, Zenon DEF Acceptor
<1>3. acc \in [Node -> Acceptor] /\ disk = acc
  BY <1>2, Zenon DEF Init
<1>4. DurableState
  BY <1>3, Zenon DEF DurableState, Same
<1>5. Learned
  <2> SUFFICES ASSUME NEW p \in Node, NEW i \in 2..MaxInstance
               PROVE  acc[p].values[i] = NoValue
    BY Zenon DEF Learned
  <2>1. i \in Instance /\ i # 1
    BY PaxosAssumption, SMTT(30) DEF Instance
  <2> QED
    BY <1>2, <2>1, Zenon
<1>6. AcceptorInv
  BY <1>3, <1>4, <1>5, ZenonT(30) DEF AcceptorInv, Init
<1>7. RunsReady
  BY Zenon DEF RunsReady, Ready, Init
<1> QED
  BY <1>6, <1>7, PaxosAssumption, Zenon DEF PaxosInv, LateOK, Init

\* The invariant holds in every reachable state.
LEMMA PaxosInvHolds == Spec => []PaxosInv
<1>1. PaxosInv /\ [Next]_paxosVars => PaxosInv'
  BY PaxosStep, PaxosStutters, Zenon
<1> QED
  BY <1>1, PaxosStarts, PTL DEF Spec

-----------------------------------------------------------------------------
(***************************************************************************)
(* What acceptor::acceptor rebuilds from the log after a crash is what the *)
(* node promised, accepted and decided, whenever it crashes.               *)
(***************************************************************************)
THEOREM DurableStateHolds == Spec => []DurableState
<1>1. PaxosInv => DurableState
  BY Zenon DEF PaxosInv, AcceptorInv
<1> QED
  BY <1>1, PaxosInvHolds, PTL

(***************************************************************************)
(* What a node learns to be decided was accepted under one number by more  *)
(* than half of the nodes, whatever is lost, late or served twice.         *)
(***************************************************************************)
THEOREM MajorityAgreedHolds == Spec => []MajorityAgreed
<1>1. PaxosInv => MajorityAgreed
  <2> SUFFICES ASSUME PaxosInv, NEW p \in Node, NEW i \in 2..acc[p].instance_h
               PROVE  acc[p].values[i] = NoValue \/ Chosen(i, acc[p].values[i])
    BY Zenon DEF MajorityAgreed
  <2>1. acc[p].instance_h \in Nat /\ acc[p].instance_h <= MaxInstance
    BY PaxosAssumption DEF PaxosInv, AcceptorInv, Acceptor, Instance
  <2>2. i \in 2..MaxInstance
    BY <2>1, PaxosAssumption
  <2> QED
    BY <2>2, Zenon DEF PaxosInv, AcceptorInv, Learned
<1> QED
  BY <1>1, PaxosInvHolds, PTL

(***************************************************************************)
(* A decision is never unlearned or replaced: acceptor::commit_wo takes    *)
(* only later instances, and a crash loses none.                           *)
(***************************************************************************)
THEOREM IrrevocableHolds == Spec => Irrevocable
<1>1. PaxosInv /\ [Next]_paxosVars => [Keeps]_paxosVars
  BY PaxosStep, Zenon
<1> QED
  BY <1>1, PaxosInvHolds, PTL DEF Spec, Irrevocable, Keeps

-----------------------------------------------------------------------------
(***************************************************************************)
(* Agreement: what it rests on.  The argument is about the histories in    *)
(* which one instance is voted on, the second, and no two nodes had        *)
(* different values accepted under the same n.                             *)
(***************************************************************************)

\* Sets of positions of Group of which any two meet.
Quorum == {K \in SUBSET DOMAIN Group : 2 * Cardinality(K) > Len(Group)}

VotedFor(k, b, v) == [by |-> k, instance |-> 2, n |-> b, v |-> v] \in votes

\* Node k accepts no proposal below b any more: it has promised so, or it knows
\* the instance to be decided.
Promised(k, b) == acc[k].instance_h # 1 \/ ge(acc[k].n_h, b)

\* Nor one numbered b.
Past(k, b) == acc[k].instance_h # 1 \/ gt(acc[k].n_h, b)

\* Nothing but v was or will be chosen under a number below b.
SafeAt(b, v) ==
  \A c \in Number : gt(b, c) => \E K \in Quorum : \A i \in K :
    \/ VotedFor(Group[i], c, v)
    \/ Past(Group[i], c) /\ \A x \in Val : ~VotedFor(Group[i], c, x)

\* A majority of the nodes, none of them in S, promised b.
Owned(b, S) ==
  \E K \in Quorum : \A i \in K : Promised(Group[i], b) /\ Group[i] \notin S

Num(p) == [n |-> my_n[p], m |-> p]

\* v has been proposed under number b: in a vote, in an accept whose call has
\* timed out, or by a proposer that is calling accept now.
Proposal(b, v) ==
  \/ \E w \in votes : w.n = b /\ w.v = v
  \/ \E a \in late : a.op = "accept" /\ a.instance = 2 /\ a.n = b /\ a.v = v
  \/ \E p \in Node : /\ pro[p].op = "accept" /\ pro[p].instance = 2
                     /\ b = Num(p) /\ v = pro[p].v

ProposalsOK ==
  \A b \in Number, v \in Val : Proposal(b, v) =>
    /\ v # NoValue /\ b.n > 0 /\ SafeAt(b, v) /\ Owned(b, {})
    /\ \A x \in Val : Proposal(b, x) => x = v

\* What the prepares of run q have told the proposer of p: who promised, and
\* what those nodes had voted for under the highest n.
Heard(p, q) ==
  /\ q.v # NoValue
  /\ \A k \in Range(q.accepts) : Promised(k, Num(p))
  /\ \A w \in votes : w.by \in Range(q.accepts) /\ gt(Num(p), w.n) => w.n.n <= q.highest_n
  /\ q.highest_n = 0 \/ \E w \in votes : w.n.n = q.highest_n /\ w.v = q.v

\* A crashed proposer forgets my_n and may use a number a second time: then a
\* majority has promised that number already, and does not promise it again.
Unused(p, q) == \A v \in Val : Proposal(Num(p), v) => Owned(Num(p), Range(q.accepts))

RunFine(p, q) ==
  /\ my_n[p] > 0 /\ (q.instance = 2 \/ votes # {})
  /\ q.instance = 2 /\ q.op = "prepare" => Heard(p, q) /\ Unused(p, q)
  /\ q.instance = 2 /\ q.op = "accept" => \A k \in Range(q.left) : Promised(k, Num(p))

RunsFine == \A p \in Node : pro[p].op # "stable" => RunFine(p, pro[p])

LateFine ==
  \A a \in late : /\ a.instance = 2 \/ votes # {}
                  /\ a.instance = 2 /\ a.op = "accept" => Promised(a.to, a.n)

NodeFine(k) ==
  /\ acc[k].values[1] = FirstValue
  /\ acc[k].instance_h # 1 => acc[k].instance_h = 2 /\ acc[k].values[2] # NoValue
  /\ acc[k].instance_h = 1 =>
       /\ disk[k] = acc[k] /\ ge(acc[k].n_h, acc[k].n_a)
       /\ \A w \in votes : w.by = k => ge(acc[k].n_a, w.n)
       /\ acc[k].n_a.n = 0 \/ VotedFor(k, acc[k].n_a, acc[k].v_a)

NodesFine == \A k \in Node : NodeFine(k)

SecondOnly == \A w \in votes : w.instance = 2

Consensus == SecondOnly /\ ProposalsOK /\ RunsFine /\ LateFine /\ NodesFine

(***************************************************************************)
(* The inductive invariant, with PaxosInv.  Votes are never taken back, so *)
(* its hypothesis holds before a step when it holds after it.              *)
(***************************************************************************)
ConsensusInv == OneInstance /\ ~Tie => Consensus

-----------------------------------------------------------------------------
\* gt and ge order the proposal numbers.
LEMMA Order ==
  ASSUME NEW a \in Number, NEW b \in Number, NEW c \in Number
  PROVE  /\ ge(a, b) <=> gt(a, b) \/ a = b
         /\ gt(a, b) \/ gt(b, a) \/ a = b
         /\ ~(gt(a, b) /\ ge(b, a))
         /\ gt(a, b) /\ ge(b, c) => gt(a, c)
         /\ ge(a, b) /\ gt(b, c) => gt(a, c)
         /\ ge(a, b) /\ ge(b, c) => ge(a, c)
         /\ ge(a, b) => a.n >= b.n
<1>1. a.n \in Nat /\ b.n \in Nat /\ c.n \in Nat /\ a.m \in Nat /\ b.m \in Nat /\ c.m \in Nat
  BY PaxosAssumption, Zenon DEF Number
<1>2. a = [n |-> a.n, m |-> a.m] /\ b = [n |-> b.n, m |-> b.m]
  BY Zenon DEF Number
<1>3. a.n = b.n /\ a.m = b.m => a = b
  BY <1>2, Zenon
<1> QED
  BY <1>1, <1>3 DEF gt, ge

\* ge is a preorder: the part of Order that most steps need.
LEMMA OrderGoesOn ==
  ASSUME NEW a \in Number, NEW b \in Number, NEW c \in Number
  PROVE  ge(a, a) /\ (ge(a, b) /\ ge(b, c) => ge(a, c))
BY Order, Zenon

\* The elements of a list of nodes are nodes.
LEMMA ElementsIn ==
  ASSUME NEW S, NEW s \in Seq(S)
  PROVE  Range(s) \subseteq S
BY DEF Range

\* Any two quorums have a position in common.
LEMMA QuorumsMeet ==
  ASSUME NEW K \in Quorum, NEW L \in Quorum
  PROVE  \E i \in DOMAIN Group : i \in K /\ i \in L
<1>1. Len(Group) \in Nat /\ DOMAIN Group = 1..Len(Group)
  BY GroupAssumption
<1>2. IsFiniteSet(DOMAIN Group) /\ Cardinality(DOMAIN Group) = Len(Group)
  <2>1. 1 \in Int /\ Len(Group) \in Int
    BY <1>1
  <2>2. /\ IsFiniteSet(1..Len(Group))
        /\ Cardinality(1..Len(Group)) = IF 1 > Len(Group) THEN 0 ELSE Len(Group) - 1 + 1
    BY <2>1, FS_Interval, Zenon
  <2> QED
    BY <1>1, <2>2
<1>3. K \subseteq DOMAIN Group /\ L \subseteq DOMAIN Group
  BY Zenon DEF Quorum
<1>4. IsFiniteSet(K) /\ IsFiniteSet(L) /\ IsFiniteSet(K \union L)
  BY <1>2, <1>3, FS_Subset, Zenon
<1>5. /\ Cardinality(K \union L) = Cardinality(K) + Cardinality(L) - Cardinality(K \cap L)
      /\ Cardinality(K \union L) <= Len(Group)
  <2>1. K \union L \subseteq DOMAIN Group
    BY <1>3, Zenon
  <2> QED
    BY <1>2, <1>4, <2>1, FS_Union, FS_Subset
<1>6. Cardinality(K) \in Nat /\ Cardinality(L) \in Nat /\ Cardinality(K \union L) \in Nat
  BY <1>4, FS_CardinalityType, Zenon
<1>7. 2 * Cardinality(K) > Len(Group) /\ 2 * Cardinality(L) > Len(Group)
  BY Zenon DEF Quorum
<1>8. K \cap L # {}
  <2> SUFFICES ASSUME K \cap L = {} PROVE FALSE
    BY Zenon
  <2>1. Cardinality(K \cap L) = 0
    BY FS_EmptySet, Zenon
  <2> QED
    BY <2>1, <1>1, <1>5, <1>6, <1>7
<1> QED
  BY <1>3, <1>8, Zenon

\* The positions of the nodes majority counts are a quorum.
LEMMA MajorityIsQuorum ==
  ASSUME NEW s \in Seq(Node), majority(Group, s)
  PROVE  {k \in DOMAIN Group : Group[k] \in Range(s)} \in Quorum
BY MajorityCounts, Zenon DEF Quorum

\* The members of a quorum are nodes of the group.
LEMMA Voters ==
  ASSUME NEW i, NEW K \in Quorum, i \in K
  PROVE  i \in DOMAIN Group /\ Group[i] \in Node
<1>1. i \in DOMAIN Group
  BY Zenon DEF Quorum
<1> QED
  BY <1>1, GroupAssumption

-----------------------------------------------------------------------------
\* What every step does to promises and votes: it adds to them, and a node votes
\* for no number it is past.
Grows ==
  /\ votes \subseteq votes'
  /\ \A w \in votes' : w \in votes \/ ~Past(w.by, w.n)
  /\ \A k \in Node : acc[k].instance_h # 1 => acc'[k].instance_h # 1
  /\ \A k \in Node : acc'[k].instance_h = 1 => ge(acc'[k].n_h, acc[k].n_h)

\* A promise is kept: n_h never goes down while the instance is open.
LEMMA PromiseStays ==
  ASSUME acc \in [Node -> Acceptor], acc' \in [Node -> Acceptor], Grows,
         NEW k \in Node, NEW b \in Number
  PROVE  (Promised(k, b) => Promised(k, b)') /\ (Past(k, b) => Past(k, b)')
<1>1. acc[k].n_h \in Number /\ acc'[k].n_h \in Number
  BY Zenon DEF Acceptor
<1>2. acc'[k].instance_h = 1 => acc[k].instance_h = 1 /\ ge(acc'[k].n_h, acc[k].n_h)
  BY Zenon DEF Grows
<1> QED
  BY <1>1, <1>2, Order, Zenon DEF Promised, Past

\* A number that a majority has promised stays theirs.
LEMMA OwnedStays ==
  ASSUME acc \in [Node -> Acceptor], acc' \in [Node -> Acceptor], Grows,
         NEW b \in Number, NEW S, Owned(b, S)
  PROVE  Owned(b, S)'
<1>1. PICK K \in Quorum : \A i \in K : Promised(Group[i], b) /\ Group[i] \notin S
  BY Zenon DEF Owned
<1>2. \A i \in K : Promised(Group[i], b)' /\ Group[i] \notin S
  BY <1>1, PromiseStays, Voters, Zenon
<1> QED
  BY <1>2, Zenon DEF Owned

\* A value that is safe at a number stays safe: votes are not taken back, and
\* nobody votes for a number it is past.
LEMMA SafeStays ==
  ASSUME acc \in [Node -> Acceptor], acc' \in [Node -> Acceptor], Grows,
         NEW b \in Number, NEW v, SafeAt(b, v)
  PROVE  SafeAt(b, v)'
<1> SUFFICES ASSUME NEW c \in Number, gt(b, c)
             PROVE  \E K \in Quorum : \A i \in K :
                      \/ VotedFor(Group[i], c, v)'
                      \/ Past(Group[i], c)' /\ \A x \in Val : ~VotedFor(Group[i], c, x)'
  BY Zenon DEF SafeAt
<1>1. PICK K \in Quorum : \A i \in K :
        \/ VotedFor(Group[i], c, v)
        \/ Past(Group[i], c) /\ \A x \in Val : ~VotedFor(Group[i], c, x)
  BY Zenon DEF SafeAt
<1> SUFFICES ASSUME NEW i \in K
             PROVE  \/ VotedFor(Group[i], c, v)'
                    \/ Past(Group[i], c)' /\ \A x \in Val : ~VotedFor(Group[i], c, x)'
  BY Zenon
<1>2. Group[i] \in Node
  BY Voters, Zenon
<1>3. CASE VotedFor(Group[i], c, v)
  BY <1>3, Zenon DEF VotedFor, Grows
<1>4. CASE Past(Group[i], c) /\ \A x \in Val : ~VotedFor(Group[i], c, x)
  <2>1. Past(Group[i], c)'
    BY <1>2, <1>4, PromiseStays, Zenon
  <2>2. ASSUME NEW x \in Val, VotedFor(Group[i], c, x)' PROVE FALSE
    <3>1. PICK w : w = [by |-> Group[i], instance |-> 2, n |-> c, v |-> x]
      BY ZenonT(30)
    <3>2. w \in votes' /\ w \notin votes /\ w.by = Group[i] /\ w.n = c
      BY <1>4, <2>2, <3>1, Zenon DEF VotedFor
    <3> QED
      BY <1>4, <3>2, Zenon DEF Grows
  <2> QED
    BY <2>1, <2>2, Zenon
<1> QED
  BY <1>1, <1>3, <1>4, Zenon
-----------------------------------------------------------------------------
(* The acceptors. *)

\* What is chosen was voted for by a quorum under one number.
LEMMA ChosenVotes ==
  ASSUME votes \subseteq Vote, SecondOnly, NEW i, NEW v, Chosen(i, v)
  PROVE  /\ i = 2 /\ votes # {}
         /\ \E b \in Number, K \in Quorum : \A j \in K : VotedFor(Group[j], b, v)
<1>1. PICK b \in {w.n : w \in votes} : 2 * Cardinality(Accepters(i, b, v)) > Len(Group)
  BY Zenon DEF Chosen
<1>2. b \in Number
  BY Zenon DEF Vote
<1>3. PICK A : A = Accepters(i, b, v)
  BY Zenon
<1>4. A \in Quorum
  BY <1>1, <1>3, Zenon DEF Quorum, Accepters
<1>5. PICK j \in DOMAIN Group : j \in A
  BY <1>4, QuorumsMeet, Zenon
<1>6. i = 2
  <2>1. [by |-> Group[j], instance |-> i, n |-> b, v |-> v] \in votes
    BY <1>3, <1>5, Zenon DEF Accepters
  <2>2. PICK w \in votes : w = [by |-> Group[j], instance |-> i, n |-> b, v |-> v]
    BY <2>1, Zenon
  <2> QED
    BY <2>2, Zenon DEF SecondOnly
<1>7. \A l \in A : VotedFor(Group[l], b, v)
  BY <1>3, <1>6, Zenon DEF Accepters, VotedFor
<1> QED
  BY <1>1, <1>2, <1>4, <1>6, <1>7, Zenon

\* A node that is left alone, and casts no vote, stays as it should be.
LEMMA NodeStays ==
  ASSUME NEW k, NodeFine(k), acc'[k] = acc[k], disk'[k] = disk[k],
         votes \subseteq votes', \A w \in votes' : w \in votes \/ w.by # k
  PROVE  NodeFine(k)'
<1>1. PICK a, d : a = acc[k] /\ d = disk[k] /\ a = acc'[k] /\ d = disk'[k]
  BY Zenon
<1>2. VotedFor(k, a.n_a, a.v_a) => VotedFor(k, a.n_a, a.v_a)'
  BY Zenon DEF VotedFor
<1>3. /\ a.values[1] = FirstValue
      /\ a.instance_h # 1 => a.instance_h = 2 /\ a.values[2] # NoValue
      /\ a.instance_h = 1 =>
           /\ d = a /\ ge(a.n_h, a.n_a)
           /\ \A w \in votes : w.by = k => ge(a.n_a, w.n)
           /\ a.n_a.n = 0 \/ VotedFor(k, a.n_a, a.v_a)
  BY <1>1, Zenon DEF NodeFine
<1>4. /\ a.instance_h = 1 =>
           /\ d = a /\ ge(a.n_h, a.n_a)
           /\ \A w \in votes' : w.by = k => ge(a.n_a, w.n)
           /\ a.n_a.n = 0 \/ VotedFor(k, a.n_a, a.v_a)'
  BY <1>2, <1>3, Zenon
<1> QED
  BY <1>1, <1>3, <1>4, Zenon DEF NodeFine, VotedFor

\* When no acceptor changes and nobody votes, nothing is lost.
LEMMA QuietGrows ==
  ASSUME acc \in [Node -> Acceptor], acc' = acc, votes' = votes
  PROVE  Grows
<1>1. \A k \in Node : acc[k].n_h \in Number
  BY Zenon DEF Acceptor
<1>2. \A k \in Node : ge(acc[k].n_h, acc[k].n_h)
  BY <1>1, Order, Zenon
<1> QED
  BY <1>2, Zenon DEF Grows

\* preparereq.
LEMMA PromiseMade ==
  ASSUME AcceptorInv, NodesFine, NEW k \in Node, NEW a \in Message, preparereq(k, a)
  PROVE  /\ Grows /\ NodesFine' /\ votes' = votes
         /\ PrepareReply(k, a).accept => Promised(k, a.n)'
<1>0. acc \in [Node -> Acceptor] /\ disk \in [Node -> Acceptor] /\ votes' = votes
  BY Zenon DEF AcceptorInv, preparereq
<1>1. CASE ~PrepareReply(k, a).accept
  <2>1. acc' = acc /\ disk' = disk
    BY <1>1, Zenon DEF preparereq
  <2>2. NodesFine'
    <3> SUFFICES ASSUME NEW j \in Node PROVE NodeFine(j)'
      BY Zenon DEF NodesFine
    <3>1. NodeFine(j)
      BY Zenon DEF NodesFine
    <3> QED
      BY <1>0, <2>1, <3>1, NodeStays, Zenon
  <2> QED
    BY <1>0, <1>1, <2>1, <2>2, QuietGrows, Zenon
<1>2. CASE PrepareReply(k, a).accept
  <2>1. a.n \in Number /\ gt(a.n, acc[k].n_h)
    BY <1>2, Zenon DEF Message, PrepareReply
  <2>2. PICK b, d : b = loghigh(acc[k], a.n) /\ d = loghigh(disk[k], a.n)
    BY Zenon
  <2>3. acc' = [acc EXCEPT ![k] = b] /\ disk' = [disk EXCEPT ![k] = d]
    BY <1>2, <2>2, Zenon DEF preparereq, loghigh
  <2>4. /\ acc'[k] = b /\ disk'[k] = d
        /\ \A j \in Node \ {k} : acc'[j] = acc[j] /\ disk'[j] = disk[j]
    BY <1>0, <2>3, Zenon
  <2>5. /\ b.n_h = a.n /\ b.n_a = acc[k].n_a /\ b.v_a = acc[k].v_a
        /\ b.instance_h = acc[k].instance_h /\ b.values = acc[k].values
    BY <1>0, <2>1, <2>2, LogHigh, Zenon
  <2>6. \A j \in Node : acc[j].n_h \in Number /\ acc[j].n_a \in Number
    BY <1>0, Zenon DEF Acceptor
  <2>7. ge(a.n, acc[k].n_h) /\ ge(a.n, a.n)
    BY <2>1, <2>6, Order, Zenon
  <2>8. Grows
    <3>1. \A j \in Node : ge(acc'[j].n_h, acc[j].n_h)
      BY <2>4, <2>5, <2>6, <2>7, Order, SMTT(30)
    <3>2. \A j \in Node : acc'[j].instance_h = acc[j].instance_h
      BY <2>4, <2>5, Zenon
    <3> QED
      BY <1>0, <3>1, <3>2, Zenon DEF Grows
  <2>9. NodesFine'
    <3> SUFFICES ASSUME NEW j \in Node PROVE NodeFine(j)'
      BY Zenon DEF NodesFine
    <3>0. NodeFine(j)
      BY Zenon DEF NodesFine
    <3>1. CASE j # k
      BY <1>0, <2>4, <3>0, <3>1, NodeStays, Zenon
    <3>2. CASE j = k
      <4>1. acc[k].instance_h = 1 => d = b
        BY <2>2, <3>0, <3>2, ZenonT(30) DEF NodeFine
      <4>2. acc[k].instance_h = 1 => ge(a.n, acc[k].n_a)
        <5>1. acc[k].instance_h = 1 => ge(acc[k].n_h, acc[k].n_a)
          BY <3>0, <3>2, Zenon DEF NodeFine
        <5>2. a.n \in Number /\ acc[k].n_h \in Number /\ acc[k].n_a \in Number
          BY <2>1, <2>6, Zenon
        <5> QED
          BY <2>7, <5>1, <5>2, OrderGoesOn
      <4> QED
        BY <1>0, <2>4, <2>5, <3>0, <3>2, <4>1, <4>2, ZenonT(30) DEF NodeFine, VotedFor
    <3> QED
      BY <3>1, <3>2, Zenon
  <2>10. Promised(k, a.n)'
    BY <2>4, <2>5, <2>7, Zenon DEF Promised
  <2> QED
    BY <1>0, <2>8, <2>9, <2>10, Zenon
<1> QED
  BY <1>1, <1>2, Zenon

\* acceptreq.
LEMMA VoteCast ==
  ASSUME AcceptorInv, NodesFine, SecondOnly, OneInstance', NEW k \in Node,
         NEW a \in Message, acceptreq(k, a), a.instance = 2 \/ votes # {},
         a.instance = 2 => Promised(k, a.n)
  PROVE  /\ Grows /\ NodesFine' /\ SecondOnly'
         /\ \A w \in votes' : \/ w \in votes
                              \/ a.instance = 2 /\ w.by = k /\ w.n = a.n /\ w.v = a.v
<1>0. /\ acc \in [Node -> Acceptor] /\ disk \in [Node -> Acceptor]
      /\ votes \subseteq Vote
  BY Zenon DEF AcceptorInv
<1>1. CASE ~AcceptReply(k, a)
  <2>1. acc' = acc /\ disk' = disk /\ votes' = votes
    BY <1>1, Zenon DEF acceptreq
  <2>2. NodesFine'
    <3> SUFFICES ASSUME NEW j \in Node PROVE NodeFine(j)'
      BY Zenon DEF NodesFine
    <3>1. NodeFine(j)
      BY Zenon DEF NodesFine
    <3> QED
      BY <2>1, <3>1, NodeStays, Zenon
  <2> QED
    BY <1>0, <2>1, <2>2, QuietGrows, Zenon DEF SecondOnly
<1>2. CASE AcceptReply(k, a)
  <2>1. PICK w : w = [by |-> k, instance |-> a.instance, n |-> a.n, v |-> a.v]
    BY Zenon
  <2>2. votes' = votes \union {w}
    BY <1>2, <2>1, Zenon DEF acceptreq
  <2>3. a.instance = 2
    <3>1. CASE votes # {}
      <4>1. PICK u \in votes : u.instance = 2
        BY <3>1, Zenon DEF SecondOnly
      <4>2. u.instance = w.instance
        BY <2>2, <4>1, Zenon DEF OneInstance
      <4> QED
        BY <2>1, <4>1, <4>2, Zenon
    <3> QED
      BY <3>1, Zenon
  <2>4. a.n \in Number /\ a.v \in Val
    BY Zenon DEF Message
  <2>5. /\ acc[k].instance_h = 1 /\ acc[k].n_h \in Number /\ acc[k].n_a \in Number
        /\ \A j \in Node : acc[j].n_h \in Number
    <3>1. acc[k].instance_h \in 1..MaxInstance
      BY <1>0, PaxosAssumption DEF Acceptor, Instance
    <3>2. acc[k].instance_h < 2
      BY <1>2, <2>3, Zenon DEF AcceptReply
    <3> QED
      BY <1>0, <3>1, <3>2, PaxosAssumption DEF Acceptor
  <2>6. acc[k].n_h = a.n
    <3>1. ge(a.n, acc[k].n_h) /\ ge(acc[k].n_h, a.n)
      BY <1>2, <2>3, <2>5, Zenon DEF AcceptReply, Promised
    <3> QED
      BY <2>4, <2>5, <3>1, Order, Zenon
  <2>7. NodeFine(k)
    BY Zenon DEF NodesFine
  <2>8. loghigh(acc[k], a.n) = acc[k] /\ disk[k] = acc[k]
    BY <1>0, <2>5, <2>6, <2>7, Zenon DEF loghigh, Acceptor, NodeFine
  <2>9. PICK b : b = logprop(acc[k], a.n, a.v)
    BY Zenon
  <2>10. /\ acc' = [acc EXCEPT ![k] = logprop(loghigh(@, a.n), a.n, a.v)]
         /\ disk' = [disk EXCEPT ![k] = logprop(@, a.n, a.v)]
    BY <1>2, Zenon DEF acceptreq, loghigh, logprop
  <2>11. /\ acc'[k] = b /\ disk'[k] = b
         /\ \A j \in Node \ {k} : acc'[j] = acc[j] /\ disk'[j] = disk[j]
    BY <1>0, <2>8, <2>9, <2>10, Zenon
  <2>12. /\ b.n_h = a.n /\ b.n_a = a.n /\ b.v_a = a.v
         /\ b.instance_h = 1 /\ b.values = acc[k].values
    BY <1>0, <2>4, <2>5, <2>6, <2>9, LogProp
  <2>13. ge(a.n, a.n) /\ \A j \in Node : ge(acc[j].n_h, acc[j].n_h)
    BY <2>4, <2>5, OrderGoesOn, Zenon
  <2>14. Grows
    <3>1. ~Past(k, a.n)
      BY <2>4, <2>5, <2>6, <2>13, Order, ZenonT(30) DEF Past
    <3>2. \A u \in votes' : u \in votes \/ ~Past(u.by, u.n)
      BY <2>1, <2>2, <3>1, SMTT(30)
    <3>3. \A j \in Node : ge(acc'[j].n_h, acc[j].n_h) /\ acc'[j].instance_h = acc[j].instance_h
      BY <2>5, <2>6, <2>11, <2>12, <2>13, ZenonT(30)
    <3> QED
      BY <2>2, <3>2, <3>3, Zenon DEF Grows
  <2>15. NodesFine'
    <3> SUFFICES ASSUME NEW j \in Node PROVE NodeFine(j)'
      BY Zenon DEF NodesFine
    <3>1. CASE j # k
      <4>1. NodeFine(j)
        BY Zenon DEF NodesFine
      <4> QED
        BY <2>1, <2>2, <2>11, <3>1, <4>1, NodeStays
    <3>2. CASE j = k
      <4>1. \A u \in votes' : u.by = k => ge(a.n, u.n)
        <5> SUFFICES ASSUME NEW u \in votes, u.by = k PROVE ge(a.n, u.n)
          BY <2>1, <2>2, <2>13, SMTT(30)
        <5>1. u.n \in Number /\ ge(acc[k].n_a, u.n) /\ ge(a.n, acc[k].n_a)
          BY <1>0, <2>5, <2>6, <2>7, Zenon DEF NodeFine, Vote
        <5> QED
          BY <2>4, <2>5, <5>1, Order, ZenonT(30)
      <4>2. VotedFor(k, a.n, a.v)'
        BY <2>1, <2>2, <2>3, Zenon DEF VotedFor
      <4>3. acc[k].values[1] = FirstValue
        BY <2>7, Zenon DEF NodeFine
      <4> QED
        BY <2>11, <2>12, <2>13, <3>2, <4>1, <4>2, <4>3, ZenonT(30) DEF NodeFine, VotedFor
    <3> QED
      BY <3>1, <3>2, Zenon
  <2>16. SecondOnly'
    BY <2>1, <2>2, <2>3 DEF SecondOnly
  <2> QED
    BY <2>1, <2>2, <2>3, <2>14, <2>15, <2>16
<1> QED
  BY <1>1, <1>2, Zenon

\* commit.
LEMMA DecisionTaken ==
  ASSUME AcceptorInv, NodesFine, NEW k \in Node, NEW v \in Val, v # NoValue,
         commit(k, 2, v), 2 \in 2..MaxInstance
  PROVE  Grows /\ NodesFine' /\ votes' = votes
<1>0. acc \in [Node -> Acceptor] /\ disk \in [Node -> Acceptor] /\ votes' = votes
  BY Zenon DEF AcceptorInv, commit
<1>1. \A j \in Node : acc[j].n_h \in Number
  BY <1>0, Zenon DEF Acceptor
<1>2. \A j \in Node : ge(acc[j].n_h, acc[j].n_h)
  BY <1>1, Order, Zenon
<1>3. CASE acc[k].instance_h >= 2
  <2>1. acc' = acc /\ disk' = disk
    <3>1. ~(2 > acc[k].instance_h)
      BY <1>0, <1>3, PaxosAssumption DEF Acceptor, Instance
    <3> QED
      BY <3>1, Zenon DEF commit
  <2>2. NodesFine'
    <3> SUFFICES ASSUME NEW j \in Node PROVE NodeFine(j)'
      BY Zenon DEF NodesFine
    <3>1. NodeFine(j)
      BY Zenon DEF NodesFine
    <3> QED
      BY <1>0, <2>1, <3>1, NodeStays, Zenon
  <2> QED
    BY <1>0, <2>1, <2>2, QuietGrows, Zenon
<1>4. CASE ~(acc[k].instance_h >= 2)
  <2>1. 2 > acc[k].instance_h
    BY <1>0, <1>4, PaxosAssumption DEF Acceptor, Instance
  <2>2. PICK vs : vs = [acc[k].values EXCEPT ![2] = v]
    BY Zenon
  <2>3. PICK b : b = [Blank(k) EXCEPT !.instance_h = 2, !.values = vs]
    BY Zenon
  <2>4. b.instance_h = 2 /\ b.values = vs
    <3>1. PICK z, none : z = [n |-> 0, m |-> k] /\ none = [i \in Instance |-> NoValue]
      BY Zenon
    <3>2. Blank(k) = [n_h |-> z, n_a |-> z, v_a |-> NoValue, instance_h |-> 0, values |-> none]
      BY <3>1, Zenon DEF Blank
    <3> QED
      BY <2>3, <3>2, Zenon
  <2>5. /\ acc' = [acc EXCEPT ![k] = b]
        /\ disk' = [disk EXCEPT ![k] = loginstance(@, 2, v)]
    BY <2>1, <2>2, <2>3, Zenon DEF commit
  <2>6. acc'[k] = b /\ \A j \in Node \ {k} : acc'[j] = acc[j] /\ disk'[j] = disk[j]
    BY <1>0, <2>5, Zenon
  <2>7. vs[2] = v /\ vs[1] = FirstValue
    <3>1. 1 \in Instance /\ 2 \in Instance /\ acc[k].values \in [Instance -> Val]
      BY <1>0, PaxosAssumption, SMTT(30) DEF Instance, Acceptor
    <3>2. acc[k].values[1] = FirstValue
      BY Zenon DEF NodesFine, NodeFine
    <3> QED
      BY <2>2, <3>1, <3>2, SMTT(30)
  <2>8. Grows
    BY <1>0, <1>2, <2>4, <2>6 DEF Grows
  <2>9. NodesFine'
    <3> SUFFICES ASSUME NEW j \in Node PROVE NodeFine(j)'
      BY Zenon DEF NodesFine
    <3>1. CASE j # k
      <4>1. NodeFine(j)
        BY Zenon DEF NodesFine
      <4> QED
        BY <1>0, <2>6, <3>1, <4>1, NodeStays, SMTT(30)
    <3>2. CASE j = k
      BY <2>4, <2>6, <2>7, <3>2 DEF NodeFine
    <3> QED
      BY <3>1, <3>2, Zenon
  <2> QED
    BY <1>0, <2>8, <2>9, Zenon
<1> QED
  BY <1>3, <1>4, Zenon

\* A node comes back with its log.
LEMMA NodeComesBack ==
  ASSUME AcceptorInv, NodesFine, NEW k \in Node, disk' = disk, votes' = votes,
         acc' = [acc EXCEPT ![k] = disk[k]]
  PROVE  Grows /\ NodesFine'
<1>0. acc \in [Node -> Acceptor] /\ disk \in [Node -> Acceptor] /\ DurableState
  BY Zenon DEF AcceptorInv
<1>1. \A j \in Node : ge(acc[j].n_h, acc[j].n_h)
  <2>1. \A j \in Node : acc[j].n_h \in Number
    BY <1>0, Zenon DEF Acceptor
  <2> QED
    BY <2>1, Order, Zenon
<1>2. NodeFine(k)
  BY SMTT(30) DEF NodesFine
<1>3. /\ acc'[k] = disk[k] /\ acc[k].instance_h = disk[k].instance_h
      /\ acc[k].values = disk[k].values /\ (acc[k].instance_h = 1 => disk[k] = acc[k])
  BY <1>0, <1>2, Zenon DEF DurableState, NodeFine
<1>4. \A j \in Node \ {k} : acc'[j] = acc[j]
  BY <1>0, Zenon
<1>5. Grows
  BY <1>1, <1>3, <1>4, SMTT(30) DEF Grows
<1>6. NodesFine'
  <2> SUFFICES ASSUME NEW j \in Node PROVE NodeFine(j)'
    BY Zenon DEF NodesFine
  <2>1. NodeFine(j)
    BY Zenon DEF NodesFine
  <2>2. CASE j # k \/ acc[k].instance_h = 1
    BY <1>3, <1>4, <2>1, <2>2, NodeStays, SMTT(30)
  <2>3. CASE j = k /\ acc[k].instance_h # 1
    BY <1>3, <2>1, <2>3, Zenon DEF NodeFine
  <2> QED
    BY <2>2, <2>3, Zenon
<1> QED
  BY <1>5, <1>6, Zenon
-----------------------------------------------------------------------------
(* The proposals. *)

\* A proposal that is not new stays one that nothing else can be chosen against.
\* A new one is the only one under its number.
LEMMA ProposalsStay ==
  ASSUME acc \in [Node -> Acceptor], acc' \in [Node -> Acceptor], Grows, ProposalsOK,
         NEW N \in Number, NEW u \in Val,
         \A b \in Number, v \in Val : Proposal(b, v)' => Proposal(b, v) \/ (b = N /\ v = u),
         \/ \A b \in Number, v \in Val : Proposal(b, v)' => Proposal(b, v)
         \/ /\ \A v \in Val : ~Proposal(N, v)
            /\ u # NoValue /\ N.n > 0 /\ SafeAt(N, u)' /\ Owned(N, {})'
  PROVE  ProposalsOK'
<1> SUFFICES ASSUME NEW b \in Number, NEW v \in Val, Proposal(b, v)'
             PROVE  /\ v # NoValue /\ b.n > 0 /\ SafeAt(b, v)' /\ Owned(b, {})'
                    /\ \A x \in Val : Proposal(b, x)' => x = v
  BY Zenon DEF ProposalsOK
<1>1. CASE Proposal(b, v)
  <2>1. /\ v # NoValue /\ b.n > 0 /\ SafeAt(b, v) /\ Owned(b, {})
        /\ \A x \in Val : Proposal(b, x) => x = v
    BY <1>1, Zenon DEF ProposalsOK
  <2>2. SafeAt(b, v)' /\ Owned(b, {})'
    BY <2>1, SafeStays, OwnedStays, Zenon
  <2>3. \A x \in Val : Proposal(b, x)' => x = v
    BY <1>1, <2>1, Zenon
  <2> QED
    BY <2>1, <2>2, <2>3, Zenon
<1>2. CASE ~Proposal(b, v)
  <2>1. b = N /\ v = u
    BY <1>2, Zenon
  <2>2. /\ \A x \in Val : ~Proposal(N, x)
        /\ u # NoValue /\ N.n > 0 /\ SafeAt(N, u)' /\ Owned(N, {})'
    BY <1>2, <2>1, Zenon
  <2> QED
    BY <2>1, <2>2, Zenon
<1> QED
  BY <1>1, <1>2, Zenon

\* The votes and the late requests of a step hold nothing that was not proposed.
NothingNew ==
  /\ \A w \in votes' : w \in votes \/ Proposal(w.n, w.v)
  /\ \A a \in late' : a.op = "accept" /\ a.instance = 2 => a \in late \/ Proposal(a.n, a.v)

\* The run of p becomes r, and those of the others stay what they were.
OneRun(p, r) ==
  pro'[p] = r /\ \A k \in Node \ {p} : pro'[k] = pro[k] /\ my_n'[k] = my_n[k]

\* What is proposed after a step is proposed before it, or by run r under N.
ProposedBy(r, N) ==
  \A b, v : Proposal(b, v)' =>
    \/ Proposal(b, v)
    \/ r.op = "accept" /\ r.instance = 2 /\ b = N /\ v = r.v

\* Where a proposal may come from when the run of p becomes r.
LEMMA WhatIsProposed ==
  ASSUME NEW p \in Node, NEW r, OneRun(p, r), NothingNew, NEW N, N = Num(p)'
  PROVE  ProposedBy(r, N)
<1> SUFFICES ASSUME NEW b, NEW v, Proposal(b, v)'
             PROVE  \/ Proposal(b, v)
                    \/ r.op = "accept" /\ r.instance = 2 /\ b = N /\ v = r.v
  BY SMTT(30) DEF ProposedBy
<1>1. CASE \E w \in votes' : w.n = b /\ w.v = v
  BY <1>1, SMTT(30) DEF Proposal, NothingNew
<1>2. CASE \E a \in late' : a.op = "accept" /\ a.instance = 2 /\ a.n = b /\ a.v = v
  BY <1>2 DEF Proposal, NothingNew
<1>3. CASE \E k \in Node : /\ pro'[k].op = "accept" /\ pro'[k].instance = 2
                           /\ b = [n |-> my_n'[k], m |-> k] /\ v = pro'[k].v
  <2>1. PICK k \in Node : /\ pro'[k].op = "accept" /\ pro'[k].instance = 2
                          /\ b = [n |-> my_n'[k], m |-> k] /\ v = pro'[k].v
    BY <1>3, Zenon
  <2>2. CASE k = p
    BY <2>1, <2>2, Zenon DEF Num, OneRun
  <2>3. CASE k # p
    <3>1. pro'[k] = pro[k] /\ my_n'[k] = my_n[k]
      BY <2>3, Zenon DEF OneRun
    <3> QED
      BY <2>1, <3>1, Zenon DEF Proposal, Num
  <2> QED
    BY <2>2, <2>3, Zenon
<1> QED
  BY <1>1, <1>2, <1>3, Zenon DEF Proposal, Num

-----------------------------------------------------------------------------
(* The runs. *)

\* What a proposer has heard stays true: a node that promised its number casts no
\* vote below it.
LEMMA HeardStays ==
  ASSUME AcceptorInv, AcceptorInv', Grows, NEW p \in Node, NEW q \in Run,
         my_n[p] \in Nat, my_n'[p] = my_n[p], Heard(p, q)
  PROVE  Heard(p, q)'
<1>0. /\ acc \in [Node -> Acceptor] /\ acc' \in [Node -> Acceptor]
      /\ votes' \subseteq Vote /\ votes \subseteq votes'
  BY Zenon DEF AcceptorInv, Grows
<1>1. PICK N \in Number : N = Num(p) /\ N = Num(p)'
  BY ZenonT(30) DEF Num, Number
<1>2. Range(q.accepts) \subseteq Node
  BY DEF Run, Range
<1>3. \A k \in Range(q.accepts) : Promised(k, N)
  BY <1>1, Zenon DEF Heard
<1>4. \A k \in Range(q.accepts) : Promised(k, N)'
  BY <1>0, <1>2, <1>3, PromiseStays, Zenon
<1>5. ASSUME NEW w \in votes', w.by \in Range(q.accepts), gt(N, w.n)
      PROVE  w.n.n <= q.highest_n
  <2>1. CASE w \in votes
    BY <1>1, <1>5, <2>1 DEF Heard
  <2>2. CASE w \notin votes
    <3>1. ~Past(w.by, w.n)
      BY <2>2, Zenon DEF Grows
    <3>2. Promised(w.by, N) /\ w.n \in Number /\ w.by \in Node
      BY <1>0, <1>2, <1>3, <1>5, SMTT(30) DEF Vote
    <3>3. acc[w.by].n_h \in Number
      BY <1>0, <3>2, Zenon DEF Acceptor
    <3>4. Past(w.by, w.n)
      BY <1>5, <3>2, <3>3, Order, ZenonT(30) DEF Promised, Past
    <3> QED
      BY <3>1, <3>4, SMTT(30)
  <2> QED
    BY <2>1, <2>2, Zenon
<1>6. q.v # NoValue /\ (q.highest_n = 0 \/ \E w \in votes' : w.n.n = q.highest_n /\ w.v = q.v)
  BY <1>0, Zenon DEF Heard
<1> QED
  BY <1>1, <1>4, <1>5, <1>6, Zenon DEF Heard, Promised

\* A run that is left alone stays as it should be, when nobody else proposes under
\* its number.
LEMMA RunStaysFine ==
  ASSUME AcceptorInv, AcceptorInv', Grows, NEW p \in Node, NEW q \in Run,
         my_n[p] \in Nat, my_n'[p] = my_n[p], RunFine(p, q),
         NEW N \in Number, N = Num(p),
         \A v \in Val : Proposal(N, v)' => Proposal(N, v)
  PROVE  RunFine(p, q)'
<1>0. acc \in [Node -> Acceptor] /\ acc' \in [Node -> Acceptor] /\ votes \subseteq votes'
  BY SMTT(30) DEF AcceptorInv, Grows
<1>1. N = Num(p)'
  BY SMTT(30) DEF Num
<1>2. my_n'[p] > 0 /\ (q.instance = 2 \/ votes' # {})
  BY <1>0, ZenonT(30) DEF RunFine
<1>3. CASE q.instance = 2 /\ q.op = "prepare"
  <2>1. Heard(p, q) /\ Unused(p, q)
    BY <1>3, ZenonT(30) DEF RunFine
  <2>2. Heard(p, q)'
    BY <2>1, HeardStays, Zenon
  <2>3. PICK A : A = Range(q.accepts)
    BY SMTT(30)
  <2>4. \A v \in Val : Proposal(N, v)' => Owned(N, A)
    BY <2>1, <2>3, Zenon DEF Unused
  <2>5. Owned(N, A) => Owned(N, A)'
    BY <1>0, OwnedStays, Zenon
  <2>6. Unused(p, q)'
    BY <1>1, <2>3, <2>4, <2>5, ZenonT(30) DEF Unused, Owned, Proposal, Promised
  <2> QED
    BY <1>2, <1>3, <2>2, <2>6, ZenonT(30) DEF RunFine
<1>4. CASE q.instance = 2 /\ q.op = "accept"
  <2>1. Range(q.left) \subseteq Node
    BY SMTT(30) DEF Run, Range
  <2>2. \A k \in Range(q.left) : Promised(k, N)
    BY <1>4, ZenonT(30) DEF RunFine
  <2>3. \A k \in Range(q.left) : Promised(k, N)'
    BY <1>0, <2>1, <2>2, PromiseStays, ZenonT(30)
  <2> QED
    BY <1>1, <1>2, <1>4, <2>3, ZenonT(30) DEF RunFine, Promised
<1>5. CASE ~(q.instance = 2 /\ q.op \in {"prepare", "accept"})
  BY <1>2, <1>5, ZenonT(30) DEF RunFine
<1> QED
  BY <1>3, <1>4, <1>5, ZenonT(30)

\* The run of one proposer changes.
LEMMA OtherRunsFine ==
  ASSUME PaxosInv, AcceptorInv', RunsFine, Grows, NEW p \in Node, NEW r, OneRun(p, r),
         \A b \in Number, v \in Val : b.m # p /\ Proposal(b, v)' => Proposal(b, v),
         r.op # "stable" => RunFine(p, r)'
  PROVE  RunsFine'
<1> SUFFICES ASSUME NEW k \in Node, pro'[k].op # "stable" PROVE RunFine(k, pro[k])'
  BY Zenon DEF RunsFine
<1>0. my_n[k] \in Nat /\ AcceptorInv
  BY SMTT(30) DEF PaxosInv
<1>1. CASE k = p
  <2>1. pro'[k] = r
    BY <1>1, Zenon DEF OneRun
  <2>2. RunFine(p, r)'
    BY <2>1, Zenon
  <2> QED
    BY <1>1, <2>1, <2>2, Zenon DEF RunFine, Heard, Unused
<1>2. CASE k # p
  <2>1. PICK q : q = pro[k]
    BY Zenon
  <2>2. pro'[k] = q /\ my_n'[k] = my_n[k]
    BY <1>2, <2>1, Zenon DEF OneRun
  <2>3. q \in Run /\ RunFine(k, q)
    BY <2>1, <2>2 DEF PaxosInv, RunsReady, Ready, Stable, RunsFine
  <2>4. PICK N : N = Num(k)
    BY SMTT(30)
  <2>4a. N \in Number /\ N.m = k
    BY <1>0, <2>4, ZenonT(30) DEF Num, Number
  <2>5. \A v \in Val : Proposal(N, v)' => Proposal(N, v)
    BY <1>2, <2>4a, Zenon
  <2>6. RunFine(k, q)'
    BY <1>0, <2>2, <2>3, <2>4, <2>4a, <2>5, RunStaysFine, ZenonT(30)
  <2> QED
    BY <2>2, <2>6, ZenonT(30) DEF RunFine, Heard, Unused
<1> QED
  BY <1>1, <1>2, Zenon

\* The requests that are late.
LEMMA LateStaysFine ==
  ASSUME PaxosInv, AcceptorInv', late' \subseteq Message, Grows, LateFine,
         \A a \in late' : a \in late \/ /\ a.instance = 2 \/ votes # {}
                                        /\ a.instance = 2 /\ a.op = "accept" => Promised(a.to, a.n)
  PROVE  LateFine'
<1> SUFFICES ASSUME NEW a \in late'
             PROVE  /\ a.instance = 2 \/ votes' # {}
                    /\ a.instance = 2 /\ a.op = "accept" => Promised(a.to, a.n)'
  BY Zenon DEF LateFine
<1>0. acc \in [Node -> Acceptor] /\ acc' \in [Node -> Acceptor] /\ votes \subseteq votes'
  BY Zenon DEF PaxosInv, AcceptorInv, Grows
<1>1. /\ a.instance = 2 \/ votes # {}
      /\ a.instance = 2 /\ a.op = "accept" => Promised(a.to, a.n)
  BY Zenon DEF LateFine
<1>2. a.to \in Node /\ a.n \in Number
  BY Zenon DEF Message
<1> QED
  BY <1>0, <1>1, <1>2, PromiseStays, Zenon
\* What the run of p is to be after a step, N being its number.
RunMay(p, r, N) ==
  /\ N.n > 0 /\ (r.instance = 2 \/ votes # {})
  /\ r.instance = 2 /\ r.op = "prepare" =>
       /\ Heard(p, r)'
       /\ \A v \in Val : Proposal(N, v) => Owned(N, Range(r.accepts))
  /\ r.instance = 2 /\ r.op = "accept" =>
       /\ Proposal(N, r.v)
       /\ \A k \in Range(r.left) : Promised(k, N)

\* The run of p changes, and nothing new is proposed.
LEMMA QuietRun ==
  ASSUME PaxosInv, AcceptorInv', Consensus, Grows, NothingNew, NEW p \in Node, NEW r,
         OneRun(p, r), NEW N \in Number, N = Num(p)', r = Stable \/ (r \in Run /\ RunMay(p, r, N))
  PROVE  ProposalsOK' /\ RunsFine'
<1>0. /\ acc \in [Node -> Acceptor] /\ acc' \in [Node -> Acceptor]
      /\ ProposalsOK /\ RunsFine /\ votes \subseteq votes' /\ NoValue \in Val
  BY SMTT(30) DEF PaxosInv, AcceptorInv, Consensus, Grows, Val
<1>1. ProposedBy(r, N)
  BY WhatIsProposed, Zenon
<1>2. r.op = "accept" /\ r.instance = 2 => Proposal(N, r.v)
  BY DEF RunMay, Stable
<1>3. \A b, v : Proposal(b, v)' => Proposal(b, v)
  BY <1>1, <1>2, Zenon DEF ProposedBy
<1>4. ProposalsOK'
  BY <1>0, <1>3, ProposalsStay, Zenon
<1>5. ASSUME r.op # "stable" PROVE RunFine(p, r)'
  <2>0. r \in Run /\ RunMay(p, r, N)
    BY <1>5, SMTT(30) DEF Stable
  <2>1. my_n'[p] > 0 /\ (r.instance = 2 \/ votes' # {})
    BY <1>0, <2>0, ZenonT(30) DEF RunMay, Num
  <2>2. CASE r.instance = 2 /\ r.op = "prepare"
    <3>1. PICK A : A = Range(r.accepts)
      BY SMTT(30)
    <3>2. Heard(p, r)' /\ \A v \in Val : Proposal(N, v)' => Owned(N, A)
      BY <1>3, <2>0, <2>2, <3>1, ZenonT(30) DEF RunMay
    <3>3. Owned(N, A) => Owned(N, A)'
      BY <1>0, OwnedStays, Zenon
    <3>4. Unused(p, r)'
      BY <3>1, <3>2, <3>3, ZenonT(30) DEF Unused, Owned, Proposal, Promised
    <3> QED
      BY <2>1, <2>2, <3>2, <3>4, Zenon DEF RunFine
  <2>3. CASE r.instance = 2 /\ r.op = "accept"
    <3>1. Range(r.left) \subseteq Node
      <4>1. r.left \in Seq(Node)
        BY <2>0, Zenon DEF Run
      <4> QED
        BY <4>1, ElementsIn, Zenon
    <3>2. \A k \in Range(r.left) : Promised(k, N)'
      BY <1>0, <2>0, <2>3, <3>1, PromiseStays, ZenonT(30) DEF RunMay
    <3> QED
      BY <2>1, <2>3, <3>2, Zenon DEF RunFine, Promised
  <2>4. CASE ~(r.instance = 2 /\ r.op \in {"prepare", "accept"})
    BY <2>1, <2>4, Zenon DEF RunFine
  <2> QED
    BY <2>2, <2>3, <2>4, Zenon
<1>6. RunsFine'
  BY <1>0, <1>3, <1>5, OtherRunsFine, Zenon
<1> QED
  BY <1>4, <1>6, Zenon

(***************************************************************************)
(* The heart of the proof.  The value a proposer takes over from the       *)
(* answers of a majority is one that nothing can be chosen against.  It    *)
(* keeps the value of the highest n, whatever its m: without a tie that is *)
(* the value of the highest number.                                        *)
(***************************************************************************)
LEMMA HeardIsSafe ==
  ASSUME AcceptorInv, AcceptorInv', Grows, votes' = votes, ProposalsOK, SecondOnly, ~Tie,
         NEW p \in Node, NEW r \in Run, NEW N \in Number, N = Num(p)', Heard(p, r)',
         majority(Group, r.accepts)
  PROVE  SafeAt(N, r.v)'
<1> SUFFICES ASSUME NEW c \in Number, gt(N, c)
             PROVE  \E K \in Quorum : \A i \in K :
                      \/ VotedFor(Group[i], c, r.v)'
                      \/ Past(Group[i], c)' /\ \A x \in Val : ~VotedFor(Group[i], c, x)'
  BY Zenon DEF SafeAt
<1>0. /\ acc \in [Node -> Acceptor] /\ acc' \in [Node -> Acceptor] /\ votes \subseteq Vote
      /\ r.accepts \in Seq(Node) /\ r.v \in Val /\ r.highest_n \in Nat
  BY SMTT(30) DEF AcceptorInv, Run
<1>1. /\ \A k \in Range(r.accepts) : Promised(k, N)'
      /\ \A w \in votes : w.by \in Range(r.accepts) /\ gt(N, w.n) => w.n.n <= r.highest_n
      /\ r.highest_n = 0 \/ \E w \in votes : w.n.n = r.highest_n /\ w.v = r.v
  BY Zenon DEF Heard, Promised
<1>2. PICK K \in Quorum : \A i \in K : Group[i] \in Range(r.accepts) /\ Group[i] \in Node
  BY <1>0, MajorityIsQuorum, Voters, ZenonT(30)
<1>3. CASE \E w \in votes : w.v = r.v /\ gt(w.n, c)
  <2>1. PICK w \in votes : w.v = r.v /\ gt(w.n, c)
    BY <1>3, ZenonT(30)
  <2>2. w.n \in Number /\ Proposal(w.n, r.v)
    BY <1>0, <2>1, Zenon DEF Vote, Proposal
  <2>3. PICK b \in Number : b = w.n
    BY <2>2, Zenon
  <2>4. SafeAt(b, r.v)
    BY <1>0, <2>2, <2>3, ZenonT(30) DEF ProposalsOK
  <2>5. SafeAt(b, r.v)'
    BY <1>0, <2>4, SafeStays, Zenon
  <2> QED
    BY <2>1, <2>3, <2>5, Zenon DEF SafeAt
<1>4. CASE \A w \in votes : ~(w.v = r.v /\ gt(w.n, c))
  <2>1. ASSUME NEW i \in K, NEW x \in Val, VotedFor(Group[i], c, x) PROVE x = r.v
    <3>1. PICK u \in votes : /\ u = [by |-> Group[i], instance |-> 2, n |-> c, v |-> x]
      BY <2>1, Zenon DEF VotedFor
    <3>2. u.by = Group[i] /\ u.n = c /\ u.v = x /\ u.instance = 2
      BY <3>1, Zenon
    <3>3. c.n <= r.highest_n /\ c.n \in Nat
      BY <1>1, <1>2, <3>2, ZenonT(30) DEF Number
    <3>4. Proposal(c, x)
      BY <3>2, Zenon DEF Proposal
    <3>5. c.n > 0
      BY <3>4, Zenon DEF ProposalsOK
    <3>6. PICK w \in votes : w.n.n = r.highest_n /\ w.v = r.v
      <4>1. r.highest_n # 0
        BY <1>0, <3>3, <3>5
      <4> QED
        BY <1>1, <4>1, Zenon
    <3>7. w.n \in Number /\ w.instance = 2
      BY <1>0, Zenon DEF Vote, SecondOnly
    <3>8. w.n.n = c.n
      <4>1. ~gt(w.n, c)
        BY <1>4, <3>6, ZenonT(30)
      <4>2. ~(w.n.n > c.n)
        BY <4>1, Zenon DEF gt
      <4> QED
        BY <1>0, <3>3, <3>6, <4>2, SMTT(30)
    <3>9. CASE w.n.m = c.m
      <4>1. w.n = c
        BY <3>7, <3>8, <3>9 DEF Number
      <4>2. Proposal(c, r.v)
        BY <3>6, <4>1, Zenon DEF Proposal
      <4> QED
        BY <1>0, <3>4, <4>2, Zenon DEF ProposalsOK
    <3>10. CASE w.n.m # c.m
      BY <3>2, <3>6, <3>7, <3>8, <3>10, ZenonT(30) DEF Tie
    <3> QED
      BY <3>9, <3>10, ZenonT(30)
  <2>2. ASSUME NEW i \in K PROVE Past(Group[i], c)'
    <3>1. Promised(Group[i], N)' /\ acc'[Group[i]].n_h \in Number
      BY <1>0, <1>1, <1>2, ZenonT(30) DEF Acceptor
    <3> QED
      BY <3>1, Order, ZenonT(30) DEF Promised, Past
  <2>3. ASSUME NEW i \in K, NEW x \in Val PROVE VotedFor(Group[i], c, x)' = VotedFor(Group[i], c, x)
    BY Zenon DEF VotedFor
  <2> QED
    BY <1>0, <2>1, <2>2, <2>3, SMTT(30)
<1> QED
  BY <1>3, <1>4, Zenon

\* Two majorities meet: what a majority has promised, and does not promise
\* again, is not promised by a majority once more.
LEMMA NumberIsNew ==
  ASSUME NEW s \in Seq(Node), majority(Group, s), NEW N \in Number, Owned(N, Range(s))
  PROVE  FALSE
<1>1. PICK K \in Quorum : \A i \in K : Group[i] \notin Range(s)
  BY Zenon DEF Owned
<1>2. PICK L \in Quorum : \A i \in L : Group[i] \in Range(s)
  BY MajorityIsQuorum, ZenonT(30)
<1> QED
  BY <1>1, <1>2, QuorumsMeet, Zenon

\* The proposer of p goes on.
LEMMA GoesOnFine ==
  ASSUME PaxosInv, AcceptorInv', Consensus, ~Tie, Grows, NothingNew, my_n' = my_n,
         NEW p \in Node, NEW q \in Run, Goes(p, q), NEW N \in Number, N = Num(p),
         RunMay(p, q, N), q.op = "prepare" => votes' = votes
  PROVE  ProposalsOK' /\ RunsFine'
<1> DEFINE phase == IF q.op = "prepare" THEN "accept" ELSE "decide"
           next == [q EXCEPT !.op = phase, !.left = q.accepts, !.accepts = <<>>]
<1>0. /\ N = Num(p)' /\ N.n > 0 /\ (q.instance = 2 \/ votes # {})
      /\ q.accepts \in Seq(Node) /\ q.c_nodes = Group /\ q.v \in Val
  BY Zenon DEF Num, RunMay, Run
<1>b. N = Num(p)'
  BY <1>0, Zenon
<1>a. ASSUME NEW r, pro' = [pro EXCEPT ![p] = r] PROVE OneRun(p, r)
  <2>1. DOMAIN pro = Node
    BY Zenon DEF PaxosInv, RunsReady
  <2> QED
    BY <1>a, <2>1, Zenon DEF OneRun
<1>1. CASE q.left # <<>>
  <2>1. OneRun(p, q)
    BY <1>a, <1>1, Zenon DEF Goes
  <2> QED
    BY <1>0, <2>1, QuietRun, Zenon
<1>2. CASE q.left = <<>> /\ ~(q.op # "decide" /\ majority(q.c_nodes, q.accepts))
  <2>1. PICK r : r = Stable
    BY Zenon
  <2>2. OneRun(p, r)
    BY <1>a, <1>2, <2>1, ZenonT(30) DEF Goes
  <2> QED
    BY <1>0, <2>1, <2>2, QuietRun, Zenon
<1>3. CASE q.left = <<>> /\ q.op # "decide" /\ majority(q.c_nodes, q.accepts)
  <2>0. majority(Group, q.accepts) /\ q.op \in {"prepare", "accept"}
    BY <1>0, <1>3, Zenon DEF Run
  <2>1. PICK ph, ac, e : ph = phase /\ ac = q.accepts /\ e = <<>>
    BY Zenon
  <2>2. PICK r : r = [q EXCEPT !.op = ph, !.left = ac, !.accepts = e]
    BY Zenon
  <2>3. OneRun(p, r)
    BY <1>a, <1>3, <2>1, <2>2, Zenon DEF Goes
  <2>4. e \in Seq(Node) /\ ph \in {"accept", "decide"}
    BY <2>1
  <2>5. /\ r \in Run /\ r.left = ac /\ r.op = ph
        /\ r.instance = q.instance /\ r.v = q.v
    BY <1>0, <2>1, <2>2, <2>4, ZenonT(30) DEF Run
  <2>6. CASE q.op = "accept" \/ q.instance # 2
    <3>1. RunMay(p, r, N)
      BY <1>0, <2>1, <2>5, <2>6, ZenonT(30) DEF RunMay
    <3> QED
      BY <1>0, <2>3, <2>5, <3>1, QuietRun, Zenon
  <2>7. CASE q.op = "prepare" /\ q.instance = 2
    <3>0. /\ acc \in [Node -> Acceptor] /\ acc' \in [Node -> Acceptor] 
          /\ ProposalsOK /\ RunsFine /\ SecondOnly /\ votes' = votes /\ AcceptorInv
      BY <2>7, Zenon DEF PaxosInv, AcceptorInv, Consensus
    <3>1. Heard(p, q)' /\ \A v \in Val : Proposal(N, v) => Owned(N, Range(q.accepts))
      BY <2>7, ZenonT(30) DEF RunMay
    <3>2. \A v \in Val : ~Proposal(N, v)
      BY <1>0, <2>0, <3>1, NumberIsNew, Zenon
    <3>3. SafeAt(N, q.v)'
      BY <1>0, <2>0, <3>0, <3>1, HeardIsSafe, Zenon
    <3>4. \A k \in Range(q.accepts) : Promised(k, N)'
      BY <1>0, <3>1, Zenon DEF Heard, Promised
    <3>5. Owned(N, {})'
      <4>1. PICK K \in Quorum : \A i \in K : Group[i] \in Range(q.accepts)
        BY <1>0, <2>0, MajorityIsQuorum, Zenon
      <4>2. \A i \in K : Promised(Group[i], N)' /\ Group[i] \notin {}
        BY <3>4, <4>1, Zenon
      <4> QED
        BY <4>2, Zenon DEF Owned
    <3>6. \A b, v : Proposal(b, v)' => Proposal(b, v) \/ (b = N /\ v = q.v)
      <4>1. ProposedBy(r, N)
        BY <1>b, <2>3, WhatIsProposed, Zenon
      <4> QED
        BY <2>5, <4>1, Zenon DEF ProposedBy
    <3>7. q.v # NoValue
      BY <3>1, ZenonT(30) DEF Heard
    <3>8. ProposalsOK'
      BY <1>0, <3>0, <3>2, <3>3, <3>5, <3>6, <3>7, ProposalsStay, SMTT(30)
    <3>9. r.op = "accept"
      BY <2>1, <2>5, <2>7, ZenonT(30)
    <3>10. RunFine(p, r)'
      <4>1. \A k \in Range(r.left) : Promised(k, N)'
        BY <2>1, <2>5, <3>4, Zenon
      <4>2. my_n'[p] > 0 /\ r.instance = 2
        BY <1>0, <2>5, <2>7 DEF Num
      <4>3. \A k : Promised(k, Num(p))' <=> Promised(k, N)'
        BY <1>b, Zenon DEF Promised
      <4> QED
        BY <1>0, <3>9, <4>1, <4>2, <4>3, ZenonT(30) DEF RunFine
    <3>11. N.m = p
      BY SMTT(30) DEF Num
    <3>12. RunsFine'
      BY <2>3, <3>0, <3>6, <3>10, <3>11, OtherRunsFine, Zenon
    <3> QED
      BY <3>8, <3>12, Zenon
  <2> QED
    BY <2>0, <2>6, <2>7, Zenon
<1> QED
  BY <1>1, <1>2, <1>3, Zenon
=============================================================================
