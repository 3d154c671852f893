------------------------------- MODULE Views -------------------------------
(***************************************************************************)
(* Views (config.cc) and the view changes of the replicated state machine  *)
(* (rsm.cc) on top of Paxos.  A value is a view: the sequence of its       *)
(* members.  The heartbeater of a node pings other members and has Paxos   *)
(* remove the ones that fail; a node that is not a member joins through    *)
(* the node it believes to be the primary, which has Paxos add it and      *)
(* answers with its log.                                                   *)
(***************************************************************************)
EXTENDS Paxos, FiniteSetsExt

CONSTANT Starts   \* views: in the logs of the last one's members; down: not
                  \* started; n: what the proposers find in my_n.n

ASSUME ViewsAssumption ==
  /\ 0 \notin Node /\ NoValue = <<>> /\ FirstValue = <<First>>
  /\ \A s \in Starts :
       /\ s.views[1] = FirstValue /\ Len(s.views) <= MaxInstance
       /\ s.down \subseteq Node /\ s.n \in GarbageN

VARIABLES myvid, mems,   \* config: the view a node is in
          primary,       \* rsm::primary
          hb,            \* hb[p]: what the heartbeater of p does
          rec,           \* rec[<<p, t>>]: what thread t of p does in recovery()
          upcalls,       \* commits whose paxos_commit has not run yet
          stale,         \* <<p, q>>: p's handle of q is bound to a former run of q
          stuck,         \* nodes whose proposer never returns
          down           \* nodes that failed an assertion or have not started

viewVars == <<myvid, mems, primary, hb, rec, upcalls, stale, stuck, down>>
vars == <<paxosVars, viewVars>>

\* The threads of a node that run recovery(): its recovery thread, and a thread
\* that made the upcall of a view without the node (one at a time here).
Recoverer == Node \X {"recovery", "upcall"}
Asleep == [at |-> "asleep"]
Checking == [at |-> "check"]

\* The log of node p when the system starts with the views of s.
Logged(p, s) ==
  IF p \notin Range(s.views[Len(s.views)]) THEN Blank(p)
  ELSE [Blank(p) EXCEPT
          !.instance_h = Len(s.views),
          !.values = [i \in Instance |-> IF i \in DOMAIN s.views THEN s.views[i] ELSE @[i]]]

\* The votes that decided the views of s.
Voted(s) ==
  UNION {[by : Range(s.views[i - 1]), instance : {i}, n : {[n |-> 1, m |-> First]},
          v : {s.views[i]}] : i \in 2..Len(s.views)}

Init ==
  /\ \E s \in Starts : /\ acc = [p \in Node |-> Constructed(p, Logged(p, s))]
                       /\ votes = Voted(s)
                       /\ my_n = [p \in Node |-> s.n]
                       /\ down = s.down
  /\ disk = acc
  /\ pro = [p \in Node |-> Stable]
  /\ late = {} /\ faults = 0
  /\ myvid = [p \in Node |-> acc[p].instance_h]
  /\ mems = [p \in Node |-> acc[p].values[myvid[p]]]
  /\ primary = [p \in Node |-> First]
  /\ hb = [p \in Node |-> Asleep]
  /\ rec = [j \in Recoverer |-> IF j[2] = "recovery" THEN Checking ELSE Asleep]
  /\ upcalls = {} /\ stale = {} /\ stuck = {}

isamember(p, view) == p \in Range(view)

isrunning(p) == Running(p) \/ p \in stuck

\* q answers the calls of p.
Reaches(p, q) == q \notin down /\ <<p, q>> \notin stale

----------------------------------------------------------------------------
(* A new view. *)

\* Where i is 0, i - 1 is the largest unsigned number, which has no view.
get_prevview(values, i) == IF i = 0 THEN NoValue ELSE values[i - 1]

\* rsm::set_primary with view number i of values; 0 is a failed assertion.
set_primary(old, values, i) ==
  LET c == Range(values[i])
      common == c \intersect Range(get_prevview(values, i))
  IN IF c = {} THEN 0
     ELSE IF old \in c THEN old
     ELSE IF common = {} THEN 0 ELSE Min(common)

paxos_commitMems(p, i, v, own) ==   \* faulty: the view number is not set
  /\ mems' = [mems EXCEPT ![p] = v]
  /\ UNCHANGED <<myvid, stale, primary, rec, stuck, down>>

\* The upcall of commit_wo on node p: config::paxos_commit, rsm::commit_change.
\* A node that is not a member of its new view enters recovery() in the calling
\* thread, which is the proposer's own thread when own holds, and never returns.
paxos_commit(p, i, v, own) ==
  LET q == set_primary(primary[p], acc'[p].values, i)
      out == ~isamember(p, v)
  IN /\ mems' = [mems EXCEPT ![p] = v]
     /\ myvid' = [myvid EXCEPT ![p] = i]
     /\ stale' = stale \ ({p} \X (Range(mems[p]) \ Range(v)))
     /\ IF q = 0
        THEN down' = down \union {p} /\ UNCHANGED <<primary, rec, stuck>>
        ELSE /\ primary' = [primary EXCEPT ![p] = q]
             /\ rec' = IF out /\ rec[<<p, "upcall">>] = Asleep
                       THEN [rec EXCEPT ![<<p, "upcall">>] = Checking] ELSE rec
             /\ stuck' = IF out /\ own THEN stuck \union {p} ELSE stuck
             /\ UNCHANGED down

\* A Paxos step in which node p may commit.
WithUpcall(p, own) ==
  /\ IF acc'[p].instance_h # acc[p].instance_h
     THEN paxos_commit(p, acc'[p].instance_h, acc'[p].values[acc'[p].instance_h], own)
     ELSE UNCHANGED <<mems, myvid, stale, primary, rec, stuck, down>>
  /\ UNCHANGED <<hb, upcalls>>

\* The proposer of p is in a call that is answered.
Calling(p, op) ==
  p \notin down /\ pro[p].op = op /\ Reaches(p, Head(pro[p].left))

PaxosPrepare(p) == Calling(p, "prepare") /\ Prepare(p) /\ WithUpcall(p, TRUE)

PaxosAccept(p) == Calling(p, "accept") /\ Accept(p) /\ UNCHANGED viewVars

PaxosDecide(p) ==
  Calling(p, "decide") /\ Decide(p) /\ WithUpcall(Head(pro[p].left), FALSE)

PaxosTimeout(p) == p \notin down /\ Timeout(p) /\ UNCHANGED viewVars

\* The handle of the callee is stale or the callee is down.
PaxosUnreachable(p) ==
  /\ p \notin down /\ Running(p) /\ ~Reaches(p, Head(pro[p].left))
  /\ Goes(p, Accepted(pro[p], FALSE))
  /\ UNCHANGED <<acc, disk, my_n, late, faults, votes, viewVars>>

\* A late request is served.  The thread that serves a decide may be overtaken
\* by others before it makes the upcall.
PaxosLate(a) ==
  /\ a.to \notin down
  /\ Late(a)
  /\ upcalls' = IF acc'[a.to].instance_h # acc[a.to].instance_h
                THEN upcalls \union {[at |-> a.to, i |-> a.instance, v |-> a.v]}
                ELSE upcalls
  /\ UNCHANGED <<myvid, mems, primary, hb, rec, stale, stuck, down>>

Upcall(u) ==
  /\ u \in upcalls /\ u.at \notin down
  /\ upcalls' = upcalls \ {u}
  /\ UNCHANGED paxosVars
  /\ paxos_commit(u.at, u.i, u.v, FALSE)
  /\ UNCHANGED hb

----------------------------------------------------------------------------
(* The heartbeater. *)

CanRun(p) == setn(p) <= MaxN /\ myvid[p] < MaxInstance

\* The member with the smallest number pings the others, they ping it.
Ping(p, m) ==
  LET least == Min(Range(mems[p]))
  IN /\ p \notin down /\ hb[p].at = "asleep" /\ isamember(p, mems[p])
     /\ IF least = p THEN m \in Range(mems[p]) \ {p} ELSE m = least
     /\ hb' = [hb EXCEPT ![p] = [at |-> "ping", to |-> m, vid |-> myvid[p]]]
     /\ UNCHANGED <<paxosVars, myvid, mems, primary, rec, upcalls, stale, stuck, down>>

\* The ping of p was not answered OK: remove_wo computes the next view.
remove_wo(p) ==
  LET Others(q) == q # hb[p].to
  IN hb' = [hb EXCEPT ![p] = [at |-> "remove", v |-> SelectSeq(mems[p], Others)]]

\* config::heartbeat on q answers p.
heartbeat(p) ==
  LET q == hb[p].to
      vid == hb[p].vid
      near == vid = myvid[q] + 1 \/ vid + 1 = myvid[q]
  IN /\ p \notin down /\ hb[p].at = "ping" /\ Reaches(p, q)
     /\ \/ /\ vid = myvid[q] \/ (isrunning(q) /\ near)
           /\ hb' = [hb EXCEPT ![p] = Asleep]
           /\ UNCHANGED down
        \/ /\ vid # myvid[q] /\ (isrunning(q) => ~near)
           /\ down' = IF isrunning(q) THEN down \union {q} ELSE down   \* assert
           /\ remove_wo(p)
     /\ UNCHANGED <<paxosVars, myvid, mems, primary, rec, upcalls, stale, stuck>>

\* The ping fails; a stale handle is deleted and passes for an answer.
PingFails(p) ==
  LET q == hb[p].to
  IN /\ p \notin down /\ hb[p].at = "ping"
     /\ \/ /\ q \in down
           /\ remove_wo(p)
           /\ UNCHANGED <<faults, stale>>
        \/ /\ q \notin down /\ faults < MaxFaults
           /\ faults' = faults + 1
           /\ remove_wo(p)
           /\ UNCHANGED stale
        \/ /\ q \notin down /\ <<p, q>> \in stale
           /\ stale' = stale \ {<<p, q>>}
           /\ hb' = [hb EXCEPT ![p] = Asleep]
           /\ UNCHANGED faults
     /\ UNCHANGED <<acc, disk, pro, my_n, late, votes>>
     /\ UNCHANGED <<myvid, mems, primary, rec, upcalls, stuck, down>>

\* The rest of remove_wo, without cfg_mutex: myvid and mems may have moved on.
Remove(p) ==
  /\ p \notin down /\ hb[p].at = "remove"
  /\ \/ /\ isrunning(p)
        /\ hb' = [hb EXCEPT ![p] = Asleep]
        /\ UNCHANGED paxosVars
     \/ /\ p \notin stuck /\ CanRun(p)
        /\ run(p, myvid[p] + 1, mems[p], hb[p].v)
        /\ hb' = [hb EXCEPT ![p] = [at |-> "running"]]
  /\ UNCHANGED <<myvid, mems, primary, rec, upcalls, stale, stuck, down>>

RemoveReturns(p) ==
  /\ p \notin down /\ hb[p].at = "running" /\ ~isrunning(p)
  /\ hb' = [hb EXCEPT ![p] = Asleep]
  /\ UNCHANGED <<paxosVars, myvid, mems, primary, rec, upcalls, stale, stuck, down>>

----------------------------------------------------------------------------
(* Joining: recovery() and join() in a thread j of q, joinreq() and
   config::add on r. *)

Recovery(j) ==
  LET q == j[1]
  IN /\ q \notin down /\ rec[j].at = "check"
     /\ rec' = [rec EXCEPT ![j] = IF isamember(q, mems[q]) THEN Asleep
                                  ELSE [at |-> "call", to |-> primary[q]]]
     /\ UNCHANGED <<paxosVars, myvid, mems, primary, hb, upcalls, stale, stuck, down>>

\* join() returned false: set_primary, and again.
JoinFailed(j) ==
  LET q == j[1]
      m == set_primary(primary[q], acc[q].values, myvid[q])
  IN /\ IF m = 0 THEN down' = down \union {q} /\ UNCHANGED primary
        ELSE primary' = [primary EXCEPT ![q] = m] /\ UNCHANGED down
     /\ rec' = [rec EXCEPT ![j] = Checking]


Dump(r) == [at |-> "reply", log |-> disk[r]]

joinreq(j) ==
  LET q == j[1]
      r == rec[j].to
  IN /\ q \notin down /\ rec[j].at = "call" /\ Reaches(q, r)
     /\ \/ /\ isamember(q, mems[r])
           /\ rec' = [rec EXCEPT ![j] = Dump(r)]
           /\ UNCHANGED <<primary, down>>
        \/ /\ ~isamember(q, mems[r]) /\ primary[r] # r
           /\ JoinFailed(j)
        \/ /\ ~isamember(q, mems[r]) /\ primary[r] = r
           /\ rec' = [rec EXCEPT ![j] =
                        [at |-> "add", to |-> r, v |-> Append(mems[r], q)]]
           /\ UNCHANGED <<primary, down>>
     /\ UNCHANGED <<paxosVars, myvid, mems, hb, upcalls, stale, stuck>>

\* config::add without cfg_mutex: myvid and mems may have moved on.
Add(j) ==
  LET r == rec[j].to
  IN /\ rec[j].at = "add" /\ r \notin down
     /\ \/ /\ isrunning(r)
           /\ rec' = [rec EXCEPT ![j] = Dump(r)]
           /\ UNCHANGED paxosVars
        \/ /\ r \notin stuck /\ CanRun(r)
           /\ run(r, myvid[r] + 1, mems[r], rec[j].v)
           /\ rec' = [rec EXCEPT ![j] = [at |-> "running", to |-> r]]
     /\ UNCHANGED <<myvid, mems, primary, hb, upcalls, stale, stuck, down>>

AddReturns(j) ==
  LET r == rec[j].to
  IN /\ rec[j].at = "running" /\ r \notin down /\ ~isrunning(r)
     /\ rec' = [rec EXCEPT ![j] = Dump(r)]
     /\ UNCHANGED <<paxosVars, myvid, mems, primary, hb, upcalls, stale, stuck, down>>

\* The log d replaces the log file of q and is read over the state in memory.
restore(q, d) ==
  LET values == [i \in Instance |-> IF d.values[i] # NoValue THEN d.values[i]
                                                            ELSE acc[q].values[i]]
  IN /\ disk' = [disk EXCEPT ![q] = d]
     /\ acc' = [acc EXCEPT ![q] = [d EXCEPT !.values = values]]

\* A log without a view is not restored, and leaves a node that starts in view 0.
reconstruct(p) ==
  /\ myvid' = [myvid EXCEPT ![p] = acc'[p].instance_h]
  /\ mems' = [mems EXCEPT ![p] = acc'[p].values[acc'[p].instance_h]]

\* join() gets the log of the primary.
Restore(j) ==
  LET q == j[1]
  IN /\ q \notin down /\ rec[j].at = "reply"
     /\ restore(q, rec[j].log)
     /\ reconstruct(q)
     /\ rec' = [rec EXCEPT ![j] = Checking]
     /\ UNCHANGED <<pro, my_n, late, faults, votes>>
     /\ UNCHANGED <<primary, hb, upcalls, stale, stuck, down>>

\* The primary cannot be reached, has gone, or never answers.
NoAnswer(j) ==
  \/ rec[j].at = "lost"
  \/ rec[j].at = "call" /\ ~Reaches(j[1], rec[j].to)
  \/ rec[j].at = "add" /\ rec[j].to \in down
  \/ rec[j].at = "running" /\ rec[j].to \in stuck \union down

JoinFails(j) ==
  /\ j[1] \notin down
  /\ \/ NoAnswer(j) /\ UNCHANGED faults
     \/ rec[j].at = "call" /\ faults < MaxFaults /\ faults' = faults + 1
  /\ JoinFailed(j)
  /\ UNCHANGED <<acc, disk, pro, my_n, late, votes>>
  /\ UNCHANGED <<myvid, mems, hb, upcalls, stale, stuck>>

----------------------------------------------------------------------------
\* p crashes and starts again: what config and rsm keep in memory is rebuilt.
NodeRestart(p) ==
  /\ Restart(p)
  /\ reconstruct(p)
  /\ primary' = [primary EXCEPT ![p] = First]
  /\ hb' = [hb EXCEPT ![p] = Asleep]
  /\ rec' = [j \in Recoverer |->
       IF j[1] = p THEN IF j[2] = "recovery" THEN Checking ELSE Asleep
       ELSE IF rec[j].at \in {"add", "running"} /\ rec[j].to = p THEN [at |-> "lost"]
       ELSE rec[j]]
  /\ upcalls' = {u \in upcalls : u.at # p}
  /\ stale' = {s \in stale : s[1] # p} \union {<<q, p>> : q \in Node \ {p}}
  /\ stuck' = stuck \ {p}
  /\ down' = down \ {p}

Next ==
  \/ \E p \in Node :
       \/ PaxosPrepare(p) \/ PaxosAccept(p) \/ PaxosDecide(p)
       \/ PaxosTimeout(p) \/ PaxosUnreachable(p)
       \/ \E m \in Node : Ping(p, m)
       \/ heartbeat(p) \/ PingFails(p) \/ Remove(p) \/ RemoveReturns(p)
       \/ NodeRestart(p)
  \/ \E j \in Recoverer :
       \/ Recovery(j) \/ joinreq(j) \/ Add(j) \/ AddReturns(j)
       \/ Restore(j) \/ JoinFails(j)
  \/ \E a \in late : PaxosLate(a)
  \/ \E u \in upcalls : Upcall(u)

Spec == Init /\ [][Next]_vars

----------------------------------------------------------------------------
(* Properties. *)

\* The calls return, and the threads run: a proposer and the threads of a node in
\* recovery() wait for nothing but answers, which come or time out.  Nothing is
\* assumed of faults, of late requests, or of the heartbeater.
FairSpec ==
  /\ Spec
  /\ \A p \in Node :
       /\ WF_pro(PaxosPrepare(p) \/ PaxosAccept(p) \/ PaxosDecide(p) \/ PaxosUnreachable(p))
       /\ WF_rec(\E j \in {p} \X {"recovery", "upcall"} :
                   \/ Recovery(j) \/ joinreq(j) \/ Add(j) \/ AddReturns(j) \/ Restore(j)
                   \/ JoinFails(j) /\ UNCHANGED faults)

\* config and the acceptor keep their own copies of the view, under two mutexes:
\* the members config works with (mems) are the value the acceptor has for the
\* view config is in, after upcalls, a restored log and restarts alike.
ViewIsLogged == \A p \in Node \ down : mems[p] = acc[p].values[myvid[p]]

\* Decided views: <<i, v>> where some node has v as its view i.
Decided ==
  {d \in {<<i, acc[p].values[i]>> : i \in 1..MaxInstance, p \in Node} : d[2] # NoValue}



=============================================================================
