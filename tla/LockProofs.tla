------------------------------ MODULE LockProofs -----------------------------
(***************************************************************************)
(* The theorems about the lock service, for any threads, locks and bounds. *)
(* With any number of clients: the threads of a client queue, sleep and    *)
(* talk to the server as they should (LockInv), and releaser, revoker and  *)
(* retryer find their iterators where they left them.  With one client     *)
(* (AloneInv): its threads exclude each other, nobody is stranded, and the *)
(* service implements ExclusiveLock.                                       *)
(***************************************************************************)
EXTENDS LockService, TLAPS

(***************************************************************************)
(* No element is in the list twice.                                        *)
(***************************************************************************)
NoRepeats(s) == \A i, j \in DOMAIN s : s[i] = s[j] => i = j

(***************************************************************************)
(* A lock service with one client c.  What keeps its threads apart: the    *)
(* server has granted it every lock it asked for, so that it owes nobody a *)
(* retry or a revoke, and what the client thinks of a lock agrees with     *)
(* what its threads and calls do about it.                                 *)
(***************************************************************************)
Asked(c, l) == [op |-> "acquire", client |-> c, lock |-> l]

Busy(c, t, l) == wants[c][t] = l /\ pc[c][t] \in {"calling", "holding"}

NothingOwed(c) ==
    /\ revokes = <<>> /\ free_locks = <<>> /\ revoker = Idle /\ retryer = Idle
    /\ revoke_queue[c] = <<>>
    /\ \A l \in Lock : waiting[l] = <<>> /\ sentTo[l] = NoClient
    /\ \A t \in Thread : pc[c][t] \notin {"retrysleep", "retryawake"}

CallAlone(c, l, m) ==
    \/ m = Sent("acquire", l) /\ owner[l] = NoClient /\ Asked(c, l) \notin late
    \/ m = Answer("acquire", l, "OK") /\ Asked(c, l) \notin late
    \/ m = Answer("acquire", l, "TIMEOUT") /\ timeouts > 0

LateAlone(c) ==
    \A m \in late : \E l \in Lock :
       m = Asked(c, l) /\ owner[l] = NoClient /\ state[c][l] = "ACQUIRING"

LockAlone(c, l) ==
    /\ state[c][l] # "RELEASING"
    /\ state[c][l] = "NONE" => owner[l] = NoClient
    /\ \A t \in Thread : Busy(c, t, l) =>
          /\ pc[c][t] = "calling" => state[c][l] = "ACQUIRING" /\ CallAlone(c, l, call[c][t])
          /\ pc[c][t] = "holding" => state[c][l] = "LOCKED"
    /\ \A t, u \in Thread : Busy(c, t, l) /\ Busy(c, u, l) => t = u
    /\ state[c][l] = "LOCKED" \/ (state[c][l] = "ACQUIRING" /\ timeouts = 0)
          => \E t \in Thread : Busy(c, t, l)

AloneInv(c) ==
    /\ NothingOwed(c)
    /\ LateAlone(c)
    /\ \A l \in Lock : LockAlone(c, l)
    /\ timeouts \in 0 .. MaxTimeouts

(***************************************************************************)
(* A step of thread t about lock l as the others see it: what they do is   *)
(* what they did, but for sleepers that wake up.                           *)
(***************************************************************************)
OthersStay(c, t, l) ==
    /\ \A u \in Thread \ {t} :
          /\ wants'[c][u] = wants[c][u] /\ call'[c][u] = call[c][u]
          /\ pc'[c][u] = pc[c][u] \/ (pc[c][u] = "asleep" /\ pc'[c][u] = "awake")
    /\ \A k \in Lock \ {l} : state'[c][k] = state[c][k]
    /\ UNCHANGED <<serverVars, revoke_queue, late, timeouts>>

(***************************************************************************)
(* What the thread itself does: it goes to sleep, calls the server, gets   *)
(* the lock, or gives it back.                                             *)
(***************************************************************************)
OwnStep(c, t, l) ==
    \/ /\ pc'[c][t] = "asleep" /\ wants'[c][t] = l /\ state'[c][l] = state[c][l]
       /\ pc[c][t] # "holding"
       /\ pc[c][t] = "calling" => timeouts > 0
    \/ /\ pc'[c][t] = "calling" /\ wants'[c][t] = l
       /\ state[c][l] = "NONE" /\ state'[c][l] = "ACQUIRING"
       /\ call'[c][t] = Sent("acquire", l)
    \/ /\ pc'[c][t] = "holding" /\ wants'[c][t] = l /\ state'[c][l] = "LOCKED"
       /\ \/ state[c][l] = "FREE"
          \/ pc[c][t] = "calling" /\ Asked(c, l) \notin late
    \/ /\ pc[c][t] = "holding" /\ pc'[c][t] = "idle" /\ wants'[c][t] = NoLock
       /\ state'[c][l] = "FREE"

(***************************************************************************)
(* A holder of a lock is a pair of a client and a thread.                  *)
(***************************************************************************)
LEMMA HolderParts ==
    ASSUME NEW l, NEW h \in Holders(l)
    PROVE  /\ h = <<h[1], h[2]>> /\ h[1] \in Client /\ h[2] \in Thread
           /\ pc[h[1]][h[2]] = "holding" /\ wants[h[1]][h[2]] = l
BY DEF Holders

\* A step of a thread keeps the invariant of the only client.
LEMMA OwnStepKeepsAlone ==
    ASSUME NEW c, NEW t \in Thread, NEW l \in Lock, AloneInv(c), OthersStay(c, t, l),
           OwnStep(c, t, l), pc[c][t] = "idle" \/ wants[c][t] = l
    PROVE  AloneInv(c)'
<1>1. UNCHANGED <<owner, waiting, sentTo, revokes, free_locks, revoker, retryer>>
      /\ UNCHANGED <<revoke_queue, late, timeouts>>
  BY DEF OthersStay, serverVars
<1>2. ASSUME NEW u \in Thread \ {t}
      PROVE  /\ wants'[c][u] = wants[c][u] /\ call'[c][u] = call[c][u]
             /\ pc'[c][u] = "calling" <=> pc[c][u] = "calling"
             /\ pc'[c][u] = "holding" <=> pc[c][u] = "holding"
             /\ pc'[c][u] \notin {"retrysleep", "retryawake"}
  BY <1>2, Zenon DEF OthersStay, AloneInv, NothingOwed
<1>3. \A u \in Thread \ {t}, k \in Lock : Busy(c, u, k)' <=> Busy(c, u, k)
  BY <1>2, Zenon DEF Busy
<1>4. \A k \in Lock \ {l} : state'[c][k] = state[c][k]
  BY Zenon DEF OthersStay
<1>5. \A k \in Lock \ {l} : ~ Busy(c, t, k)' /\ ~ Busy(c, t, k)
  BY ProtocolAssumption, Zenon DEF Busy, OwnStep
<1>6. NothingOwed(c)'
  <2>1. pc'[c][t] \notin {"retrysleep", "retryawake"}
    BY Zenon DEF OwnStep
  <2> QED
    BY <1>1, <1>2, <2>1, Zenon DEF AloneInv, NothingOwed, Idle
<1>7. \A k \in Lock : Asked(c, k)' = Asked(c, k)
  BY Zenon DEF Asked
<1>8. /\ LockAlone(c, l)
      /\ \A m \in late : m = Asked(c, l) => state[c][l] = "ACQUIRING" /\ owner[l] = NoClient
  <2>1. \A k \in Lock : Asked(c, k) = Asked(c, l) => k = l
    BY Zenon DEF Asked
  <2> QED
    BY <2>1, Zenon DEF AloneInv, LateAlone
<1>9. pc[c][t] = "calling" => state[c][l] = "ACQUIRING" /\ Busy(c, t, l)
  BY <1>8, Zenon DEF LockAlone, Busy
<1>10. pc[c][t] = "holding" => state[c][l] = "LOCKED" /\ Busy(c, t, l)
  BY <1>8, Zenon DEF LockAlone, Busy
<1>11. LateAlone(c)'
  <2> SUFFICES ASSUME NEW m \in late
               PROVE  \E k \in Lock : m = Asked(c, k) /\ owner[k] = NoClient
                                        /\ state'[c][k] = "ACQUIRING"
    BY <1>1, <1>7, Zenon DEF LateAlone
  <2>1. PICK k \in Lock : m = Asked(c, k) /\ owner[k] = NoClient /\ state[c][k] = "ACQUIRING"
    BY Zenon DEF AloneInv, LateAlone
  <2>2. CASE k # l
    BY <1>4, <2>1, <2>2, Zenon
  <2>3. CASE k = l
    <3>1. state'[c][l] = "ACQUIRING"
      BY <1>10, <2>1, <2>3, Zenon DEF OwnStep
    <3> QED
      BY <2>1, <2>3, <3>1, Zenon
  <2> QED
    BY <2>2, <2>3, Zenon
<1>12. ASSUME NEW k \in Lock, k # l PROVE LockAlone(c, k)'
  <2>1. LockAlone(c, k)
    BY Zenon DEF AloneInv
  <2>2. \A u \in Thread : Busy(c, u, k)' <=> Busy(c, u, k)
    BY <1>3, <1>5, <1>12, Zenon
  <2>3. \A u \in Thread : Busy(c, u, k) => u # t
    BY <1>5, <1>12, Zenon
  <2>4. \A u \in Thread : CallAlone(c, k, call[c][u]) /\ u # t
                             => CallAlone(c, k, call[c][u])'
    BY <1>1, <1>2, <1>7, Zenon DEF CallAlone, Sent, Answer
  <2>5. state'[c][k] = state[c][k]
    BY <1>4, <1>12, Zenon
  <2> QED
    BY <1>1, <1>2, <2>1, <2>2, <2>3, <2>4, <2>5, Zenon DEF LockAlone
<1>13. LockAlone(c, l)'
  <2>0. \A u \in Thread : CallAlone(c, l, call[c][u]) /\ u # t
                             => CallAlone(c, l, call[c][u])'
    BY <1>1, <1>2, <1>7, Zenon DEF CallAlone, Sent, Answer
  <2>1. CASE /\ pc'[c][t] = "asleep" /\ wants'[c][t] = l /\ state'[c][l] = state[c][l]
             /\ pc[c][t] # "holding"
             /\ pc[c][t] = "calling" => timeouts > 0
    <3>1. ~ Busy(c, t, l)'
      BY <2>1, Zenon DEF Busy
    <3>2. Busy(c, t, l) => timeouts > 0 /\ state[c][l] = "ACQUIRING"
      BY <1>9, <2>1, Zenon DEF Busy
    <3>3. state[c][l] = "LOCKED" \/ (state[c][l] = "ACQUIRING" /\ timeouts = 0)
             => \E u \in Thread : Busy(c, u, l)'
      <4>1. state[c][l] = "LOCKED" \/ (state[c][l] = "ACQUIRING" /\ timeouts = 0)
               => \E u \in Thread \ {t} : Busy(c, u, l)
        BY <1>8, <3>2 DEF LockAlone
      <4> QED
        BY <1>3, <4>1, Zenon
    <3> QED
      BY <1>1, <1>2, <1>3, <1>8, <2>0, <2>1, <3>1, <3>3 DEF LockAlone
  <2>2. CASE /\ pc'[c][t] = "calling" /\ wants'[c][t] = l
             /\ state[c][l] = "NONE" /\ state'[c][l] = "ACQUIRING"
             /\ call'[c][t] = Sent("acquire", l)
    <3>1. \A u \in Thread : ~ Busy(c, u, l)
      BY <1>8, <2>2, Zenon DEF LockAlone, Busy
    <3>2. \A u \in Thread : Busy(c, u, l)' <=> u = t
      BY <1>3, <2>2, <3>1 DEF Busy
    <3>3. owner[l] = NoClient /\ Asked(c, l) \notin late
      BY <1>8, <2>2, Zenon DEF LockAlone
    <3>4. CallAlone(c, l, call[c][t])'
      BY <1>1, <1>7, <2>2, <3>3, Zenon DEF CallAlone, Sent
    <3> QED
      BY <2>2, <3>2, <3>4, Zenon DEF LockAlone
  <2>3. CASE /\ pc'[c][t] = "holding" /\ wants'[c][t] = l /\ state'[c][l] = "LOCKED"
             /\ \/ state[c][l] = "FREE"
                \/ pc[c][t] = "calling" /\ Asked(c, l) \notin late
    <3>1. \A u \in Thread \ {t} : ~ Busy(c, u, l)
      BY <1>8, <1>9, <2>3, Zenon DEF LockAlone, Busy
    <3>2. \A u \in Thread : Busy(c, u, l)' <=> u = t
      BY <1>3, <2>3, <3>1 DEF Busy
    <3> QED
      BY <2>3, <3>2, Zenon DEF LockAlone
  <2>4. CASE /\ pc[c][t] = "holding" /\ pc'[c][t] = "idle" /\ wants'[c][t] = NoLock
             /\ state'[c][l] = "FREE"
    <3>1. \A u \in Thread \ {t} : ~ Busy(c, u, l)
      BY <1>8, <1>10, <2>4, Zenon DEF LockAlone
    <3>2. \A u \in Thread : ~ Busy(c, u, l)'
      BY <1>3, <2>4, <3>1 DEF Busy
    <3> QED
      BY <2>4, <3>2, Zenon DEF LockAlone
  <2> QED
    BY <2>1, <2>2, <2>3, <2>4, Zenon DEF OwnStep
<1> QED
  BY <1>1, <1>6, <1>11, <1>12, <1>13, Zenon DEF AloneInv

\* A step of a call about lock l keeps the invariant of the only client, if the
\* answers about l and the requests left behind are as they should be.
LEMMA CallStepKeepsAlone ==
    ASSUME NEW c, NEW l \in Lock, AloneInv(c),
           UNCHANGED <<state, pc, wants, revoke_queue, waiting, revokes, free_locks,
                       revoker, retryer>>,
           \A k \in Lock : sentTo'[k] = sentTo[k],
           \A k \in Lock \ {l} : owner'[k] = owner[k],
           \A k \in Lock \ {l} : Asked(c, k) \in late' => Asked(c, k) \in late,
           \A u \in Thread : wants[c][u] # l => call'[c][u] = call[c][u],
           timeouts' \in timeouts .. MaxTimeouts,
           state[c][l] = "ACQUIRING",
           LateAlone(c)',
           \A u \in Thread : Busy(c, u, l) => CallAlone(c, l, call[c][u])'
    PROVE  AloneInv(c)'
<1>1. NothingOwed(c)'
  BY Zenon DEF AloneInv, NothingOwed, Idle
<1>2. \A u \in Thread, k \in Lock : Busy(c, u, k)' <=> Busy(c, u, k)
  BY Zenon DEF Busy
<1>3. timeouts \in Nat /\ timeouts' \in Nat /\ timeouts' \in 0 .. MaxTimeouts /\ timeouts =< timeouts'
  BY ProtocolAssumption DEF AloneInv
<1>4. \A k \in Lock : LockAlone(c, k)
  BY Zenon DEF AloneInv
<1>5. LockAlone(c, l)'
  BY <1>2, <1>3, <1>4 DEF LockAlone
<1>6. ASSUME NEW k \in Lock, k # l PROVE LockAlone(c, k)'
  <2>1. Asked(c, k)' = Asked(c, k)
    BY Zenon DEF Asked
  <2>2. ASSUME NEW u \in Thread, Busy(c, u, k), CallAlone(c, k, call[c][u])
        PROVE  CallAlone(c, k, call[c][u])'
    <3>1. call'[c][u] = call[c][u]
      BY <1>6, <2>2, Zenon DEF Busy
    <3> QED
      BY <1>3, <1>6, <2>1, <2>2, <3>1 DEF CallAlone, Sent, Answer
  <2>3. owner'[k] = owner[k]
    BY <1>6, Zenon
  <2> QED
    BY <1>2, <1>3, <1>4, <2>2, <2>3 DEF LockAlone
<1> QED
  BY <1>1, <1>3, <1>5, <1>6, Zenon DEF AloneInv

(***************************************************************************)
(* The first position a scan finds is one it looked for.                   *)
(***************************************************************************)
LEMMA FirstOfFacts ==
    ASSUME NEW found
    PROVE  FirstOf(found) # 0 => FirstOf(found) \in found
<1> DEFINE least(i) == \A j \in found : i =< j
<1>1. CASE \E i \in found : least(i)
  <2>1. FirstOf(found) = CHOOSE i \in found : least(i)
    BY <1>1, Zenon DEF FirstOf
  <2>2. (CHOOSE i \in found : least(i)) \in found
    BY <1>1, Zenon
  <2> QED
    BY <2>1, <2>2, Zenon
<1>2. CASE ~ \E i \in found : least(i)
  BY <1>2, Zenon DEF FirstOf
<1> QED
  BY <1>1, <1>2, Zenon

(***************************************************************************)
(* push_back of an element that find did not find.                         *)
(***************************************************************************)
LEMMA AppendNewFacts ==
    ASSUME NEW S, NEW s \in Seq(S), NEW e \in S
    PROVE  /\ AppendNew(s, e) \in Seq(S)
           /\ Range(AppendNew(s, e)) = Range(s) \cup {e}
           /\ Len(s) =< Len(AppendNew(s, e))
           /\ \A i \in 1 .. Len(s) : AppendNew(s, e)[i] = s[i]
           /\ NoRepeats(s) => NoRepeats(AppendNew(s, e))
<1>1. CASE e \in Range(s)
  BY <1>1 DEF AppendNew
<1>2. CASE e \notin Range(s)
  <2>1. AppendNew(s, e) = Append(s, e)
    BY <1>2, Zenon DEF AppendNew
  <2>2. /\ Append(s, e) \in Seq(S)
        /\ Len(Append(s, e)) = Len(s) + 1
        /\ \A i \in 1 .. Len(s) : Append(s, e)[i] = s[i]
        /\ Append(s, e)[Len(s) + 1] = e
    OBVIOUS
  <2>3. DOMAIN Append(s, e) = 1 .. Len(s) + 1 /\ DOMAIN s = 1 .. Len(s) /\ Len(s) \in Nat
    BY <2>2
  <2>4. Range(Append(s, e)) = Range(s) \cup {e}
    BY <2>2, <2>3 DEF Range
  <2>5. NoRepeats(s) => NoRepeats(Append(s, e))
    BY <1>2, <2>2, <2>3 DEF NoRepeats, Range
  <2> QED
    BY <2>1, <2>2, <2>3, <2>4, <2>5
<1> QED
  BY <1>1, <1>2, Zenon

(***************************************************************************)
(* pop_front.                                                              *)
(***************************************************************************)
LEMMA TailFacts ==
    ASSUME NEW S, NEW s \in Seq(S), s # <<>>, NoRepeats(s)
    PROVE  /\ Tail(s) \in Seq(S)
           /\ Range(Tail(s)) = Range(s) \ {Head(s)}
           /\ NoRepeats(Tail(s))
<1>1. /\ Tail(s) \in Seq(S)
      /\ Len(Tail(s)) = Len(s) - 1
      /\ \A i \in 1 .. Len(Tail(s)) : Tail(s)[i] = s[i + 1]
      /\ Len(s) \in Nat \ {0}
  OBVIOUS
<1>2. DOMAIN Tail(s) = 1 .. Len(s) - 1 /\ DOMAIN s = 1 .. Len(s)
  BY <1>1
<1>3. Head(s) = s[1]
  BY <1>1
<1>4. \A x \in Range(Tail(s)) : x \in Range(s) /\ x # Head(s)
  BY <1>1, <1>2, <1>3 DEF Range, NoRepeats
<1>5. ASSUME NEW x \in Range(s), x # Head(s) PROVE x \in Range(Tail(s))
  <2>1. PICK i \in 1 .. Len(s) : x = s[i]
    BY <1>2, Zenon DEF Range
  <2>2. i - 1 \in 1 .. Len(s) - 1
    BY <1>1, <1>3, <1>5, <2>1
  <2>3. Tail(s)[i - 1] = x
    BY <1>1, <2>1, <2>2
  <2> QED
    BY <1>2, <2>2, <2>3, Zenon DEF Range
<1>6. NoRepeats(Tail(s))
  BY <1>1, <1>2 DEF NoRepeats
<1> QED
  BY <1>1, <1>4, <1>5, <1>6, Zenon

(***************************************************************************)
(* front() of a list that has an element.                                  *)
(***************************************************************************)
LEMMA FrontOfList ==
    ASSUME NEW S, NEW s \in Seq(S), s # <<>>
    PROVE  Head(s) = s[1] /\ 1 \in DOMAIN s /\ s[1] \in S
  OBVIOUS

(***************************************************************************)
(* One list after another, as erase(it) leaves them.                       *)
(***************************************************************************)
LEMMA JoinedLists ==
    ASSUME NEW S, NEW a \in Seq(S), NEW b \in Seq(S)
    PROVE  /\ a \o b \in Seq(S)
           /\ Len(a \o b) = Len(a) + Len(b)
           /\ \A i \in 1 .. Len(a) + Len(b) :
                 (a \o b)[i] = IF i <= Len(a) THEN a[i] ELSE b[i - Len(a)]
  OBVIOUS

(***************************************************************************)
(* erase(it): what follows moves up by one.                                *)
(***************************************************************************)
LEMMA EraseFacts ==
    ASSUME NEW S, NEW s \in Seq(S), NEW k \in 1 .. Len(s)
    PROVE  /\ Erase(s, k) \in Seq(S)
           /\ Len(Erase(s, k)) = Len(s) - 1
           /\ \A i \in 1 .. Len(s) - 1 :
                 Erase(s, k)[i] = IF i < k THEN s[i] ELSE s[i + 1]
<1> DEFINE a == SubSeq(s, 1, k - 1)
           b == SubSeq(s, k + 1, Len(s))
<1>1. Len(s) \in Nat /\ \A i \in 1 .. Len(s) : s[i] \in S
  OBVIOUS
<1>2. /\ a \in Seq(S)
      /\ Len(a) = k - 1
      /\ \A i \in 1 .. k - 1 : a[i] = s[i]
  BY <1>1
<1>3. /\ b \in Seq(S)
      /\ Len(b) = Len(s) - k
      /\ \A i \in 1 .. Len(s) - k : b[i] = s[k + i]
  <2>1. \A i \in k + 1 .. Len(s) : s[i] \in S
    BY <1>1
  <2>2. /\ b \in Seq(S)
        /\ Len(b) = IF k + 1 <= Len(s) THEN Len(s) - (k + 1) + 1 ELSE 0
        /\ \A i \in 1 .. Len(s) - (k + 1) + 1 : b[i] = s[(k + 1) + i - 1]
    BY <1>1, <2>1
  <2> QED
    BY <1>1, <2>2
<1> HIDE DEF a, b
<1>4. /\ a \o b \in Seq(S)
      /\ Len(a \o b) = Len(a) + Len(b)
      /\ \A i \in 1 .. Len(a) + Len(b) :
            (a \o b)[i] = IF i <= Len(a) THEN a[i] ELSE b[i - Len(a)]
  BY <1>2, <1>3, JoinedLists, Zenon
<1>5. Erase(s, k) = a \o b
  BY Zenon DEF Erase, a, b
<1>6. Len(a) + Len(b) = Len(s) - 1
  BY <1>1, <1>2, <1>3
<1>7. ASSUME NEW i \in 1 .. Len(s) - 1, i < k PROVE (a \o b)[i] = s[i]
  BY <1>1, <1>2, <1>4, <1>6, <1>7
<1>8. ASSUME NEW i \in 1 .. Len(s) - 1, ~ i < k PROVE (a \o b)[i] = s[i + 1]
  <2>1. (a \o b)[i] = b[i - (k - 1)]
    BY <1>1, <1>2, <1>4, <1>6, <1>8
  <2>2. i - (k - 1) \in 1 .. Len(s) - k /\ k + (i - (k - 1)) = i + 1
    BY <1>1, <1>8
  <2> QED
    BY <1>3, <2>1, <2>2, Zenon
<1> QED
  BY <1>4, <1>5, <1>6, <1>7, <1>8, Zenon

(***************************************************************************)
(* erase(it) in a list without repeats leaves the other elements, once.    *)
(***************************************************************************)
LEMMA EraseNoRepeats ==
    ASSUME NEW S, NEW s \in Seq(S), NEW k \in 1 .. Len(s), NoRepeats(s)
    PROVE  /\ Range(Erase(s, k)) = Range(s) \ {s[k]}
           /\ NoRepeats(Erase(s, k))
<1> DEFINE r == Erase(s, k)
<1>1. /\ r \in Seq(S)
      /\ Len(r) = Len(s) - 1
      /\ \A i \in 1 .. Len(s) - 1 : r[i] = IF i < k THEN s[i] ELSE s[i + 1]
  BY EraseFacts, Zenon
<1> HIDE DEF r
<1>2. DOMAIN r = 1 .. Len(s) - 1 /\ DOMAIN s = 1 .. Len(s) /\ Len(s) \in Nat
  BY <1>1
<1>3. \A x \in Range(r) : x \in Range(s) \ {s[k]}
  BY <1>1, <1>2 DEF Range, NoRepeats
<1>4. ASSUME NEW x \in Range(s) \ {s[k]} PROVE x \in Range(r)
  <2>1. PICK i \in 1 .. Len(s) : x = s[i] /\ i # k
    BY <1>2, Zenon DEF Range
  <2>2. CASE i < k
    <3>1. i \in 1 .. Len(s) - 1 /\ r[i] = x
      BY <1>1, <1>2, <2>1, <2>2
    <3> QED
      BY <1>2, <3>1, Zenon DEF Range
  <2>3. CASE i > k
    <3>1. i - 1 \in 1 .. Len(s) - 1 /\ r[i - 1] = x
      BY <1>1, <1>2, <2>1, <2>3
    <3> QED
      BY <1>2, <3>1, Zenon DEF Range
  <2> QED
    BY <2>1, <2>2, <2>3
<1>5. ASSUME NEW i \in 1 .. Len(s) - 1, NEW j \in 1 .. Len(s) - 1, r[i] = r[j]
      PROVE  i = j
  <2>1. PICK a \in 1 .. Len(s) : a = (IF i < k THEN i ELSE i + 1) /\ r[i] = s[a]
    BY <1>1, <1>2
  <2>2. PICK b \in 1 .. Len(s) : b = (IF j < k THEN j ELSE j + 1) /\ r[j] = s[b]
    BY <1>1, <1>2
  <2>3. a = b
    BY <1>2, <1>5, <2>1, <2>2, Zenon DEF NoRepeats
  <2> QED
    BY <2>1, <2>2, <2>3
<1>6. NoRepeats(r)
  BY <1>2, <1>5, Zenon DEF NoRepeats
<1> QED
  BY <1>3, <1>4, <1>6, Zenon DEF r

(***************************************************************************)
(* list::remove of what is not in the list changes nothing.                *)
(***************************************************************************)
LEMMA RemoveAbsent ==
    ASSUME NEW S, NEW s \in Seq(S), NEW e, e \notin Range(s)
    PROVE  Remove(s, e) = s
  BY Zenon DEF Remove

-----------------------------------------------------------------------------
(* The lock server. *)

(***************************************************************************)
(* The server: the iterators of the revoker and of the retryer are at the  *)
(* element their call is about.                                            *)
(***************************************************************************)
RevokerIn ==
    revoker # Idle =>
       /\ revoker.i \in 1 .. Len(revokes)
       /\ revokes[revoker.i] = <<revoker.lock, revoker.clt>>

RetryerIn ==
    retryer # Idle =>
       /\ retryer.i \in 1 .. Len(free_locks)
       /\ free_locks[retryer.i] = retryer.lock

ServerInv == ServerTypeOK /\ RevokerIn /\ RetryerIn

\* The record of a server thread: its fields, and what an answer to its call leaves alone.
LEMMA WorkerFacts ==
    ASSUME NEW w \in Worker
    PROVE  /\ w # Idle <=> w.at # "idle"
           /\ w # Idle => w.i \in Nat /\ w.lock \in Lock /\ w.clt \in Client
           /\ Idle \in Worker
           /\ w # Idle => \A r \in Status :
                 /\ Called(w, r) \in Worker
                 /\ Called(w, r) # Idle
                 /\ Called(w, r).i = w.i
                 /\ Called(w, r).lock = w.lock
                 /\ Called(w, r).clt = w.clt
           /\ \A i \in Nat, l \in Lock, c \in Client :
                 /\ Calling(i, l, c) \in Worker
                 /\ Calling(i, l, c).i = i
                 /\ Calling(i, l, c).lock = l
                 /\ Calling(i, l, c).clt = c
<1>1. /\ w # Idle <=> w.at # "idle"
      /\ w # Idle => w.i \in Nat /\ w.lock \in Lock /\ w.clt \in Client
  <2>1. CASE w = Idle
    BY <2>1, Zenon DEF Idle
  <2>2. CASE w \in [at : {"sent"}, i : Nat, lock : Lock, clt : Client]
    BY <2>2 DEF Idle
  <2>3. CASE w \in [at : {"done"}, i : Nat, lock : Lock, clt : Client, ret : Status]
    BY <2>3 DEF Idle
  <2> QED
    BY <2>1, <2>2, <2>3, Zenon DEF Worker
<1>2. ASSUME w # Idle, NEW r \in Status
      PROVE  /\ Called(w, r) \in Worker
             /\ Called(w, r) # Idle
             /\ Called(w, r).i = w.i
             /\ Called(w, r).lock = w.lock
             /\ Called(w, r).clt = w.clt
  BY <1>1, <1>2, Zenon DEF Called, Worker, Idle
<1>3. ASSUME NEW i \in Nat, NEW l \in Lock, NEW c \in Client
      PROVE  /\ Calling(i, l, c) \in Worker
             /\ Calling(i, l, c).i = i
             /\ Calling(i, l, c).lock = l
             /\ Calling(i, l, c).clt = c
  BY Zenon DEF Calling, Worker
<1>4. Idle \in Worker
  BY Zenon DEF Worker
<1> QED
  BY <1>1, <1>2, <1>3, <1>4, Zenon

(***************************************************************************)
(* Lists that only grow at the end keep the iterators where they are.      *)
(***************************************************************************)
Extends(s, r) == Len(s) =< Len(r) /\ \A i \in 1 .. Len(s) : r[i] = s[i]

\* Handlers that only append to revokes and free_locks leave the positions of the
\* revoker and the retryer valid.
LEMMA GrowingKeepsIterators ==
    ASSUME ServerInv
    PROVE  /\ revokes' \in Seq(Lock \X Client) /\ Extends(revokes, revokes')
                 /\ UNCHANGED revoker => RevokerIn'
           /\ free_locks' \in Seq(Lock) /\ Extends(free_locks, free_locks')
                 /\ UNCHANGED retryer => RetryerIn'
<1>1. revokes \in Seq(Lock \X Client) /\ free_locks \in Seq(Lock)
  BY Zenon DEF ServerInv, ServerTypeOK
<1>2. ASSUME revokes' \in Seq(Lock \X Client), Extends(revokes, revokes'), UNCHANGED revoker
      PROVE  RevokerIn'
  <2>1. Len(revokes) \in Nat /\ Len(revokes') \in Nat
    BY <1>1, <1>2
  <2> QED
    BY <1>2, <2>1 DEF ServerInv, RevokerIn, Extends, Idle
<1>3. ASSUME free_locks' \in Seq(Lock), Extends(free_locks, free_locks'), UNCHANGED retryer
      PROVE  RetryerIn'
  <2>1. Len(free_locks) \in Nat /\ Len(free_locks') \in Nat
    BY <1>1, <1>3
  <2> QED
    BY <1>3, <2>1 DEF ServerInv, RetryerIn, Extends, Idle
<1> QED
  BY <1>2, <1>3, Zenon

\* Appending a pair to revokes, unless it is there already, only extends the list.
LEMMA RevokesGrow ==
    ASSUME ServerInv, NEW p \in Lock \X Client
    PROVE  /\ AppendNew(revokes, p) \in Seq(Lock \X Client)
           /\ Extends(revokes, AppendNew(revokes, p))
<1> DEFINE P == Lock \X Client
<1>1. revokes \in Seq(P) /\ p \in P
  BY Zenon DEF ServerInv, ServerTypeOK
<1> HIDE DEF P
<1>2. /\ AppendNew(revokes, p) \in Seq(P)
      /\ Len(revokes) =< Len(AppendNew(revokes, p))
      /\ \A i \in 1 .. Len(revokes) : AppendNew(revokes, p)[i] = revokes[i]
  BY <1>1, AppendNewFacts
<1> QED
  BY <1>2, Zenon DEF Extends, P

(***************************************************************************)
(* The acquire and release handlers.                                       *)
(***************************************************************************)
LEMMA HandlersKeepServerInv ==
    ASSUME ServerInv, NEW c \in Client, NEW l \in Lock
    PROVE  /\ acquire(c, l) => ServerInv'
           /\ release(c, l) => ServerInv'
<1>0. /\ owner \in [Lock -> Client \cup {NoClient}] /\ waiting \in [Lock -> Seq(Client)]
      /\ sentTo \in [Lock -> Client \cup {NoClient}] /\ revokes \in Seq(Lock \X Client)
      /\ free_locks \in Seq(Lock) /\ revoker \in Worker /\ retryer \in Worker
  BY Zenon DEF ServerInv, ServerTypeOK
<1>1. Extends(revokes, revokes) /\ Extends(free_locks, free_locks)
  BY <1>0 DEF Extends
<1>2. ASSUME /\ owner' \in [Lock -> Client \cup {NoClient}]
             /\ waiting' \in [Lock -> Seq(Client)]
             /\ sentTo' \in [Lock -> Client \cup {NoClient}],
             revokes' \in Seq(Lock \X Client), Extends(revokes, revokes'),
             free_locks' \in Seq(Lock), Extends(free_locks, free_locks'),
             UNCHANGED <<revoker, retryer>>
      PROVE  ServerInv'
  <2>1. revoker' \in Worker /\ retryer' \in Worker
    BY <1>0, <1>2, Zenon
  <2>2. ServerTypeOK'
    BY <1>2, <2>1, Zenon DEF ServerTypeOK, Worker, Idle, Status
  <2>3. RevokerIn' /\ RetryerIn'
    BY <1>2, GrowingKeepsIterators, Zenon
  <2> QED
    BY <2>2, <2>3, Zenon DEF ServerInv
<1>3. ASSUME acquire(c, l) PROVE ServerInv'
  <2>1. UNCHANGED <<free_locks, revoker, retryer>>
    BY <1>3, Zenon DEF acquire
  <2>2. /\ owner' \in [Lock -> Client \cup {NoClient}]
        /\ sentTo' \in [Lock -> Client \cup {NoClient}]
    BY <1>0, <1>3, Zenon DEF acquire, Grant, Refuse
  <2>3. /\ AppendNew(waiting[l], c) \in Seq(Client)
        /\ waiting' \in [Lock -> Seq(Client)]
    <3>1. waiting[l] \in Seq(Client)
      BY <1>0, Zenon
    <3>2. AppendNew(waiting[l], c) \in Seq(Client)
      BY <3>1, AppendNewFacts, Zenon
    <3> QED
      BY <1>0, <1>3, <3>2, Zenon DEF acquire, Grant, Refuse
  <2>4. revokes' \in Seq(Lock \X Client) /\ Extends(revokes, revokes')
    <3>1. CASE UNCHANGED revokes
      BY <1>0, <1>1, <3>1, Zenon
    <3>2. CASE owner[l] # NoClient /\ revokes' = AppendNew(revokes, <<l, owner[l]>>)
      <4>1. <<l, owner[l]>> \in Lock \X Client
        BY <1>0, <3>2, Zenon
      <4> QED
        BY <3>2, <4>1, RevokesGrow, Zenon
    <3> QED
      BY <1>3, <3>1, <3>2, Zenon DEF acquire, Grant, Refuse
  <2> QED
    BY <1>0, <1>1, <1>2, <2>1, <2>2, <2>3, <2>4, Zenon
<1>4. ASSUME release(c, l) PROVE ServerInv'
  <2>1. UNCHANGED <<waiting, revokes, revoker, retryer>>
    BY <1>4, Zenon DEF release
  <2>2. /\ owner' \in [Lock -> Client \cup {NoClient}]
        /\ sentTo' \in [Lock -> Client \cup {NoClient}]
    BY <1>0, <1>4, Zenon DEF release
  <2>3. free_locks' \in Seq(Lock) /\ Extends(free_locks, free_locks')
    <3>1. CASE UNCHANGED free_locks
      BY <1>0, <1>1, <3>1, Zenon
    <3>2. CASE free_locks' = Append(free_locks, l)
      <4>1. /\ Append(free_locks, l) \in Seq(Lock)
            /\ Len(Append(free_locks, l)) = Len(free_locks) + 1
            /\ \A i \in 1 .. Len(free_locks) : Append(free_locks, l)[i] = free_locks[i]
        BY <1>0, SMTT(30)
      <4> QED
        BY <1>0, <3>2, <4>1 DEF Extends
    <3> QED
      BY <1>4, <3>1, <3>2, Zenon DEF release
  <2> QED
    BY <1>0, <1>1, <1>2, <2>1, <2>2, <2>3, Zenon
<1> QED
  BY <1>3, <1>4, Zenon

(***************************************************************************)
(* Where the revoker and the retryer go from position i.                   *)
(***************************************************************************)
LEMMA RevokerAtFacts ==
    ASSUME NEW list \in Seq(Lock \X Client), NEW i \in Nat \ {0}
    PROVE  /\ RevokerAt(list, i) \in Worker
           /\ RevokerAt(list, i) # Idle =>
                 /\ RevokerAt(list, i).i \in 1 .. Len(list)
                 /\ list[RevokerAt(list, i).i] =
                       <<RevokerAt(list, i).lock, RevokerAt(list, i).clt>>
<1>1. CASE i <= Len(list)
  <2>1. i \in 1 .. Len(list)
    BY <1>1
  <2>2. list[i] \in Lock \X Client
    BY <2>1
  <2>3. list[i] = <<list[i][1], list[i][2]>> /\ list[i][1] \in Lock /\ list[i][2] \in Client
    BY <2>2
  <2>4. RevokerAt(list, i) = Calling(i, list[i][1], list[i][2])
    BY <1>1, Zenon DEF RevokerAt
  <2>5. /\ Calling(i, list[i][1], list[i][2]) \in Worker
        /\ Calling(i, list[i][1], list[i][2]).i = i
        /\ Calling(i, list[i][1], list[i][2]).lock = list[i][1]
        /\ Calling(i, list[i][1], list[i][2]).clt = list[i][2]
    BY <2>3, Zenon DEF Calling, Worker
  <2> QED
    BY <2>1, <2>3, <2>4, <2>5, Zenon
<1>2. CASE ~ i <= Len(list)
  BY <1>2, Zenon DEF RevokerAt, Worker
<1> QED
  BY <1>1, <1>2, Zenon

\* Where the retryer stands after it has gone on to the next lock that somebody waits for.
LEMMA RetryerMoveFacts ==
    ASSUME NEW i \in Nat \ {0}, NEW list \in Seq(Lock), ServerInv,
           RetryerMove(i, list, waiting, sentTo)
    PROVE  /\ waiting' \in [Lock -> Seq(Client)]
           /\ sentTo' \in [Lock -> Client \cup {NoClient}]
           /\ retryer' \in Worker
           /\ retryer' # Idle => retryer'.i \in 1 .. Len(list) /\ list[retryer'.i] = retryer'.lock
<1> DEFINE due(l) == waiting[l] # <<>> /\ sentTo[l] = NoClient
           I == {n \in i .. Len(list) : due(list[n])}
           j == FirstOf(I)
<1>0. waiting \in [Lock -> Seq(Client)] /\ sentTo \in [Lock -> Client \cup {NoClient}]
  BY Zenon DEF ServerInv, ServerTypeOK
<1>1. j # 0 => j \in I
  BY FirstOfFacts, Zenon
<1>2. j # 0 => j \in 1 .. Len(list) /\ waiting[list[j]] # <<>>
  <2>1. I \in SUBSET Nat /\ Len(list) \in Nat
    OBVIOUS
  <2> QED
    BY <1>1, <2>1
<1>3. /\ j # 0 => /\ waiting' = [waiting EXCEPT ![list[j]] = Tail(@)]
                  /\ sentTo' = [sentTo EXCEPT ![list[j]] = Head(waiting[list[j]])]
                  /\ retryer' = Calling(j, list[j], Head(waiting[list[j]]))
      /\ j = 0 => retryer' = Idle /\ waiting' = waiting /\ sentTo' = sentTo
  BY Zenon DEF RetryerMove
<1> HIDE DEF j, I
<1>4. CASE j # 0
  <2> DEFINE l == list[j]
             h == Head(waiting[list[j]])
  <2>1. j \in 1 .. Len(list) /\ j \in Nat /\ l \in Lock
    BY <1>2, <1>4
  <2>2. waiting[l] \in Seq(Client) /\ waiting[l] # <<>>
    BY <1>0, <1>2, <1>4, <2>1, Zenon
  <2>3. h \in Client /\ Tail(waiting[l]) \in Seq(Client)
    BY <2>2
  <2>4. Calling(j, l, h) \in Worker /\ Calling(j, l, h).i = j /\ Calling(j, l, h).lock = l
    BY <2>1, <2>3, Zenon DEF Calling, Worker
  <2>5. waiting' \in [Lock -> Seq(Client)]
    BY <1>0, <1>3, <1>4, <2>1, <2>3, Zenon
  <2>6. sentTo' \in [Lock -> Client \cup {NoClient}]
    BY <1>0, <1>3, <1>4, <2>1, <2>3, Zenon
  <2> QED
    BY <1>3, <1>4, <2>1, <2>4, <2>5, <2>6, Zenon
<1>5. CASE j = 0
  BY <1>0, <1>3, <1>5, Zenon DEF Worker
<1> QED
  BY <1>4, <1>5, Zenon

(***************************************************************************)
(* The steps of the revoker and the retryer, and the answers to them.      *)
(***************************************************************************)
LEMMA WorkersKeepServerInv ==
    ASSUME ServerInv
    PROVE  /\ RevokerStart \/ RevokerReply => ServerInv'
           /\ RetryerStart \/ RetryerReply => ServerInv'
<1>0. /\ owner \in [Lock -> Client \cup {NoClient}] /\ waiting \in [Lock -> Seq(Client)]
      /\ sentTo \in [Lock -> Client \cup {NoClient}] /\ revokes \in Seq(Lock \X Client)
      /\ free_locks \in Seq(Lock) /\ revoker \in Worker /\ retryer \in Worker
  BY Zenon DEF ServerInv, ServerTypeOK
<1>1. Extends(revokes, revokes) /\ Extends(free_locks, free_locks)
  BY <1>0 DEF Extends
<1>2. ASSUME /\ owner' \in [Lock -> Client \cup {NoClient}]
             /\ waiting' \in [Lock -> Seq(Client)]
             /\ sentTo' \in [Lock -> Client \cup {NoClient}]
             /\ revokes' \in Seq(Lock \X Client)
             /\ free_locks' \in Seq(Lock)
             /\ revoker' \in Worker
             /\ retryer' \in Worker
      PROVE  ServerTypeOK'
  BY <1>2, Zenon DEF ServerTypeOK, Worker, Idle, Status
<1>3. 1 \in Nat \ {0}
  OBVIOUS
<1>4. ASSUME RevokerStart \/ RevokerReply PROVE ServerInv'
  <2>1. UNCHANGED <<owner, waiting, sentTo, free_locks, retryer>>
    BY <1>4, Zenon DEF RevokerStart, RevokerReply
  <2>2. PICK i \in Nat \ {0} :
           revokes' \in Seq(Lock \X Client) /\ revoker' = RevokerAt(revokes', i)
    <3>1. CASE RevokerStart
      BY <1>0, <1>3, <3>1, Zenon DEF RevokerStart
    <3>2. CASE RevokerReply
      <4>1. revoker # Idle
        BY <3>2 DEF RevokerReply, Idle
      <4>2. /\ revoker.i \in 1 .. Len(revokes)
            /\ revoker.i \in Nat \ {0} /\ revoker.i + 1 \in Nat \ {0}
        BY <1>0, <4>1 DEF ServerInv, RevokerIn
      <4>3. Erase(revokes, revoker.i) \in Seq(Lock \X Client)
        BY <1>0, <4>2, EraseFacts, Zenon
      <4> QED
        BY <1>0, <3>2, <4>2, <4>3, Zenon DEF RevokerReply
    <3> QED
      BY <1>4, <3>1, <3>2, Zenon
  <2>3. /\ revoker' \in Worker
        /\ revoker' # Idle => /\ revoker'.i \in 1 .. Len(revokes')
                              /\ revokes'[revoker'.i] = <<revoker'.lock, revoker'.clt>>
    BY <2>2, RevokerAtFacts, Zenon
  <2>4. ServerTypeOK'
    BY <1>0, <1>2, <2>1, <2>2, <2>3, Zenon
  <2>5. RevokerIn'
    BY <2>3, Zenon DEF RevokerIn, Idle
  <2>6. RetryerIn'
    BY <1>0, <1>1, <2>1, GrowingKeepsIterators, Zenon
  <2> QED
    BY <2>4, <2>5, <2>6, Zenon DEF ServerInv
<1>5. ASSUME RetryerStart \/ RetryerReply PROVE ServerInv'
  <2>1. UNCHANGED <<owner, revoker>>
    BY <1>5, Zenon DEF RetryerStart, RetryerReply
  <2>2. /\ \E i \in Nat \ {0} : RetryerMove(i, free_locks', waiting, sentTo)
        /\ free_locks' \in Seq(Lock)
        /\ revokes' \in Seq(Lock \X Client) /\ Extends(revokes, revokes')
    <3>1. CASE RetryerStart
      BY <1>0, <1>1, <1>3, <3>1, Zenon DEF RetryerStart
    <3>2. CASE RetryerReply
      <4>1. retryer # Idle
        BY <3>2 DEF RetryerReply, Idle
      <4>2. /\ retryer.i \in 1 .. Len(free_locks)
            /\ retryer.i \in Nat \ {0} /\ retryer.i + 1 \in Nat \ {0}
        BY <1>0, <4>1 DEF ServerInv, RetryerIn
      <4>3. Erase(free_locks, retryer.i) \in Seq(Lock)
        BY <1>0, <4>2, EraseFacts, Zenon
      <4>4. <<retryer.lock, retryer.clt>> \in Lock \X Client
        BY <1>0, <4>1, WorkerFacts, Zenon
      <4>5. revokes' \in Seq(Lock \X Client) /\ Extends(revokes, revokes')
        <5>1. CASE waiting[retryer.lock] = <<>>
          BY <1>0, <1>1, <3>2, <5>1, Zenon DEF RetryerReply
        <5>2. CASE waiting[retryer.lock] # <<>>
          <6>1. revokes' = AppendNew(revokes, <<retryer.lock, retryer.clt>>)
            BY <3>2, <5>2, Zenon DEF RetryerReply
          <6> QED
            BY <4>4, <6>1, RevokesGrow, Zenon
        <5> QED
          BY <5>1, <5>2, Zenon
      <4> QED
        BY <1>0, <3>2, <4>2, <4>3, <4>5, Zenon DEF RetryerReply
    <3> QED
      BY <1>5, <3>1, <3>2, Zenon
  <2>3. /\ waiting' \in [Lock -> Seq(Client)]
        /\ sentTo' \in [Lock -> Client \cup {NoClient}]
        /\ retryer' \in Worker
        /\ retryer' # Idle => /\ retryer'.i \in 1 .. Len(free_locks')
                              /\ free_locks'[retryer'.i] = retryer'.lock
    BY <2>2, RetryerMoveFacts, Zenon
  <2>4. ServerTypeOK'
    BY <1>0, <1>2, <2>1, <2>2, <2>3, Zenon
  <2>5. RetryerIn'
    BY <2>3, Zenon DEF RetryerIn, Idle
  <2>6. RevokerIn'
    BY <2>1, <2>2, GrowingKeepsIterators, Zenon
  <2> QED
    BY <2>4, <2>5, <2>6, Zenon DEF ServerInv
<1> QED
  BY <1>4, <1>5, Zenon

\* An answer to a call of the revoker or of the retryer keeps the invariant.
LEMMA AnswersKeepServerInv ==
    ASSUME ServerInv, NEW r \in Status, UNCHANGED <<owner, waiting, sentTo, revokes, free_locks>>
    PROVE  /\ revoker # Idle /\ revoker' = Called(revoker, r) /\ UNCHANGED retryer => ServerInv'
           /\ retryer # Idle /\ retryer' = Called(retryer, r) /\ UNCHANGED revoker => ServerInv'
<1>0. revoker \in Worker /\ retryer \in Worker
  BY Zenon DEF ServerInv, ServerTypeOK
<1>1. ASSUME revoker' \in Worker /\ retryer' \in Worker PROVE ServerTypeOK'
  <2>1. /\ owner' \in [Lock -> Client \cup {NoClient}] /\ waiting' \in [Lock -> Seq(Client)]
        /\ sentTo' \in [Lock -> Client \cup {NoClient}] /\ revokes' \in Seq(Lock \X Client)
        /\ free_locks' \in Seq(Lock)
    BY Zenon DEF ServerInv, ServerTypeOK
  <2> QED
    BY <1>1, <2>1, Zenon DEF ServerTypeOK, Worker, Idle, Status
<1>2. ASSUME revoker # Idle, revoker' = Called(revoker, r), UNCHANGED retryer PROVE ServerInv'
  <2>1. /\ revoker' \in Worker /\ revoker' # Idle /\ revoker'.i = revoker.i
        /\ revoker'.lock = revoker.lock /\ revoker'.clt = revoker.clt
    BY <1>0, <1>2, WorkerFacts
  <2>2. RevokerIn' /\ RetryerIn'
    BY <1>2, <2>1, Zenon DEF ServerInv, RevokerIn, RetryerIn, Idle
  <2> QED
    BY <1>0, <1>1, <1>2, <2>1, <2>2, Zenon DEF ServerInv
<1>3. ASSUME retryer # Idle, retryer' = Called(retryer, r), UNCHANGED revoker PROVE ServerInv'
  <2>1. /\ retryer' \in Worker /\ retryer' # Idle /\ retryer'.i = retryer.i
        /\ retryer'.lock = retryer.lock /\ retryer'.clt = retryer.clt
    BY <1>0, <1>3, WorkerFacts
  <2>2. RevokerIn' /\ RetryerIn'
    BY <1>3, <2>1, Zenon DEF ServerInv, RevokerIn, RetryerIn, Idle
  <2> QED
    BY <1>0, <1>1, <1>3, <2>1, <2>2, Zenon DEF ServerInv
<1> QED
  BY <1>2, <1>3, Zenon

-----------------------------------------------------------------------------
(* The threads of a lock client. *)

(***************************************************************************)
(* The threads of a client.  What the properties need besides themselves:  *)
(* the types, that a thread wants a lock exactly while it is not idle, and *)
(* that it has a call out exactly while it is in the acquire RPC.          *)
(***************************************************************************)
ThreadTypeOK ==
    /\ state \in [Client -> [Lock -> LockState]]
    /\ waiting_threads \in [Client -> [Lock -> Seq(Thread)]]
    /\ to_be_revoked \in [Client -> [Lock -> BOOLEAN]]
    /\ retry_received \in [Client -> [Lock -> BOOLEAN]]
    /\ pc \in [Client -> [Thread -> PC]]
    /\ wants \in [Client -> [Thread -> Lock \cup {NoLock}]]
    /\ call \in [Client -> [Caller -> CallState]]

IdleWantsNothing ==
    \A c \in Client, t \in Thread : pc[c][t] = "idle" <=> wants[c][t] = NoLock

CallsWhileCalling ==
    \A c \in Client, t \in Thread : call[c][t] = NoCall <=> pc[c][t] # "calling"

ThreadInv ==
    /\ ThreadTypeOK
    /\ IdleWantsNothing
    /\ CallsWhileCalling
    /\ QueuedWhileAcquiring
    /\ FirstThreadTalks
    /\ NoLostWakeup

threadVars == <<state, waiting_threads, to_be_revoked, retry_received, pc, wants, call>>

(***************************************************************************)
(* A thread that is inside acquire is in a list that is not empty.         *)
(***************************************************************************)
LEMMA QueueOfThread ==
    ASSUME ThreadInv, NEW c \in Client, NEW t \in Thread, pc[c][t] \in InAcquire
    PROVE  /\ wants[c][t] \in Lock
           /\ waiting_threads[c][wants[c][t]] \in Seq(Thread)
           /\ waiting_threads[c][wants[c][t]] # <<>>
           /\ NoRepeats(waiting_threads[c][wants[c][t]])
           /\ t \in Range(waiting_threads[c][wants[c][t]])
<1>1. wants[c][t] \in Lock
  BY DEF ThreadInv, ThreadTypeOK, IdleWantsNothing, InAcquire
<1>2. waiting_threads[c][wants[c][t]] \in Seq(Thread)
  BY <1>1 DEF ThreadInv, ThreadTypeOK
<1>3. t \in Range(waiting_threads[c][wants[c][t]])
  BY <1>1, Zenon DEF ThreadInv, QueuedWhileAcquiring
<1>4. waiting_threads[c][wants[c][t]] # <<>>
  BY <1>3 DEF Range
<1>5. NoRepeats(waiting_threads[c][wants[c][t]])
  BY <1>1, Zenon DEF ThreadInv, QueuedWhileAcquiring, NoRepeats
<1> QED
  BY <1>1, <1>2, <1>3, <1>4, <1>5, Zenon

(***************************************************************************)
(* The situation in which a thread t of client c enters the loop of        *)
(* acquire for lock l, q being the list and s the states: t is in the list *)
(* with everybody else who is inside acquire for l, the head is who it     *)
(* was, and a state that is not the client's is the NONE of a RETRY to the *)
(* first thread.                                                           *)
(***************************************************************************)
AtLoop(c, t, l, q, s) ==
    /\ pc[c][t] \in InAcquire \cup {"idle"}
    /\ pc[c][t] # "idle" => wants[c][t] = l
    /\ q \in Seq(Thread)
    /\ q # <<>>
    /\ NoRepeats(q)
    /\ Range(q) = Range(waiting_threads[c][l]) \cup {t}
    /\ waiting_threads[c][l] # <<>> => Head(q) = Head(waiting_threads[c][l])
    /\ s = state \/ (s = [state EXCEPT ![c][l] = "NONE"] /\ Head(q) = t)
    /\ wants' = [wants EXCEPT ![c][t] = l]
    /\ UNCHANGED to_be_revoked

(***************************************************************************)
(* The ways t leaves it: to sleep, to wait for a retry, into the RPC, or   *)
(* out of acquire with the lock.  p is where t is then, q2 the list, st    *)
(* the state of l, rr its retry_received and m the call of t.              *)
(***************************************************************************)
Leaves(c, t, l, q, s, p, q2, st, rr) ==
    \/ /\ p = "asleep" /\ q2 = q /\ st = s[c][l] /\ rr = retry_received[c][l]
       /\ Blocked(c, t, l, q, s)
    \/ /\ p = "retrysleep" /\ q2 = q /\ st = s[c][l] /\ rr = retry_received[c][l]
       /\ ~ retry_received[c][l] /\ Head(q) = t
    \/ p = "calling" /\ q2 = q /\ st = "ACQUIRING" /\ rr = FALSE /\ Head(q) = t
    \/ /\ p = "holding" /\ q2 = Tail(q) /\ st = "LOCKED" /\ rr = retry_received[c][l]
       /\ Head(q) = t

Moves(c, t, l, s, p, q2, st, rr, m) ==
    /\ m = NoCall <=> p # "calling"
    /\ pc' = [pc EXCEPT ![c][t] = p]
    /\ waiting_threads' = [waiting_threads EXCEPT ![c][l] = q2]
    /\ state' = [s EXCEPT ![c][l] = st]
    /\ retry_received' = [retry_received EXCEPT ![c][l] = rr]
    /\ call' = [call EXCEPT ![c][t] = m]

(***************************************************************************)
(* The states the loop works on.                                           *)
(***************************************************************************)
LEMMA LoopStates ==
    ASSUME ThreadInv, NEW c \in Client, NEW t \in Thread, NEW l \in Lock, NEW q, NEW s,
           AtLoop(c, t, l, q, s)
    PROVE  /\ s \in [Client -> [Lock -> LockState]]
           /\ \A d \in Client, k \in Lock : d # c \/ k # l => s[d][k] = state[d][k]
           /\ s[c][l] = state[c][l] \/ Head(q) = t
<1>1. CASE s = state
  BY <1>1, Zenon DEF ThreadInv, ThreadTypeOK
<1>2. CASE s = [state EXCEPT ![c][l] = "NONE"] /\ Head(q) = t
  BY <1>2, Zenon DEF ThreadInv, ThreadTypeOK, LockState
<1> QED
  BY <1>1, <1>2, Zenon DEF AtLoop

(***************************************************************************)
(* However it leaves, the invariant of the threads is kept.                *)
(***************************************************************************)
LEMMA LeavingKeepsThreadInv ==
    ASSUME ThreadInv, NEW c \in Client, NEW t \in Thread, NEW l \in Lock, NEW q, NEW s,
           NEW p, NEW q2, NEW st, NEW rr, NEW m \in CallState,
           AtLoop(c, t, l, q, s),
           Leaves(c, t, l, q, s, p, q2, st, rr),
           Moves(c, t, l, s, p, q2, st, rr, m)
    PROVE  ThreadInv'
<1> USE ProtocolAssumption
<1>1. /\ s \in [Client -> [Lock -> LockState]]
      /\ \A d \in Client, k \in Lock : d # c \/ k # l => s[d][k] = state[d][k]
      /\ s[c][l] = state[c][l] \/ Head(q) = t
  BY LoopStates
<1>2. /\ t \in Caller /\ t # Releaser
      /\ \A u \in Thread : u \in Caller
  BY Zenon DEF Caller
<1>3. \A u \in Thread : u \in Range(q) <=> u = t \/ (wants[c][u] = l /\ pc[c][u] \in InAcquire)
  BY Zenon DEF AtLoop, ThreadInv, QueuedWhileAcquiring
<1>4. /\ wants' \in [Client -> [Thread -> Lock \cup {NoLock}]]
      /\ wants'[c][t] = l
      /\ \A d \in Client, u \in Thread : d # c \/ u # t => wants'[d][u] = wants[d][u]
  BY SMTT(30) DEF AtLoop, ThreadInv, ThreadTypeOK
<1>5. \A u \in Thread : wants[c][u] = l /\ pc[c][u] \in InAcquire => waiting_threads[c][l] # <<>>
  BY QueueOfThread, Zenon
<1>6. /\ q2 \in Seq(Thread)
      /\ NoRepeats(q2)
      /\ Range(q2) = IF p = "holding" THEN Range(q) \ {t} ELSE Range(q)
      /\ p # "holding" => q2 = q
      /\ p \in {"asleep", "retrysleep", "calling", "holding"}
      /\ p # "asleep" => Head(q) = t
      /\ st \in LockState
      /\ rr \in BOOLEAN
  <2>1. /\ Tail(q) \in Seq(Thread)
        /\ Range(Tail(q)) = Range(q) \ {Head(q)}
        /\ NoRepeats(Tail(q))
    BY TailFacts, Zenon DEF AtLoop
  <2>2. s[c][l] \in LockState /\ retry_received[c][l] \in BOOLEAN
    BY <1>1 DEF ThreadInv, ThreadTypeOK
  <2> QED
    BY <2>1, <2>2, ZenonT(60) DEF Leaves, AtLoop, LockState
<1>7. /\ pc' \in [Client -> [Thread -> PC]]
      /\ pc'[c][t] = p
      /\ \A d \in Client, u \in Thread : d # c \/ u # t => pc'[d][u] = pc[d][u]
  BY <1>6, Zenon DEF Moves, ThreadInv, ThreadTypeOK, PC
<1>8. /\ waiting_threads' \in [Client -> [Lock -> Seq(Thread)]]
      /\ waiting_threads'[c][l] = q2
      /\ \A d \in Client, k \in Lock :
            d # c \/ k # l => waiting_threads'[d][k] = waiting_threads[d][k]
  BY <1>6, Zenon DEF Moves, ThreadInv, ThreadTypeOK
<1>9. /\ call' \in [Client -> [Caller -> CallState]]
      /\ call'[c][t] = m
      /\ \A d \in Client, u \in Thread : d # c \/ u # t => call'[d][u] = call[d][u]
  BY <1>2, Zenon DEF Moves, ThreadInv, ThreadTypeOK
<1>10. /\ state' \in [Client -> [Lock -> LockState]]
       /\ state'[c][l] = st
       /\ \A d \in Client, k \in Lock : d # c \/ k # l => state'[d][k] = state[d][k]
  BY <1>1, <1>6 DEF Moves
<1>11. /\ retry_received' \in [Client -> [Lock -> BOOLEAN]]
       /\ retry_received'[c][l] = rr
       /\ \A d \in Client, k \in Lock :
             d # c \/ k # l => retry_received'[d][k] = retry_received[d][k]
  BY <1>6, Zenon DEF Moves, ThreadInv, ThreadTypeOK
<1>12. ThreadTypeOK'
  BY <1>4, <1>7, <1>8, <1>9, <1>10, <1>11, ZenonT(60)
     DEF AtLoop, ThreadInv, ThreadTypeOK, LockState, PC, CallState, Caller
<1>13. IdleWantsNothing' /\ CallsWhileCalling'
  <2>1. IdleWantsNothing'
    BY <1>4, <1>6, <1>7 DEF ThreadInv, IdleWantsNothing
  <2>2. CallsWhileCalling'
    BY <1>7, <1>9, SMTT(30) DEF Moves, ThreadInv, CallsWhileCalling, NoCall
  <2> QED
    BY <2>1, <2>2, Zenon
<1>14. QueuedWhileAcquiring'
  <2> SUFFICES ASSUME NEW d \in Client, NEW k \in Lock
               PROVE  /\ \A u \in Thread : u \in Range(waiting_threads'[d][k])
                                              <=> wants'[d][u] = k /\ pc'[d][u] \in InAcquire
                      /\ NoRepeats(waiting_threads'[d][k])
    BY Zenon DEF QueuedWhileAcquiring, NoRepeats, InAcquire, Range
  <2>1. CASE d = c /\ k = l
    <3>1. ASSUME NEW u \in Thread
          PROVE  u \in Range(q2) <=> wants'[c][u] = l /\ pc'[c][u] \in InAcquire
      <4>1. CASE u = t
        BY <1>3, <1>4, <1>6, <1>7, <4>1, ZenonT(30) DEF InAcquire
      <4>2. CASE u # t
        BY <1>3, <1>4, <1>6, <1>7, <4>2, SMTT(30)
      <4> QED
        BY <4>1, <4>2, Zenon
    <3> QED
      BY <1>6, <1>8, <2>1, <3>1, Zenon
  <2>2. CASE d # c \/ k # l
    <3>1. waiting_threads'[d][k] = waiting_threads[d][k]
      BY <1>8, <2>2, Zenon
    <3>2. \A u \in Thread : wants'[d][u] = k /\ pc'[d][u] \in InAcquire
                             <=> wants[d][u] = k /\ pc[d][u] \in InAcquire
      BY <1>4, <1>7, <2>2, SMTT(30) DEF AtLoop, InAcquire
    <3> QED
      BY <3>1, <3>2 DEF ThreadInv, QueuedWhileAcquiring, NoRepeats
  <2> QED
    BY <2>1, <2>2, Zenon
<1>15. FirstThreadTalks'
  <2> SUFFICES ASSUME NEW d \in Client, NEW u \in Thread,
                      pc'[d][u] \in {"calling", "retrysleep", "retryawake"}
               PROVE  Head(waiting_threads'[d][wants'[d][u]]) = u
    BY SMTT(30) DEF FirstThreadTalks
  <2>1. CASE d = c /\ u = t
    BY <1>4, <1>6, <1>7, <1>8, <2>1, ZenonT(30)
  <2>2. CASE d # c \/ u # t
    <3>1. pc[d][u] \in {"calling", "retrysleep", "retryawake"} /\ wants'[d][u] = wants[d][u]
      BY <1>4, <1>7, <2>2, ZenonT(30)
    <3>2. Head(waiting_threads[d][wants[d][u]]) = u /\ wants[d][u] \in Lock
      BY <3>1, QueueOfThread, ZenonT(30) DEF ThreadInv, FirstThreadTalks, InAcquire
    <3>3. CASE d = c /\ wants[d][u] = l
      BY <1>5, <1>6, <1>8, <2>2, <3>1, <3>2, <3>3, ZenonT(30) DEF AtLoop, InAcquire
    <3>4. CASE d # c \/ wants[d][u] # l
      BY <1>8, <3>1, <3>2, <3>4, ZenonT(30)
    <3> QED
      BY <3>3, <3>4, ZenonT(30)
  <2> QED
    BY <2>1, <2>2, ZenonT(30)
<1>16. NoLostWakeup'
  <2>0. UNCHANGED to_be_revoked
    BY SMTT(30) DEF AtLoop
  <2>1. ASSUME NEW d \in Client, NEW u \in Thread, pc'[d][u] = "retrysleep"
        PROVE  ~ retry_received'[d][wants'[d][u]]
    <3>1. CASE d = c /\ u = t
      BY <1>4, <1>7, <1>11, <2>1, <3>1, ZenonT(30) DEF Leaves
    <3>2. CASE d # c \/ u # t
      <4>1. pc[d][u] = "retrysleep" /\ wants'[d][u] = wants[d][u] /\ wants[d][u] \in Lock
        BY <1>4, <1>7, <2>1, <3>2, QueueOfThread, ZenonT(30) DEF InAcquire
      <4> QED
        BY <1>6, <1>11, <4>1 DEF ThreadInv, NoLostWakeup, Leaves
    <3> QED
      BY <3>1, <3>2, Zenon
  <2>2. ASSUME NEW d \in Client, NEW u \in Thread, pc'[d][u] = "asleep"
        PROVE  Blocked(d, u, wants[d][u], waiting_threads[d][wants[d][u]], state)'
    <3>1. CASE d = c /\ u = t
      BY <1>4, <1>6, <1>7, <1>8, <1>10, <2>0, <2>2, <3>1, ZenonT(30) DEF Leaves, Blocked
    <3>2. CASE d # c \/ u # t
      <4>1. pc[d][u] = "asleep" /\ wants'[d][u] = wants[d][u] /\ wants[d][u] \in Lock
        BY <1>4, <1>7, <2>2, <3>2, QueueOfThread, ZenonT(30) DEF InAcquire
      <4>2. Blocked(d, u, wants[d][u], waiting_threads[d][wants[d][u]], state)
        BY <4>1, ZenonT(30) DEF ThreadInv, NoLostWakeup
      <4>3. CASE d # c \/ wants[d][u] # l
        BY <1>8, <1>10, <2>0, <4>1, <4>2, <4>3 DEF Blocked
      <4>4. CASE d = c /\ wants[d][u] = l
        <5>1. Head(q) = Head(waiting_threads[c][l])
          BY <1>5, <4>1, <4>4, Zenon DEF AtLoop, InAcquire
        <5>2. CASE p \in {"calling", "holding"}
          BY <1>6, <1>10, <4>1, <4>4, <5>2, ZenonT(30) DEF Leaves, Blocked
        <5>3. CASE p \in {"asleep", "retrysleep"}
          BY <1>1, <1>6, <1>8, <1>10, <2>0, <3>2, <4>1, <4>2, <4>4, <5>1, <5>3, SMTT(30)
             DEF Leaves, Blocked
        <5> QED
          BY <1>6, <5>2, <5>3, Zenon
      <4> QED
        BY <4>3, <4>4, ZenonT(30)
    <3> QED
      BY <3>1, <3>2, ZenonT(30)
  <2> QED
    BY <2>1, <2>2, ZenonT(30) DEF NoLostWakeup, Blocked
<1> QED
  BY <1>12, <1>13, <1>14, <1>15, <1>16, Zenon DEF ThreadInv

(***************************************************************************)
(* One turn of the loop of acquire.                                        *)
(***************************************************************************)
LEMMA LoopKeepsThreadInv ==
    ASSUME ThreadInv, NEW c \in Client, NEW t \in Thread, NEW l \in Lock, NEW q, NEW s,
           AtLoop(c, t, l, q, s), Loop(c, t, l, q, s)
    PROVE  ThreadInv'
<1>0. /\ s = [s EXCEPT ![c][l] = s[c][l]]
      /\ retry_received = [retry_received EXCEPT ![c][l] = retry_received[c][l]]
  <2>1. s \in [Client -> [Lock -> LockState]]
    BY LoopStates, Zenon
  <2> QED
    BY <2>1, Zenon DEF ThreadInv, ThreadTypeOK
<1>1. NoCall \in CallState /\ Sent("acquire", l) \in CallState /\ Sent("acquire", l) # NoCall
  BY SMTT(30) DEF CallState, NoCall, Sent, Op
<1>2. CASE Sleep(c, t, l, q, s)
  <2>1. Leaves(c, t, l, q, s, "asleep", q, s[c][l], retry_received[c][l])
    BY <1>2, Zenon DEF Sleep, Leaves
  <2>2. Moves(c, t, l, s, "asleep", q, s[c][l], retry_received[c][l], NoCall)
    BY <1>0, <1>2, Zenon DEF Sleep, Moves
  <2> QED
    BY <1>1, <2>1, <2>2, LeavingKeepsThreadInv, ZenonT(30)
<1>3. CASE CallServer(c, t, l, q, s)
  <2>1. Leaves(c, t, l, q, s, "calling", q, "ACQUIRING", FALSE)
    BY <1>3, Zenon DEF CallServer, Leaves, Blocked
  <2>2. Moves(c, t, l, s, "calling", q, "ACQUIRING", FALSE, Sent("acquire", l))
    BY <1>1, <1>3, Zenon DEF CallServer, Moves
  <2> QED
    BY <1>1, <2>1, <2>2, LeavingKeepsThreadInv, ZenonT(60)
<1>4. CASE TakeFree(c, t, l, q, s)
  <2>1. Leaves(c, t, l, q, s, "holding", Tail(q), "LOCKED", retry_received[c][l])
    BY <1>4, Zenon DEF TakeFree, Leaves, Blocked
  <2>2. Moves(c, t, l, s, "holding", Tail(q), "LOCKED", retry_received[c][l], NoCall)
    BY <1>0, <1>4, Zenon DEF TakeFree, Moves
  <2> QED
    BY <1>1, <2>1, <2>2, LeavingKeepsThreadInv, Zenon
<1> QED
  BY <1>2, <1>3, <1>4, Zenon DEF Loop

(***************************************************************************)
(* The first thread waits for a retry, or goes round the loop.             *)
(***************************************************************************)
LEMMA AwaitRetryKeepsThreadInv ==
    ASSUME ThreadInv, NEW c \in Client, NEW t \in Thread, NEW l \in Lock, NEW s,
           AtLoop(c, t, l, waiting_threads[c][l], s), Head(waiting_threads[c][l]) = t,
           AwaitRetry(c, t, l, s)
    PROVE  ThreadInv'
<1> DEFINE q == waiting_threads[c][l]
<1>1. CASE retry_received[c][l]
  BY <1>1, LoopKeepsThreadInv, Zenon DEF AwaitRetry
<1>2. CASE ~ retry_received[c][l]
  <2>1. Leaves(c, t, l, q, s, "retrysleep", q, s[c][l], retry_received[c][l])
    BY <1>2, Zenon DEF Leaves
  <2>2. /\ s = [s EXCEPT ![c][l] = s[c][l]]
        /\ retry_received = [retry_received EXCEPT ![c][l] = retry_received[c][l]]
        /\ waiting_threads = [waiting_threads EXCEPT ![c][l] = q]
    <3>1. s \in [Client -> [Lock -> LockState]]
      BY LoopStates, Zenon
    <3> QED
      BY <3>1, Zenon DEF ThreadInv, ThreadTypeOK
  <2>3. Moves(c, t, l, s, "retrysleep", q, s[c][l], retry_received[c][l], NoCall)
    BY <1>2, <2>2, Zenon DEF AwaitRetry, Moves
  <2>4. NoCall \in CallState
    BY Zenon DEF CallState
  <2> QED
    BY <2>1, <2>3, <2>4, LeavingKeepsThreadInv, Zenon
<1> QED
  BY <1>1, <1>2, Zenon

(***************************************************************************)
(* A thread inside acquire, awake or back from the RPC, is at the loop.    *)
(***************************************************************************)
LEMMA InsideIsAtLoop ==
    ASSUME ThreadInv, NEW c \in Client, NEW t \in Thread, NEW l, pc[c][t] \in InAcquire,
           wants[c][t] = l, UNCHANGED <<wants, to_be_revoked>>
    PROVE  /\ l \in Lock
           /\ AtLoop(c, t, l, waiting_threads[c][l], state)
           /\ Head(waiting_threads[c][l]) = t
                 => AtLoop(c, t, l, waiting_threads[c][l], [state EXCEPT ![c][l] = "NONE"])
<1>1. /\ l \in Lock
      /\ waiting_threads[c][l] \in Seq(Thread)
      /\ waiting_threads[c][l] # <<>>
      /\ NoRepeats(waiting_threads[c][l])
      /\ t \in Range(waiting_threads[c][l])
  BY QueueOfThread, Zenon
<1>2. wants' = [wants EXCEPT ![c][t] = l]
  BY SMTT(30) DEF ThreadInv, ThreadTypeOK
<1>3. Range(waiting_threads[c][l]) = Range(waiting_threads[c][l]) \cup {t}
  BY <1>1, Zenon
<1> QED
  BY <1>1, <1>2, <1>3, ZenonT(60) DEF AtLoop, InAcquire

(***************************************************************************)
(* The steps of acquire.                                                   *)
(***************************************************************************)
LEMMA AcquireKeepsThreadInv ==
    ASSUME ThreadInv, NEW c \in Client, NEW t \in Thread
    PROVE  /\ \A l \in Lock : AcquireEnter(c, t, l) => ThreadInv'
           /\ AcquireWake(c, t) => ThreadInv'
           /\ RetryWake(c, t) => ThreadInv'
           /\ AcquireReturn(c, t) => ThreadInv'
<1>1. ASSUME NEW l \in Lock, AcquireEnter(c, t, l) PROVE ThreadInv'
  <2> DEFINE q == AppendNew(waiting_threads[c][l], t)
  <2>1. waiting_threads[c][l] \in Seq(Thread) /\ NoRepeats(waiting_threads[c][l])
    BY SMTT(30) DEF ThreadInv, ThreadTypeOK, QueuedWhileAcquiring, NoRepeats
  <2>2. /\ q \in Seq(Thread)
        /\ Range(q) = Range(waiting_threads[c][l]) \cup {t}
        /\ Len(waiting_threads[c][l]) =< Len(q)
        /\ \A i \in 1 .. Len(waiting_threads[c][l]) : q[i] = waiting_threads[c][l][i]
        /\ NoRepeats(q)
    <3> DEFINE w == waiting_threads[c][l]
    <3>1. w \in Seq(Thread) /\ NoRepeats(w)
      BY <2>1, Zenon
    <3> HIDE DEF w
    <3>2. /\ AppendNew(w, t) \in Seq(Thread)
          /\ Range(AppendNew(w, t)) = Range(w) \cup {t}
          /\ Len(w) =< Len(AppendNew(w, t))
          /\ \A i \in 1 .. Len(w) : AppendNew(w, t)[i] = w[i]
          /\ NoRepeats(AppendNew(w, t))
      BY <3>1, AppendNewFacts
    <3> QED
      BY <3>2, Zenon DEF w
  <2> HIDE DEF q
  <2>3. q # <<>>
    BY <2>2 DEF Range
  <2>4. waiting_threads[c][l] # <<>> => Head(q) = Head(waiting_threads[c][l])
    BY <2>1, <2>2, <2>3
  <2>5. AtLoop(c, t, l, q, state)
    BY <1>1, <2>2, <2>3, <2>4, Zenon DEF AcquireEnter, AtLoop
  <2> QED
    BY <1>1, <2>5, LoopKeepsThreadInv, Zenon DEF AcquireEnter, q
<1>2. ASSUME AcquireWake(c, t) PROVE ThreadInv'
  <2> DEFINE l == wants[c][t]
  <2>1. l \in Lock /\ AtLoop(c, t, l, waiting_threads[c][l], state)
    <3>1. pc[c][t] \in InAcquire /\ UNCHANGED <<wants, to_be_revoked>>
      BY <1>2, Zenon DEF AcquireWake, InAcquire
    <3> QED
      BY <3>1, InsideIsAtLoop, ZenonT(60)
  <2>2. Loop(c, t, l, waiting_threads[c][l], state)
    BY <1>2, Zenon DEF AcquireWake
  <2> QED
    BY <2>1, <2>2, LoopKeepsThreadInv, Zenon
<1>3. ASSUME RetryWake(c, t) PROVE ThreadInv'
  <2>1. Head(waiting_threads[c][wants[c][t]]) = t
    BY <1>3, Zenon DEF RetryWake, ThreadInv, FirstThreadTalks
  <2> DEFINE l == wants[c][t]
  <2>2. l \in Lock /\ AtLoop(c, t, l, waiting_threads[c][l], state)
    <3>1. pc[c][t] \in InAcquire /\ UNCHANGED <<wants, to_be_revoked>>
      BY <1>3, Zenon DEF RetryWake, InAcquire
    <3> QED
      BY <3>1, InsideIsAtLoop, ZenonT(60)
  <2>3. AwaitRetry(c, t, l, state)
    BY <1>3, Zenon DEF RetryWake
  <2> QED
    BY <2>1, <2>2, <2>3, AwaitRetryKeepsThreadInv, Zenon
<1>4. ASSUME AcquireReturn(c, t) PROVE ThreadInv'
  <2> DEFINE l == wants[c][t]
  <2>1. pc[c][t] = "calling"
    BY <1>4 DEF AcquireReturn, ThreadInv, CallsWhileCalling, NoCall
  <2>2. Head(waiting_threads[c][l]) = t
    BY <2>1, Zenon DEF ThreadInv, FirstThreadTalks
  <2>3. /\ l \in Lock
        /\ AtLoop(c, t, l, waiting_threads[c][l], state)
        /\ AtLoop(c, t, l, waiting_threads[c][l], [state EXCEPT ![c][l] = "NONE"])
    BY <1>4, <2>1, <2>2, InsideIsAtLoop, SMTT(30) DEF AcquireReturn, InAcquire
  <2>4. CASE AcquireOK(c, t, l)
    <3> DEFINE q == waiting_threads[c][l]
    <3>1. Leaves(c, t, l, q, state, "holding", Tail(q), "LOCKED", retry_received[c][l])
      BY <2>2, Zenon DEF Leaves
    <3>2. retry_received = [retry_received EXCEPT ![c][l] = retry_received[c][l]]
      BY <2>3, Zenon DEF ThreadInv, ThreadTypeOK
    <3>3. Moves(c, t, l, state, "holding", Tail(q), "LOCKED", retry_received[c][l], NoCall)
      BY <2>4, <3>2, Zenon DEF AcquireOK, Moves
    <3>4. NoCall \in CallState
      BY SMTT(30) DEF CallState
    <3> QED
      BY <2>3, <3>1, <3>3, <3>4, LeavingKeepsThreadInv, Zenon
  <2>5. CASE AcquireRetry(c, t, l)
    BY <2>2, <2>3, <2>5, AwaitRetryKeepsThreadInv, Zenon DEF AcquireRetry
  <2>6. CASE AcquireFailed(c, t, l)
    BY <2>3, <2>6, LoopKeepsThreadInv, Zenon DEF AcquireFailed
  <2> QED
    BY <1>4, <2>4, <2>5, <2>6, Zenon DEF AcquireReturn
<1> QED
  BY <1>1, <1>2, <1>3, <1>4, Zenon

(***************************************************************************)
(* Every other step that the threads of a client can see: the sleepers on  *)
(* the locks of L are woken at client c, the holders in T go idle, and a   *)
(* lock whose sleepers are not woken gives none of them a reason to run.   *)
(***************************************************************************)
Wakes(c, L, T) ==
    /\ state' \in [Client -> [Lock -> LockState]]
    /\ to_be_revoked' \in [Client -> [Lock -> BOOLEAN]]
    /\ retry_received' \in [Client -> [Lock -> BOOLEAN]]
    /\ pc' \in [Client -> [Thread -> PC]]
    /\ wants' \in [Client -> [Thread -> Lock \cup {NoLock}]]
    /\ call' \in [Client -> [Caller -> CallState]]
    /\ UNCHANGED waiting_threads
    /\ \A u \in T : pc[c][u] = "holding"
    /\ \A d \in Client, u \in Thread :
          IF d = c /\ u \in T
          THEN pc'[d][u] = "idle" /\ wants'[d][u] = NoLock
          ELSE /\ pc'[d][u] = IF d = c /\ wants[d][u] \in L THEN Woken(pc[d][u]) ELSE pc[d][u]
               /\ wants'[d][u] = wants[d][u]
    /\ \A d \in Client, u \in Thread : call'[d][u] = NoCall <=> call[d][u] = NoCall
    /\ \A d \in Client, k \in Lock : d # c \/ k \notin L =>
          /\ state'[d][k] \in {"NONE", "FREE"} => state[d][k] \in {"NONE", "FREE"}
          /\ to_be_revoked[d][k] => to_be_revoked'[d][k]
          /\ retry_received'[d][k] => retry_received[d][k]

\* Waking the threads that wait for locks keeps the invariant of the threads.
LEMMA WakingKeepsThreadInv ==
    ASSUME ThreadInv, NEW c \in Client, NEW L, NEW T, Wakes(c, L, T)
    PROVE  ThreadInv'
<1> USE ProtocolAssumption
<1>0. UNCHANGED waiting_threads
  BY Zenon DEF Wakes
<1>1. ThreadTypeOK'
  <2>1. waiting_threads' \in [Client -> [Lock -> Seq(Thread)]]
    BY <1>0, Zenon DEF ThreadInv, ThreadTypeOK
  <2>2. /\ state' \in [Client -> [Lock -> LockState]]
        /\ to_be_revoked' \in [Client -> [Lock -> BOOLEAN]]
        /\ retry_received' \in [Client -> [Lock -> BOOLEAN]]
        /\ pc' \in [Client -> [Thread -> PC]]
        /\ wants' \in [Client -> [Thread -> Lock \cup {NoLock}]]
        /\ call' \in [Client -> [Caller -> CallState]]
    BY SMTT(30) DEF Wakes
  <2> QED
    BY <2>1, <2>2, Zenon DEF ThreadTypeOK, LockState, PC, CallState, Caller, NoCall, Op, Status
<1>2. ASSUME NEW d \in Client, NEW u \in Thread
      PROVE  \/ /\ pc[d][u] = "holding" /\ pc'[d][u] = "idle" /\ wants'[d][u] = NoLock
             \/ /\ wants'[d][u] = wants[d][u]
                /\ \/ pc'[d][u] = pc[d][u] /\ (d # c \/ wants[d][u] \notin L
                                                  \/ pc[d][u] \notin {"asleep", "retrysleep"})
                   \/ pc[d][u] = "asleep" /\ pc'[d][u] = "awake"
                   \/ pc[d][u] = "retrysleep" /\ pc'[d][u] = "retryawake"
  <2>1. CASE d = c /\ u \in T
    BY <2>1, Zenon DEF Wakes
  <2>2. CASE ~ (d = c /\ u \in T)
    <3>1. /\ wants'[d][u] = wants[d][u]
          /\ pc'[d][u] = IF d = c /\ wants[d][u] \in L THEN Woken(pc[d][u]) ELSE pc[d][u]
      BY <2>2 DEF Wakes
    <3>2. pc[d][u] \in PC
      BY DEF ThreadInv, ThreadTypeOK
    <3> QED
      BY <3>1, <3>2, Zenon DEF Woken, PC
  <2> QED
    BY <2>1, <2>2, Zenon
<1>3. IdleWantsNothing'
  BY <1>2 DEF ThreadInv, IdleWantsNothing
<1>4. CallsWhileCalling'
  <2>1. \A d \in Client, u \in Thread : pc'[d][u] = "calling" <=> pc[d][u] = "calling"
    BY <1>2, Zenon
  <2>2. \A d \in Client, u \in Thread : call'[d][u] = NoCall <=> call[d][u] = NoCall
    BY Zenon DEF Wakes
  <2> QED
    BY <2>1, <2>2 DEF ThreadInv, CallsWhileCalling, NoCall
<1>5. QueuedWhileAcquiring'
  <2>1. \A d \in Client, u \in Thread, k \in Lock :
           wants'[d][u] = k /\ pc'[d][u] \in InAcquire
              <=> wants[d][u] = k /\ pc[d][u] \in InAcquire
    BY <1>2 DEF InAcquire
  <2> QED
    BY <1>0, <2>1 DEF ThreadInv, QueuedWhileAcquiring, InAcquire, Range
<1>6. FirstThreadTalks'
  BY <1>0, <1>2, SMTT(30) DEF ThreadInv, FirstThreadTalks
<1>7. NoLostWakeup'
  <2> SUFFICES ASSUME NEW d \in Client, NEW u \in Thread
               PROVE  /\ pc'[d][u] = "asleep"
                           => Blocked(d, u, wants[d][u], waiting_threads[d][wants[d][u]], state)'
                      /\ pc'[d][u] = "retrysleep" => ~ retry_received'[d][wants'[d][u]]
    BY SMTT(30) DEF NoLostWakeup
  <2>1. ASSUME pc'[d][u] \in {"asleep", "retrysleep"}
        PROVE  /\ pc[d][u] = pc'[d][u] /\ wants'[d][u] = wants[d][u]
               /\ wants[d][u] \in Lock
               /\ d # c \/ wants[d][u] \notin L
    <3>1. /\ pc[d][u] = pc'[d][u] /\ wants'[d][u] = wants[d][u]
          /\ d # c \/ wants[d][u] \notin L
      BY <1>2, <2>1, SMTT(30)
    <3> QED
      BY <2>1, <3>1, QueueOfThread, Zenon DEF InAcquire
  <2>2. ASSUME pc'[d][u] = "asleep"
        PROVE  Blocked(d, u, wants[d][u], waiting_threads[d][wants[d][u]], state)'
    <3>1. Blocked(d, u, wants[d][u], waiting_threads[d][wants[d][u]], state)
      BY <2>1, <2>2, ZenonT(30) DEF ThreadInv, NoLostWakeup
    <3>2. /\ state'[d][wants[d][u]] \in {"NONE", "FREE"} => state[d][wants[d][u]] \in {"NONE", "FREE"}
          /\ to_be_revoked[d][wants[d][u]] => to_be_revoked'[d][wants[d][u]]
      BY <2>1, <2>2, SMTT(30) DEF Wakes
    <3> QED
      BY <1>0, <2>1, <2>2, <3>1, <3>2, ZenonT(30) DEF Blocked
  <2>3. ASSUME pc'[d][u] = "retrysleep" PROVE ~ retry_received'[d][wants'[d][u]]
    <3>1. ~ retry_received[d][wants[d][u]]
      BY <2>1, <2>3, Zenon DEF ThreadInv, NoLostWakeup
    <3>2. retry_received'[d][wants[d][u]] => retry_received[d][wants[d][u]]
      BY <2>1, <2>3 DEF Wakes
    <3> QED
      BY <2>1, <2>3, <3>1, <3>2, ZenonT(30)
  <2> QED
    BY <2>2, <2>3, Zenon
<1> QED
  BY <1>1, <1>3, <1>4, <1>5, <1>6, <1>7, Zenon DEF ThreadInv

(***************************************************************************)
(* The releaser of a client: its queue has a lock at most once, its        *)
(* iterator is in the queue exactly while it has a call out, and the call  *)
(* is about the lock the iterator is at.                                   *)
(***************************************************************************)
ReleaserTypeOK ==
    /\ revoke_queue \in [Client -> Seq(Lock)]
    /\ relpos \in [Client -> Nat]
    /\ cached \in [Client -> SUBSET Lock]
    /\ acquires \in 0 .. MaxAcquires

ReleaserAt ==
    \A c \in Client :
       IF relpos[c] = 0
       THEN call[c][Releaser] = NoCall
       ELSE /\ relpos[c] \in 1 .. Len(revoke_queue[c])
            /\ call[c][Releaser] # NoCall
            /\ call[c][Releaser].lock = revoke_queue[c][relpos[c]]

ReleaserInv ==
    /\ ReleaserTypeOK
    /\ ReleaserAt
    /\ \A c \in Client : NoRepeats(revoke_queue[c])
    /\ RevokedIffQueued

(***************************************************************************)
(* What a call that is out says.                                           *)
(***************************************************************************)
LEMMA CallFacts ==
    ASSUME NEW m \in CallState
    PROVE  /\ m = NoCall <=> m.at = "none"
           /\ m # NoCall => m.lock \in Lock /\ m.op \in Op
           /\ \A op \in Op, l \in Lock : Sent(op, l) \in CallState /\ Sent(op, l) # NoCall
           /\ \A op \in Op, l \in Lock, r \in Status :
                 Answer(op, l, r) \in CallState /\ Answer(op, l, r) # NoCall
<1>1. /\ m = NoCall <=> m.at = "none"
      /\ m # NoCall => m.lock \in Lock /\ m.op \in Op
  <2>1. CASE m = NoCall
    BY <2>1, Zenon DEF NoCall
  <2>2. CASE m \in [at : {"sent"}, op : Op, lock : Lock]
    BY <2>2 DEF NoCall
  <2>3. CASE m \in [at : {"done"}, op : Op, lock : Lock, ret : Status]
    BY <2>3 DEF NoCall
  <2> QED
    BY <2>1, <2>2, <2>3, Zenon DEF CallState
<1>2. \A op \in Op, l \in Lock : Sent(op, l) \in CallState /\ Sent(op, l) # NoCall
  BY Zenon DEF CallState, Sent, NoCall
<1>3. \A op \in Op, l \in Lock, r \in Status :
         Answer(op, l, r) \in CallState /\ Answer(op, l, r) # NoCall
  BY SMTT(30) DEF CallState, Answer, NoCall
<1> QED
  BY <1>1, <1>2, <1>3, Zenon

(***************************************************************************)
(* Where the releaser goes from position i of list, s being the states.    *)
(***************************************************************************)
LEMMA ReleaserMoveFacts ==
    ASSUME NEW c \in Client, NEW i \in Nat \ {0}, NEW list \in Seq(Lock),
           NEW s \in [Client -> [Lock -> LockState]],
           relpos \in [Client -> Nat], call \in [Client -> [Caller -> CallState]],
           ReleaserMove(c, i, list, s)
    PROVE  /\ state' \in [Client -> [Lock -> LockState]]
           /\ \A d \in Client, k \in Lock :
                 state'[d][k] \in {"NONE", "FREE"} => state'[d][k] = s[d][k]
           /\ relpos' \in [Client -> Nat]
           /\ call' \in [Client -> [Caller -> CallState]]
           /\ \A d \in Client \ {c} : relpos'[d] = relpos[d] /\ call'[d] = call[d]
           /\ \A u \in Thread : call'[c][u] = call[c][u]
           /\ IF relpos'[c] = 0
              THEN call'[c][Releaser] = NoCall
              ELSE /\ relpos'[c] \in 1 .. Len(list)
                   /\ call'[c][Releaser] # NoCall
                   /\ call'[c][Releaser].lock = list[relpos'[c]]
<1> DEFINE due(l) == Releasable(c, s, l)
           I == {n \in i .. Len(list) : due(list[n])}
           j == FirstOf(I)
<1>1. Releaser \in Caller /\ Releaser \notin Thread /\ \A u \in Thread : u \in Caller
  BY ProtocolAssumption, Zenon DEF Caller
<1>2. j # 0 => j \in I
  BY FirstOfFacts, Zenon
<1>3. j # 0 => j \in 1 .. Len(list)
  <2>1. I \in SUBSET Nat /\ Len(list) \in Nat
    OBVIOUS
  <2> QED
    BY <1>2, <2>1
<1>4. /\ j # 0 => /\ state' = [s EXCEPT ![c][list[j]] = "RELEASING"]
                  /\ relpos' = [relpos EXCEPT ![c] = j]
                  /\ call' = [call EXCEPT ![c][Releaser] = Sent("release", list[j])]
      /\ j = 0 => /\ state' = s
                  /\ relpos' = [relpos EXCEPT ![c] = 0]
                  /\ call' = [call EXCEPT ![c][Releaser] = NoCall]
  BY ZenonT(60) DEF ReleaserMove
<1> HIDE DEF j, I
<1>5. CASE j # 0
  <2>1. j \in 1 .. Len(list) /\ j \in Nat /\ list[j] \in Lock
    BY <1>3, <1>5, SMTT(30)
  <2>2. Sent("release", list[j]) \in CallState /\ Sent("release", list[j]) # NoCall
        /\ Sent("release", list[j]).lock = list[j]
    BY <2>1, Zenon DEF Sent, CallState, NoCall, Op
  <2>3. /\ state' \in [Client -> [Lock -> LockState]]
        /\ \A d \in Client, k \in Lock :
              state'[d][k] \in {"NONE", "FREE"} => state'[d][k] = s[d][k]
    <3>1. state' = [s EXCEPT ![c][list[j]] = "RELEASING"]
      BY <1>4, <1>5, Zenon
    <3>2. "RELEASING" \in LockState
      BY Zenon DEF LockState
    <3> QED
      BY <2>1, <3>1, <3>2, Zenon
  <2>4. relpos' \in [Client -> Nat] /\ relpos'[c] = j
        /\ \A d \in Client \ {c} : relpos'[d] = relpos[d]
    BY <1>4, <1>5, <2>1, ZenonT(60)
  <2>5. /\ call' \in [Client -> [Caller -> CallState]]
        /\ call'[c][Releaser] = Sent("release", list[j])
        /\ \A d \in Client \ {c} : call'[d] = call[d]
        /\ \A u \in Thread : call'[c][u] = call[c][u]
    <3>1. call' = [call EXCEPT ![c][Releaser] = Sent("release", list[j])]
      BY <1>4, <1>5, Zenon
    <3> QED
      BY <1>1, <2>2, <3>1, ZenonT(30)
  <2> QED
    BY <1>5, <2>1, <2>2, <2>3, <2>4, <2>5, Zenon
<1>6. CASE j = 0
  <2>1. NoCall \in CallState
    BY SMTT(30) DEF CallState
  <2>2. relpos' \in [Client -> Nat] /\ relpos'[c] = 0
        /\ \A d \in Client \ {c} : relpos'[d] = relpos[d]
    BY <1>4, <1>6
  <2>3. /\ call' \in [Client -> [Caller -> CallState]]
        /\ call'[c][Releaser] = NoCall
        /\ \A d \in Client \ {c} : call'[d] = call[d]
        /\ \A u \in Thread : call'[c][u] = call[c][u]
    <3>1. call' = [call EXCEPT ![c][Releaser] = NoCall]
      BY <1>4, <1>6, Zenon
    <3> QED
      BY <1>1, <2>1, <3>1, Zenon
  <2> QED
    BY <1>4, <1>6, <2>2, <2>3, ZenonT(30)
<1> QED
  BY <1>5, <1>6, Zenon

(***************************************************************************)
(* pthread_cond_broadcast, thread by thread.                               *)
(***************************************************************************)
LEMMA BroadcastFacts ==
    ASSUME ThreadInv, NEW c \in Client, NEW l
    PROVE  /\ Broadcast(c, l) \in [Client -> [Thread -> PC]]
           /\ \A d \in Client, u \in Thread :
                 Broadcast(c, l)[d][u] =
                    IF d = c /\ wants[d][u] \in {l} THEN Woken(pc[d][u]) ELSE pc[d][u]
<1>1. pc \in [Client -> [Thread -> PC]]
  BY Zenon DEF ThreadInv, ThreadTypeOK
<1>2. \A u \in Thread : Woken(pc[c][u]) \in PC
  <2>1. \A u \in Thread : pc[c][u] \in PC
    BY <1>1, Zenon
  <2> QED
    BY <2>1, Zenon DEF Woken, PC
<1> QED
  BY <1>1, <1>2, Zenon DEF Broadcast

(***************************************************************************)
(* release.                                                                *)
(***************************************************************************)
LEMMA ReleaseKeepsThreadInv ==
    ASSUME ThreadInv, NEW c \in Client, NEW t \in Thread, Release(c, t)
    PROVE  ThreadInv'
<1> DEFINE l == wants[c][t]
<1>1. pc[c][t] = "holding" /\ l \in Lock
  BY DEF Release, ThreadInv, ThreadTypeOK, IdleWantsNothing
<1>2. UNCHANGED waiting_threads
  <2>1. waiting_threads[c][l] \in Seq(Thread) /\ t \notin Range(waiting_threads[c][l])
    <3>1. pc[c][t] \notin InAcquire
      BY <1>1, Zenon DEF InAcquire
    <3>2. t \in Range(waiting_threads[c][l]) <=> wants[c][t] = l /\ pc[c][t] \in InAcquire
      BY <1>1, Zenon DEF ThreadInv, QueuedWhileAcquiring
    <3> QED
      BY <1>1, <3>1, <3>2, SMTT(30) DEF ThreadInv, ThreadTypeOK
  <2>2. Remove(waiting_threads[c][l], t) = waiting_threads[c][l]
    BY <2>1, RemoveAbsent, Zenon
  <2>3. waiting_threads' = [waiting_threads EXCEPT ![c][l] = waiting_threads[c][l]]
    BY <2>2, Zenon DEF Release
  <2> QED
    BY <2>3, Zenon DEF ThreadInv, ThreadTypeOK
<1>3. /\ pc' \in [Client -> [Thread -> PC]]
      /\ pc'[c][t] = "idle"
      /\ \A d \in Client, u \in Thread : d # c \/ u # t =>
            pc'[d][u] = IF d = c /\ wants[d][u] \in {l} THEN Woken(pc[d][u]) ELSE pc[d][u]
  <2>1. pc' = [Broadcast(c, l) EXCEPT ![c][t] = "idle"]
    BY Zenon DEF Release
  <2>2. "idle" \in PC
    BY SMTT(30) DEF PC
  <2> QED
    BY <2>1, <2>2, BroadcastFacts, SMTT(30)
<1>4. /\ wants' \in [Client -> [Thread -> Lock \cup {NoLock}]]
      /\ wants'[c][t] = NoLock
      /\ \A d \in Client, u \in Thread : d # c \/ u # t => wants'[d][u] = wants[d][u]
  BY Zenon DEF Release, ThreadInv, ThreadTypeOK
<1>5. /\ state' \in [Client -> [Lock -> LockState]]
      /\ \A d \in Client, k \in Lock : d # c \/ k \notin {l} => state'[d][k] = state[d][k]
  <2>1. state' = [state EXCEPT ![c][l] = "FREE"] /\ "FREE" \in LockState
    BY Zenon DEF Release, LockState
  <2> QED
    BY <1>1, <2>1, Zenon DEF ThreadInv, ThreadTypeOK
<1>6. UNCHANGED <<to_be_revoked, retry_received, call>>
  BY SMTT(30) DEF Release, rpcVars
<1> HIDE DEF l
<1>7. Wakes(c, {l}, {t})
  BY <1>1, <1>2, <1>3, <1>4, <1>5, <1>6, SMTT(30) DEF Wakes, ThreadInv, ThreadTypeOK
<1> QED
  BY <1>7, WakingKeepsThreadInv, Zenon

(***************************************************************************)
(* What comes before the releaser moves on: l is given back for L = {l},   *)
(* nothing for L = {}; s are the states it moves on with.                  *)
(***************************************************************************)
GivesBack(c, L, s) ==
    /\ s \in [Client -> [Lock -> LockState]]
    /\ \A d \in Client, k \in Lock : d # c \/ k \notin L => s[d][k] = state[d][k]
    /\ to_be_revoked' \in [Client -> [Lock -> BOOLEAN]]
    /\ \A d \in Client, k \in Lock :
          d # c \/ k \notin L => to_be_revoked'[d][k] = to_be_revoked[d][k]
    /\ pc' \in [Client -> [Thread -> PC]]
    /\ \A d \in Client, u \in Thread : pc'[d][u] =
          IF d = c /\ wants[d][u] \in L THEN Woken(pc[d][u]) ELSE pc[d][u]
    /\ UNCHANGED <<waiting_threads, retry_received, wants>>

\* The releaser that gives a lock back keeps the invariant of the threads.
LEMMA GivingBackKeepsThreadInv ==
    ASSUME ThreadInv, ReleaserInv, NEW c \in Client, NEW L, NEW s, NEW i \in Nat \ {0},
           NEW list \in Seq(Lock), GivesBack(c, L, s), ReleaserMove(c, i, list, s)
    PROVE  ThreadInv'
<1>1. /\ relpos \in [Client -> Nat] /\ call \in [Client -> [Caller -> CallState]]
      /\ s \in [Client -> [Lock -> LockState]]
  BY SMTT(30) DEF ThreadInv, ThreadTypeOK, ReleaserInv, ReleaserTypeOK, GivesBack
<1>2. /\ state' \in [Client -> [Lock -> LockState]]
      /\ \A d \in Client, k \in Lock :
            state'[d][k] \in {"NONE", "FREE"} => state'[d][k] = s[d][k]
      /\ call' \in [Client -> [Caller -> CallState]]
      /\ \A d \in Client \ {c} : call'[d] = call[d]
      /\ \A u \in Thread : call'[c][u] = call[c][u]
  BY <1>1, ReleaserMoveFacts, SMTT(30)
<1>3. \A d \in Client, u \in Thread : call'[d][u] = call[d][u]
  BY <1>2, Zenon
<1>4. Wakes(c, L, {})
  BY <1>2, <1>3 DEF GivesBack, Wakes, ThreadInv, ThreadTypeOK
<1> QED
  BY <1>4, WakingKeepsThreadInv, Zenon

(***************************************************************************)
(* The releaser's steps.                                                   *)
(***************************************************************************)
LEMMA ReleaserKeepsThreadInv ==
    ASSUME ThreadInv, ReleaserInv, NEW c \in Client, ReleaserStep(c)
    PROVE  ThreadInv'
<1>0. /\ relpos \in [Client -> Nat] /\ call \in [Client -> [Caller -> CallState]]
      /\ state \in [Client -> [Lock -> LockState]]
      /\ revoke_queue[c] \in Seq(Lock)
  BY Zenon DEF ThreadInv, ThreadTypeOK, ReleaserInv, ReleaserTypeOK
<1>2. CASE ReleaserStart(c)
  <2>1. /\ ReleaserMove(c, 1, revoke_queue[c], state)
        /\ UNCHANGED <<waiting_threads, to_be_revoked, retry_received, pc, wants>>
    BY <1>2, Zenon DEF ReleaserStart
  <2>2. /\ to_be_revoked' \in [Client -> [Lock -> BOOLEAN]]
        /\ pc' \in [Client -> [Thread -> PC]]
        /\ \A d \in Client, u \in Thread : pc'[d][u] =
                IF d = c /\ wants[d][u] \in {} THEN Woken(pc[d][u]) ELSE pc[d][u]
    BY <2>1, Zenon DEF ThreadInv, ThreadTypeOK
  <2>3. GivesBack(c, {}, state)
    BY <1>0, <2>1, <2>2, ZenonT(30) DEF GivesBack
  <2> QED
    BY <1>0, <2>1, <2>3, GivingBackKeepsThreadInv
<1>3. CASE ReleaserReturn(c)
  <2> DEFINE l == call[c][Releaser].lock
  <2>1. /\ l \in Lock /\ relpos[c] \in Nat \ {0} /\ relpos[c] + 1 \in Nat \ {0}
        /\ relpos[c] \in 1 .. Len(revoke_queue[c])
    <3>1. Releaser \in Caller
      BY Zenon DEF Caller
    <3>2. call[c][Releaser] \in CallState /\ call[c][Releaser] # NoCall
      BY <1>0, <1>3, <3>1, SMTT(30) DEF ReleaserReturn, NoCall
    <3>3. relpos[c] # 0 /\ relpos[c] \in 1 .. Len(revoke_queue[c])
      BY <3>2, Zenon DEF ReleaserInv, ReleaserAt
    <3> QED
      BY <1>0, <3>2, <3>3, CallFacts
  <2>2. UNCHANGED <<waiting_threads, retry_received, wants>>
    BY <1>3, Zenon DEF ReleaserReturn
  <2>3. CASE call[c][Releaser].ret = "OK"
    <3> DEFINE s == [state EXCEPT ![c][l] = "NONE"]
               list == Erase(revoke_queue[c], relpos[c])
    <3>1. /\ to_be_revoked' = [to_be_revoked EXCEPT ![c][l] = FALSE]
          /\ revoke_queue' = [revoke_queue EXCEPT ![c] = list]
          /\ pc' = Broadcast(c, l)
          /\ ReleaserMove(c, relpos[c], revoke_queue'[c], s)
      BY <1>3, <2>3, Zenon DEF ReleaserReturn
    <3>2. list \in Seq(Lock)
      BY <1>0, <2>1, EraseFacts, Zenon
    <3> HIDE DEF list
    <3>3. ReleaserMove(c, relpos[c], list, s)
      <4>1. revoke_queue'[c] = list
        BY <3>1, Zenon DEF ReleaserInv, ReleaserTypeOK
      <4> QED
        BY <3>1, <4>1, Zenon
    <3> HIDE DEF l
    <3>4. /\ s \in [Client -> [Lock -> LockState]]
          /\ \A d \in Client, k \in Lock : d # c \/ k \notin {l} => s[d][k] = state[d][k]
      <4>1. "NONE" \in LockState
        BY Zenon DEF LockState
      <4> QED
        BY <1>0, <2>1, <4>1, Zenon
    <3>5. /\ to_be_revoked' \in [Client -> [Lock -> BOOLEAN]]
          /\ \A d \in Client, k \in Lock :
                d # c \/ k \notin {l} => to_be_revoked'[d][k] = to_be_revoked[d][k]
      BY <2>1, <3>1, ZenonT(60) DEF ThreadInv, ThreadTypeOK
    <3>6. /\ pc' \in [Client -> [Thread -> PC]]
          /\ \A d \in Client, u \in Thread : pc'[d][u] =
                IF d = c /\ wants[d][u] \in {l} THEN Woken(pc[d][u]) ELSE pc[d][u]
      BY <3>1, BroadcastFacts, SMTT(30)
    <3> HIDE DEF s
    <3>7. GivesBack(c, {l}, s)
      BY <2>2, <3>4, <3>5, <3>6, Zenon DEF GivesBack
    <3> QED
      BY <2>1, <3>2, <3>3, <3>7, GivingBackKeepsThreadInv, Zenon
  <2>4. CASE call[c][Releaser].ret # "OK"
    <3>1. /\ ReleaserMove(c, relpos[c] + 1, revoke_queue[c], state)
          /\ UNCHANGED <<to_be_revoked, pc>>
      BY <1>3, <2>4, Zenon DEF ReleaserReturn
    <3>2. /\ to_be_revoked' \in [Client -> [Lock -> BOOLEAN]]
          /\ pc' \in [Client -> [Thread -> PC]]
          /\ \A d \in Client, u \in Thread : pc'[d][u] =
                IF d = c /\ wants[d][u] \in {} THEN Woken(pc[d][u]) ELSE pc[d][u]
      <4>1. to_be_revoked' = to_be_revoked /\ pc' = pc
        BY <3>1, Zenon
      <4>2. to_be_revoked \in [Client -> [Lock -> BOOLEAN]] /\ pc \in [Client -> [Thread -> PC]]
        BY Zenon DEF ThreadInv, ThreadTypeOK
      <4>3. \A x : x \notin {}
        BY SMTT(30)
      <4> QED
        BY <4>1, <4>2, <4>3, Zenon
    <3>3. GivesBack(c, {}, state)
      BY <1>0, <2>2, <3>1, <3>2, Zenon DEF GivesBack
    <3> QED
      BY <1>0, <2>1, <3>1, <3>3, GivingBackKeepsThreadInv, Zenon
  <2> QED
    BY <2>3, <2>4, Zenon
<1> QED
  BY <1>2, <1>3, Zenon DEF ReleaserStep

(***************************************************************************)
(* The handlers of revoke and retry, and the progress of a call that is    *)
(* out.                                                                    *)
(***************************************************************************)
LEMMA HandlersKeepThreadInv ==
    ASSUME ThreadInv, NEW c \in Client, NEW l \in Lock, UNCHANGED call
    PROVE  /\ revoke(c, l) => ThreadInv'
           /\ retry(c, l) => ThreadInv'
<1>1. ASSUME revoke(c, l) PROVE ThreadInv'
  <2>1. /\ to_be_revoked' \in [Client -> [Lock -> BOOLEAN]]
        /\ \A d \in Client, k \in Lock : to_be_revoked[d][k] => to_be_revoked'[d][k]
    BY <1>1, Zenon DEF revoke, ThreadInv, ThreadTypeOK
  <2>2. UNCHANGED <<state, waiting_threads, retry_received, pc, wants, call>>
    BY <1>1, Zenon DEF revoke
  <2>3. Wakes(c, {}, {})
    BY <2>1, <2>2, Zenon DEF Wakes, ThreadInv, ThreadTypeOK
  <2> QED
    BY <2>3, WakingKeepsThreadInv, Zenon
<1>2. ASSUME retry(c, l) PROVE ThreadInv'
  <2>1. UNCHANGED <<state, waiting_threads, to_be_revoked, wants, call>>
    BY <1>2, Zenon DEF retry
  <2>2. CASE l \in cached[c]
    <3>1. /\ retry_received' \in [Client -> [Lock -> BOOLEAN]]
          /\ \A d \in Client, k \in Lock :
                d # c \/ k \notin {l} => retry_received'[d][k] = retry_received[d][k]
      <4>1. retry_received' = [retry_received EXCEPT ![c][l] = TRUE]
        BY <1>2, <2>2, Zenon DEF retry
      <4> QED
        BY <4>1, ZenonT(60) DEF ThreadInv, ThreadTypeOK
    <3>2. /\ pc' \in [Client -> [Thread -> PC]]
          /\ \A d \in Client, u \in Thread : pc'[d][u] =
                IF d = c /\ wants[d][u] \in {l} THEN Woken(pc[d][u]) ELSE pc[d][u]
      BY <1>2, <2>2, BroadcastFacts, SMTT(30) DEF retry
    <3>3. Wakes(c, {l}, {})
      BY <2>1, <3>1, <3>2, ZenonT(30) DEF Wakes, ThreadInv, ThreadTypeOK
    <3> QED
      BY <3>3, WakingKeepsThreadInv, Zenon
  <2>3. CASE l \notin cached[c]
    <3>1. UNCHANGED <<retry_received, pc>>
      BY <1>2, <2>3, Zenon DEF retry
    <3>2. Wakes(c, {}, {})
      BY <2>1, <3>1, Zenon DEF Wakes, ThreadInv, ThreadTypeOK
    <3> QED
      BY <3>2, WakingKeepsThreadInv, Zenon
  <2> QED
    BY <2>2, <2>3, Zenon
<1> QED
  BY <1>1, <1>2, Zenon

CallProgress(c, x, m) ==
    /\ call[c][x] # NoCall
    /\ m \in CallState /\ m # NoCall
    /\ m.lock = call[c][x].lock
    /\ call' = [call EXCEPT ![c][x] = m]
    /\ UNCHANGED clientVars

\* A call in progress keeps the invariant of the threads.
LEMMA CallKeepsThreadInv ==
    ASSUME ThreadInv, NEW c \in Client, NEW x \in Caller, NEW m, CallProgress(c, x, m)
    PROVE  ThreadInv'
<1>1. UNCHANGED <<state, waiting_threads, to_be_revoked, retry_received, pc, wants>>
  BY Zenon DEF CallProgress, clientVars
<1>2. /\ call' \in [Client -> [Caller -> CallState]]
      /\ \A d \in Client, y \in Caller : call'[d][y] = NoCall <=> call[d][y] = NoCall
  BY Zenon DEF CallProgress, ThreadInv, ThreadTypeOK
<1>3. \A u \in Thread : u \in Caller
  BY SMTT(30) DEF Caller
<1>4. Wakes(c, {}, {})
  BY <1>1, <1>2, <1>3, Zenon DEF Wakes, ThreadInv, ThreadTypeOK
<1> QED
  BY <1>4, WakingKeepsThreadInv, Zenon

(***************************************************************************)
(* The releaser's invariant.  A thread of the client leaves it alone; the  *)
(* revoke handler only appends.                                            *)
(***************************************************************************)
LEMMA ThreadsKeepReleaserInv ==
    ASSUME ThreadInv, ReleaserInv, NEW c \in Client, NEW t \in Thread
    PROVE  /\ \A l \in Lock : AcquireEnter(c, t, l) => ReleaserInv'
           /\ ThreadStep(c, t) => ReleaserInv'
<1>1. ASSUME UNCHANGED <<revoke_queue, relpos, to_be_revoked>>,
             cached' \in [Client -> SUBSET Lock], acquires' \in 0 .. MaxAcquires,
             \E m : call' = [call EXCEPT ![c][t] = m]
      PROVE  ReleaserInv'
  <2>1. PICK m : call' = [call EXCEPT ![c][t] = m]
    BY <1>1, ZenonT(60)
  <2>2. \A d \in Client : call'[d][Releaser] = call[d][Releaser]
    BY <2>1, ProtocolAssumption DEF ThreadInv, ThreadTypeOK, Caller
  <2>3. ReleaserTypeOK'
    BY <1>1, Zenon DEF ReleaserInv, ReleaserTypeOK
  <2>4. ReleaserAt'
    BY <1>1, <2>2 DEF ReleaserInv, ReleaserAt, NoCall
  <2>5. RevokedIffQueued' /\ \A d \in Client : NoRepeats(revoke_queue'[d])
    BY <1>1 DEF ReleaserInv, RevokedIffQueued, Range
  <2> QED
    BY <2>3, <2>4, <2>5, Zenon DEF ReleaserInv, NoRepeats
<1>2. ASSUME NEW l, NEW q, NEW s, Loop(c, t, l, q, s)
      PROVE  \E m : call' = [call EXCEPT ![c][t] = m]
  BY <1>2, Zenon DEF Loop, Sleep, CallServer, TakeFree
<1>3. ASSUME NEW l, NEW s, AwaitRetry(c, t, l, s)
      PROVE  \E m : call' = [call EXCEPT ![c][t] = m]
  BY <1>2, <1>3, Zenon DEF AwaitRetry
<1>4. ASSUME NEW l \in Lock, AcquireEnter(c, t, l) PROVE ReleaserInv'
  <2>1. /\ UNCHANGED <<revoke_queue, relpos, to_be_revoked>>
        /\ cached' \in [Client -> SUBSET Lock] /\ acquires' \in 0 .. MaxAcquires
    BY <1>4, ProtocolAssumption DEF AcquireEnter, ReleaserInv, ReleaserTypeOK
  <2>2. \E m : call' = [call EXCEPT ![c][t] = m]
    BY <1>2, <1>4, Zenon DEF AcquireEnter
  <2> QED
    BY <1>1, <2>1, <2>2, ZenonT(60)
<1>5. ASSUME ThreadStep(c, t) PROVE ReleaserInv'
  <2>1. UNCHANGED <<revoke_queue, relpos, to_be_revoked, cached, acquires>>
    BY <1>5, Zenon DEF ThreadStep, AcquireWake, RetryWake, AcquireReturn, Release
  <2>2. cached' \in [Client -> SUBSET Lock] /\ acquires' \in 0 .. MaxAcquires
    BY <2>1, Zenon DEF ReleaserInv, ReleaserTypeOK
  <2>3. \E m : call' = [call EXCEPT ![c][t] = m]
    <3>1. CASE AcquireWake(c, t)
      BY <1>2, <3>1, Zenon DEF AcquireWake
    <3>2. CASE RetryWake(c, t)
      BY <1>3, <3>2, Zenon DEF RetryWake
    <3>3. CASE AcquireReturn(c, t)
      BY <1>2, <1>3, <3>3, Zenon DEF AcquireReturn, AcquireOK, AcquireRetry, AcquireFailed
    <3>4. CASE Release(c, t)
      <4>1. call' = [call EXCEPT ![c][t] = call[c][t]]
        BY <3>4, Zenon DEF Release, rpcVars, ThreadInv, ThreadTypeOK
      <4> QED
        BY <4>1, ZenonT(60)
    <3> QED
      BY <1>5, <3>1, <3>2, <3>3, <3>4, Zenon DEF ThreadStep
  <2> QED
    BY <1>1, <2>1, <2>2, <2>3, ZenonT(60)
<1> QED
  BY <1>4, <1>5, Zenon

\* A client's revoke and retry handlers keep the invariant of the releaser.
LEMMA HandlersKeepReleaserInv ==
    ASSUME ThreadInv, ReleaserInv, NEW c \in Client, NEW l \in Lock, UNCHANGED call
    PROVE  /\ revoke(c, l) => ReleaserInv'
           /\ retry(c, l) => ReleaserInv'
<1>1. ASSUME revoke(c, l) PROVE ReleaserInv'
  <2> DEFINE q == revoke_queue[c]
             r == AppendNew(q, l)
  <2>1. q \in Seq(Lock) /\ NoRepeats(q)
    BY Zenon DEF ReleaserInv, ReleaserTypeOK
  <2> HIDE DEF q
  <2>2. /\ r \in Seq(Lock)
        /\ Range(r) = Range(q) \cup {l}
        /\ Len(q) =< Len(r)
        /\ \A i \in 1 .. Len(q) : r[i] = q[i]
        /\ NoRepeats(r)
    BY <2>1, AppendNewFacts
  <2>3. /\ revoke_queue' = [revoke_queue EXCEPT ![c] = r]
        /\ to_be_revoked' = [to_be_revoked EXCEPT ![c][l] = TRUE]
        /\ cached' = [cached EXCEPT ![c] = @ \cup {l}]
        /\ UNCHANGED <<relpos, acquires>>
    BY <1>1, Zenon DEF revoke, q
  <2> HIDE DEF r
  <2>4. /\ revoke_queue' \in [Client -> Seq(Lock)]
        /\ revoke_queue'[c] = r
        /\ \A d \in Client \ {c} : revoke_queue'[d] = revoke_queue[d]
    BY <2>2, <2>3, Zenon DEF ReleaserInv, ReleaserTypeOK
  <2>5. ReleaserTypeOK'
    BY <2>3, <2>4 DEF ReleaserInv, ReleaserTypeOK
  <2>6. \A d \in Client : NoRepeats(revoke_queue'[d])
    BY <2>2, <2>4, Zenon DEF ReleaserInv
  <2>7. ReleaserAt'
    <3> SUFFICES ASSUME NEW d \in Client
                 PROVE  IF relpos[d] = 0
                        THEN call[d][Releaser] = NoCall
                        ELSE /\ relpos[d] \in 1 .. Len(revoke_queue'[d])
                             /\ call[d][Releaser] # NoCall
                             /\ call[d][Releaser].lock = revoke_queue'[d][relpos[d]]
      BY <2>3, Zenon DEF ReleaserAt, NoCall
    <3>1. Len(q) \in Nat /\ Len(r) \in Nat
      BY <2>1, <2>2
    <3>2. CASE d = c
      BY <2>2, <2>4, <3>1, <3>2 DEF ReleaserInv, ReleaserAt, q
    <3>3. CASE d # c
      BY <2>4, <3>3, Zenon DEF ReleaserInv, ReleaserAt
    <3> QED
      BY <3>2, <3>3, Zenon
  <2>8. RevokedIffQueued'
    <3> SUFFICES ASSUME NEW d \in Client, NEW k \in Lock
                 PROVE  to_be_revoked'[d][k] <=> k \in Range(revoke_queue'[d])
      BY Zenon DEF RevokedIffQueued, Range
    <3>1. to_be_revoked[d][k] <=> k \in Range(revoke_queue[d])
      BY Zenon DEF ReleaserInv, RevokedIffQueued
    <3>2. /\ d = c /\ k = l => to_be_revoked'[d][k]
          /\ d # c \/ k # l => to_be_revoked'[d][k] = to_be_revoked[d][k]
      BY <2>3, ZenonT(60) DEF ThreadInv, ThreadTypeOK
    <3>3. d = c => (k \in Range(revoke_queue'[d]) <=> k \in Range(revoke_queue[d]) \/ k = l)
      BY <2>2, <2>4, ZenonT(30) DEF q
    <3> QED
      BY <2>4, <3>1, <3>2, <3>3, Zenon
  <2> QED
    BY <2>5, <2>6, <2>7, <2>8, Zenon DEF ReleaserInv, NoRepeats
<1>2. ASSUME retry(c, l) PROVE ReleaserInv'
  <2>1. UNCHANGED <<revoke_queue, relpos, to_be_revoked, cached, acquires, call>>
    BY <1>2, Zenon DEF retry
  <2> QED
    BY <2>1 DEF ReleaserInv, ReleaserTypeOK, ReleaserAt, RevokedIffQueued, NoRepeats, Range, NoCall
<1> QED
  BY <1>1, <1>2, Zenon

\* A call in progress keeps the invariant of the releaser.
LEMMA CallKeepsReleaserInv ==
    ASSUME ThreadInv, ReleaserInv, NEW c \in Client, NEW x \in Caller, NEW m,
           CallProgress(c, x, m)
    PROVE  ReleaserInv'
<1>1. UNCHANGED <<revoke_queue, relpos, to_be_revoked, cached, acquires>>
  BY Zenon DEF CallProgress, clientVars
<1>2. \A d \in Client : /\ call'[d][Releaser] = NoCall <=> call[d][Releaser] = NoCall
                        /\ call'[d][Releaser].lock = call[d][Releaser].lock
  BY DEF CallProgress, ThreadInv, ThreadTypeOK, Caller
<1>3. ReleaserTypeOK' /\ RevokedIffQueued'
  BY <1>1 DEF ReleaserInv, ReleaserTypeOK, RevokedIffQueued, Range
<1>4. ReleaserAt'
  BY <1>1, <1>2 DEF ReleaserInv, ReleaserAt, NoCall
<1> QED
  BY <1>1, <1>3, <1>4, Zenon DEF ReleaserInv, NoRepeats

(***************************************************************************)
(* The releaser's own steps: the lock that is given back is the one its    *)
(* iterator is at, so it leaves the queue and to_be_revoked together.      *)
(***************************************************************************)
LEMMA ReleaserKeepsReleaserInv ==
    ASSUME ThreadInv, ReleaserInv, NEW c \in Client, ReleaserStep(c)
    PROVE  ReleaserInv'
<1>0. /\ relpos \in [Client -> Nat] /\ call \in [Client -> [Caller -> CallState]]
      /\ state \in [Client -> [Lock -> LockState]]
      /\ revoke_queue \in [Client -> Seq(Lock)]
  BY Zenon DEF ThreadInv, ThreadTypeOK, ReleaserInv, ReleaserTypeOK
<1>1. UNCHANGED <<cached, acquires>>
  BY Zenon DEF ReleaserStep, ReleaserStart, ReleaserReturn
<1>2. ASSUME NEW i \in Nat \ {0}, NEW s \in [Client -> [Lock -> LockState]],
             revoke_queue' \in [Client -> Seq(Lock)],
             \A d \in Client \ {c} : revoke_queue'[d] = revoke_queue[d],
             ReleaserMove(c, i, revoke_queue'[c], s)
      PROVE  ReleaserTypeOK' /\ ReleaserAt'
  <2> DEFINE list == revoke_queue'[c]
  <2>1. list \in Seq(Lock) /\ ReleaserMove(c, i, list, s)
    BY <1>2, Zenon
  <2> HIDE DEF list
  <2>2. /\ relpos' \in [Client -> Nat]
        /\ \A d \in Client \ {c} : relpos'[d] = relpos[d] /\ call'[d] = call[d]
        /\ IF relpos'[c] = 0
           THEN call'[c][Releaser] = NoCall
           ELSE /\ relpos'[c] \in 1 .. Len(list)
                /\ call'[c][Releaser] # NoCall
                /\ call'[c][Releaser].lock = list[relpos'[c]]
    BY <1>0, <2>1, ReleaserMoveFacts, ZenonT(60)
  <2>3. ReleaserTypeOK'
    BY <1>1, <1>2, <2>2, Zenon DEF ReleaserInv, ReleaserTypeOK
  <2>4. ASSUME NEW d \in Client
        PROVE  IF relpos'[d] = 0
               THEN call'[d][Releaser] = NoCall
               ELSE /\ relpos'[d] \in 1 .. Len(revoke_queue'[d])
                    /\ call'[d][Releaser] # NoCall
                    /\ call'[d][Releaser].lock = revoke_queue'[d][relpos'[d]]
    <3>1. CASE d = c
      BY <2>2, <3>1, Zenon DEF list
    <3>2. CASE d # c
      BY <1>2, <2>2, <3>2 DEF ReleaserInv, ReleaserAt
    <3> QED
      BY <3>1, <3>2, Zenon
  <2>5. ReleaserAt'
    BY <2>4, Zenon DEF ReleaserAt, NoCall
  <2> QED
    BY <2>3, <2>5, Zenon
<1>3. ASSUME UNCHANGED <<revoke_queue, to_be_revoked>>
      PROVE  RevokedIffQueued' /\ \A d \in Client : NoRepeats(revoke_queue'[d])
  BY <1>3 DEF ReleaserInv, RevokedIffQueued, Range
<1>4. CASE ReleaserStart(c)
  <2>1. /\ ReleaserMove(c, 1, revoke_queue'[c], state)
        /\ UNCHANGED <<revoke_queue, to_be_revoked>>
    BY <1>4, Zenon DEF ReleaserStart
  <2>2. ReleaserTypeOK' /\ ReleaserAt'
    <3>1. /\ revoke_queue' \in [Client -> Seq(Lock)]
          /\ \A d \in Client \ {c} : revoke_queue'[d] = revoke_queue[d]
      BY <1>0, <2>1, Zenon
    <3>2. 1 \in Nat \ {0}
      OBVIOUS
    <3> QED
      BY <1>0, <1>2, <2>1, <3>1, <3>2, ZenonT(60)
  <2> QED
    BY <1>3, <2>1, <2>2, Zenon DEF ReleaserInv, NoRepeats
<1>5. CASE ReleaserReturn(c)
  <2> DEFINE l == call[c][Releaser].lock
             k == relpos[c]
             q == revoke_queue[c]
  <2>1. /\ k \in Nat \ {0} /\ k + 1 \in Nat \ {0} /\ k \in 1 .. Len(q)
        /\ q \in Seq(Lock) /\ q[k] = l /\ NoRepeats(q) /\ l \in Lock
    <3>1. Releaser \in Caller
      BY Zenon DEF Caller
    <3>2. call[c][Releaser] \in CallState /\ call[c][Releaser] # NoCall
      BY <1>0, <1>5, <3>1 DEF ReleaserReturn, NoCall
    <3>3. k # 0 /\ k \in 1 .. Len(q) /\ q[k] = l
      BY <3>2, Zenon DEF ReleaserInv, ReleaserAt
    <3>4. l \in Lock
      BY <3>2, CallFacts, Zenon
    <3> QED
      BY <1>0, <3>3, <3>4 DEF ReleaserInv
  <2>2. CASE call[c][Releaser].ret = "OK"
    <3>1. /\ to_be_revoked' = [to_be_revoked EXCEPT ![c][l] = FALSE]
          /\ revoke_queue' = [revoke_queue EXCEPT ![c] = Erase(q, k)]
          /\ ReleaserMove(c, k, revoke_queue'[c], [state EXCEPT ![c][l] = "NONE"])
      BY <1>5, <2>2, Zenon DEF ReleaserReturn
    <3> HIDE DEF q, k, l
    <3>2. Erase(q, k) \in Seq(Lock) /\ NoRepeats(Erase(q, k))
          /\ Range(Erase(q, k)) = Range(q) \ {l}
      BY <2>1, EraseFacts, EraseNoRepeats, Zenon
    <3>3. /\ revoke_queue' \in [Client -> Seq(Lock)]
          /\ revoke_queue'[c] = Erase(q, k)
          /\ \A d \in Client \ {c} : revoke_queue'[d] = revoke_queue[d]
      BY <1>0, <3>1, <3>2, Zenon
    <3>4. [state EXCEPT ![c][l] = "NONE"] \in [Client -> [Lock -> LockState]]
      <4>1. "NONE" \in LockState
        BY Zenon DEF LockState
      <4> QED
        BY <1>0, <2>1, <4>1, Zenon
    <3>5. ReleaserTypeOK' /\ ReleaserAt'
      BY <1>2, <2>1, <3>1, <3>3, <3>4, ZenonT(60)
    <3>6. \A d \in Client : NoRepeats(revoke_queue'[d])
      BY <3>2, <3>3, Zenon DEF ReleaserInv
    <3>7. ASSUME NEW d \in Client, NEW n \in Lock
          PROVE  to_be_revoked'[d][n] <=> n \in Range(revoke_queue'[d])
      <4>1. to_be_revoked[d][n] <=> n \in Range(revoke_queue[d])
        BY Zenon DEF ReleaserInv, RevokedIffQueued
      <4>2. /\ d = c /\ n = l => ~ to_be_revoked'[d][n]
            /\ d # c \/ n # l => to_be_revoked'[d][n] = to_be_revoked[d][n]
        BY <3>1, ZenonT(60) DEF ThreadInv, ThreadTypeOK
      <4>3. d = c => (n \in Range(revoke_queue'[d]) <=> n \in Range(revoke_queue[d]) /\ n # l)
        BY <3>2, <3>3, Zenon DEF q
      <4> QED
        BY <3>3, <4>1, <4>2, <4>3, Zenon
    <3>8. RevokedIffQueued'
      BY <3>7, Zenon DEF RevokedIffQueued, Range
    <3> QED
      BY <3>5, <3>6, <3>8, Zenon DEF ReleaserInv, NoRepeats
  <2>3. CASE call[c][Releaser].ret # "OK"
    <3>1. /\ ReleaserMove(c, k + 1, revoke_queue'[c], state)
          /\ UNCHANGED <<revoke_queue, to_be_revoked>>
      BY <1>5, <2>3, Zenon DEF ReleaserReturn
    <3>2. ReleaserTypeOK' /\ ReleaserAt'
      BY <1>0, <1>2, <2>1, <3>1, Zenon
    <3> QED
      BY <1>3, <3>1, <3>2, Zenon DEF ReleaserInv, NoRepeats
  <2> QED
    BY <2>2, <2>3, ZenonT(30)
<1> QED
  BY <1>4, <1>5, Zenon DEF ReleaserStep

-----------------------------------------------------------------------------
(***************************************************************************)
(* The inductive invariant of the lock service.                            *)
(***************************************************************************)
NetInv == late \subseteq Request /\ timeouts \in Nat

LockInv == ThreadInv /\ ReleaserInv /\ ServerInv /\ NetInv

\* The invariant holds initially.
LEMMA InitLockInv == Init => LockInv
<1> SUFFICES ASSUME Init PROVE LockInv
  BY Zenon
<1> USE ProtocolAssumption DEF Init, ClientInit, ServerInit, RpcInit
<1>0. Releaser \in Caller /\ \A t \in Thread : t \in Caller
  BY Zenon DEF Caller
<1>1. ThreadTypeOK
  BY DEF ThreadTypeOK, LockState, PC, CallState
<1>2. IdleWantsNothing /\ CallsWhileCalling /\ FirstThreadTalks /\ NoLostWakeup
  BY <1>0, Zenon DEF IdleWantsNothing, CallsWhileCalling, FirstThreadTalks, NoLostWakeup
<1>3. QueuedWhileAcquiring
  BY DEF QueuedWhileAcquiring, Range, InAcquire
<1>4. ReleaserInv
  BY <1>0 DEF ReleaserInv, ReleaserTypeOK, ReleaserAt, NoRepeats, RevokedIffQueued, Range
<1>5. ServerInv
  BY DEF ServerInv, ServerTypeOK, Worker, RevokerIn, RetryerIn
<1>6. NetInv
  BY Zenon DEF NetInv
<1> QED
  BY <1>1, <1>2, <1>3, <1>4, <1>5, <1>6, Zenon DEF LockInv, ThreadInv

(***************************************************************************)
(* What a step leaves alone keeps its part of the invariant.               *)
(***************************************************************************)
LEMMA Unchanged ==
    ASSUME LockInv
    PROVE  /\ UNCHANGED <<clientVars, call>> => ThreadInv' /\ ReleaserInv'
           /\ UNCHANGED serverVars => ServerInv'
           /\ UNCHANGED <<late, timeouts>> => NetInv'
<1>1. ASSUME UNCHANGED <<clientVars, call>> PROVE ThreadInv' /\ ReleaserInv'
  <2>1. UNCHANGED threadVars
    BY <1>1, Zenon DEF clientVars, threadVars
  <2>3. ThreadTypeOK'
    BY <2>1, ZenonT(60) DEF LockInv, ThreadInv, ThreadTypeOK, threadVars, LockState, PC, CallState, Caller,
                NoCall, Op, Status
  <2>4. IdleWantsNothing' /\ CallsWhileCalling'
    BY <2>1, SMTT(30) DEF LockInv, ThreadInv, threadVars, IdleWantsNothing, CallsWhileCalling, NoCall
  <2>5. QueuedWhileAcquiring' /\ FirstThreadTalks' /\ NoLostWakeup'
    BY <2>1 DEF LockInv, ThreadInv, threadVars, QueuedWhileAcquiring, FirstThreadTalks,
                NoLostWakeup, Blocked, InAcquire, Range
  <2>6. ReleaserInv'
    BY <1>1 DEF LockInv, clientVars, ReleaserInv, ReleaserTypeOK, ReleaserAt, NoRepeats,
                RevokedIffQueued, Range, NoCall
  <2> QED
    BY <2>3, <2>4, <2>5, <2>6, Zenon DEF ThreadInv
<1>2. ASSUME UNCHANGED serverVars PROVE ServerInv'
  <2>1. ServerTypeOK'
    BY <1>2, Zenon DEF LockInv, ServerInv, serverVars, ServerTypeOK, Worker, Idle, Status
  <2>2. RevokerIn' /\ RetryerIn'
    BY <1>2, Zenon DEF LockInv, ServerInv, serverVars, RevokerIn, RetryerIn, Idle
  <2> QED
    BY <2>1, <2>2, Zenon DEF ServerInv
<1>3. ASSUME UNCHANGED <<late, timeouts>> PROVE NetInv'
  BY <1>3, Zenon DEF LockInv, NetInv, Request, Op
<1> QED
  BY <1>1, <1>2, <1>3, Zenon

\* A call that times out leaves a well-formed request behind.
LEMMA TimeoutKeepsNetInv ==
    ASSUME NetInv, CountTimeout, NEW at, NEW op \in Op, NEW c \in Client, NEW l \in Lock,
           LeaveLate(at, op, c, l)
    PROVE  NetInv'
<1>1. [op |-> op, client |-> c, lock |-> l] \in Request
  BY Zenon DEF Request
<1> QED
  BY <1>1 DEF NetInv, CountTimeout, LeaveLate, Request, Op

(***************************************************************************)
(* Every step keeps the invariant.                                         *)
(***************************************************************************)
LEMMA NextLockInv ==
    ASSUME LockInv, [Next]_vars
    PROVE  LockInv'
<1> USE DEF LockInv
<1>0. /\ call \in [Client -> [Caller -> CallState]] /\ late \subseteq Request
      /\ revoker \in Worker /\ retryer \in Worker
  BY Zenon DEF ThreadInv, ThreadTypeOK, NetInv, ServerInv, ServerTypeOK
<1>1. ASSUME NEW c \in Client, ClientStep(c) PROVE LockInv'
  <2>1. ServerInv'
    BY <1>1, Unchanged, Zenon DEF ClientStep
  <2>2. ASSUME NEW t \in Thread, ThreadStep(c, t)
        PROVE  ThreadInv' /\ ReleaserInv' /\ UNCHANGED <<late, timeouts>>
    <3>1. ThreadInv'
      BY <2>2, AcquireKeepsThreadInv, ReleaseKeepsThreadInv, Zenon DEF ThreadStep
    <3>2. ReleaserInv'
      BY <2>2, ThreadsKeepReleaserInv, Zenon
    <3>3. UNCHANGED <<late, timeouts>>
      BY <2>2, Zenon DEF ThreadStep, AcquireWake, RetryWake, AcquireReturn, Release, rpcVars
    <3> QED
      BY <3>1, <3>2, <3>3, Zenon
  <2>3. ASSUME NEW t \in Thread, NEW l \in Lock, AcquireEnter(c, t, l)
        PROVE  ThreadInv' /\ ReleaserInv' /\ UNCHANGED <<late, timeouts>>
    <3>1. UNCHANGED <<late, timeouts>>
      BY <2>3, Zenon DEF AcquireEnter
    <3> QED
      BY <2>3, <3>1, AcquireKeepsThreadInv, ThreadsKeepReleaserInv, Zenon
  <2>4. ASSUME ReleaserStep(c)
        PROVE  ThreadInv' /\ ReleaserInv' /\ UNCHANGED <<late, timeouts>>
    <3>1. UNCHANGED <<late, timeouts>>
      BY <2>4, Zenon DEF ReleaserStep, ReleaserStart, ReleaserReturn
    <3> QED
      BY <2>4, <3>1, ReleaserKeepsThreadInv, ReleaserKeepsReleaserInv, Zenon
  <2>5. ThreadInv' /\ ReleaserInv' /\ UNCHANGED <<late, timeouts>>
    BY <1>1, <2>2, <2>3, <2>4, Zenon DEF ClientStep
  <2> QED
    BY <2>1, <2>5, Unchanged, Zenon
<1>2. ASSUME NEW c \in Client, NEW x \in Caller, NEW m, CallProgress(c, x, m)
      PROVE  ThreadInv' /\ ReleaserInv'
  BY <1>2, CallKeepsThreadInv, CallKeepsReleaserInv, Zenon
<1>3. ASSUME NEW c \in Client, NEW x \in Caller, call[c][x].at # "none"
      PROVE  call[c][x] # NoCall /\ call[c][x].lock \in Lock /\ call[c][x].op \in Op
  <2>1. call[c][x] \in CallState
    BY <1>0, Zenon
  <2> QED
    BY <1>3, <2>1, CallFacts, Zenon
<1>4. ASSUME NEW op \in Op, NEW l \in Lock, NEW r \in Status
      PROVE  /\ Answer(op, l, r) \in CallState /\ Answer(op, l, r) # NoCall
             /\ Answer(op, l, r).lock = l
  BY Zenon DEF Answer, CallState, NoCall
<1>5. ASSUME NEW c \in Client, NEW x \in Caller, ServeAcquire(c, x) \/ ServeRelease(c, x)
      PROVE  LockInv'
  <2> DEFINE l == call[c][x].lock
  <2>1. call[c][x] # NoCall /\ l \in Lock
    BY <1>3, <1>5, Zenon DEF ServeAcquire, ServeRelease
  <2>2. PICK op \in Op, r \in Status :
           /\ acquire(c, l) \/ release(c, l)
           /\ call' = [call EXCEPT ![c][x] = Answer(op, l, r)]
    BY <1>5, Zenon DEF ServeAcquire, ServeRelease, AcquireStatus, ReleaseStatus, Op, Status
  <2>3. UNCHANGED clientVars /\ UNCHANGED <<late, timeouts>>
    BY <1>5, Zenon DEF ServeAcquire, ServeRelease
  <2>4. CallProgress(c, x, Answer(op, l, r))
    BY <1>4, <2>1, <2>2, <2>3, Zenon DEF CallProgress
  <2>5. ServerInv'
    BY <2>1, <2>2, HandlersKeepServerInv, Zenon
  <2>6. ThreadInv' /\ ReleaserInv'
    BY <1>2, <2>4, Zenon
  <2> QED
    BY <2>3, <2>5, <2>6, Unchanged, Zenon
<1>6. ASSUME ServerThreadStep PROVE LockInv'
  <2>1. UNCHANGED <<clientVars, call>> /\ UNCHANGED <<late, timeouts>>
    BY <1>6, Zenon DEF ServerThreadStep, rpcVars
  <2>2. ServerInv'
    BY <1>6, WorkersKeepServerInv, Zenon DEF ServerThreadStep
  <2> QED
    BY <2>1, <2>2, Unchanged, Zenon
<1>7. ASSUME DeliverRevoke PROVE LockInv'
  <2>1. revoker # Idle /\ revoker.lock \in Lock /\ revoker.clt \in Client
    BY <1>0, <1>7, WorkerFacts, Zenon DEF DeliverRevoke
  <2>2. /\ revoke(revoker.clt, revoker.lock) /\ revoker' = Called(revoker, "OK")
        /\ UNCHANGED <<owner, waiting, sentTo, revokes, free_locks>> /\ UNCHANGED retryer
        /\ UNCHANGED call /\ UNCHANGED <<late, timeouts>>
    BY <1>7, Zenon DEF DeliverRevoke, rpcVars
  <2>3. "OK" \in Status
    BY Zenon DEF Status
  <2>4. ServerInv'
    BY <2>1, <2>2, <2>3, AnswersKeepServerInv, Zenon
  <2>5. ThreadInv' /\ ReleaserInv'
    BY <2>1, <2>2, HandlersKeepThreadInv, HandlersKeepReleaserInv, Zenon
  <2> QED
    BY <2>2, <2>4, <2>5, Unchanged, Zenon
<1>8. ASSUME DeliverRetry PROVE LockInv'
  <2> DEFINE r == RetryStatus(retryer.clt, retryer.lock)
  <2>1. retryer # Idle /\ retryer.lock \in Lock /\ retryer.clt \in Client
    BY <1>0, <1>8, WorkerFacts, Zenon DEF DeliverRetry
  <2>2. /\ retry(retryer.clt, retryer.lock) /\ retryer' = Called(retryer, r)
        /\ UNCHANGED <<owner, waiting, sentTo, revokes, free_locks>> /\ UNCHANGED revoker
        /\ UNCHANGED call /\ UNCHANGED <<late, timeouts>>
    BY <1>8, Zenon DEF DeliverRetry, rpcVars
  <2>3. r \in Status
    BY Zenon DEF RetryStatus, Status
  <2>4. ServerInv'
    BY <2>1, <2>2, <2>3, AnswersKeepServerInv, Zenon
  <2>5. ThreadInv' /\ ReleaserInv'
    BY <2>1, <2>2, HandlersKeepThreadInv, HandlersKeepReleaserInv, Zenon
  <2> QED
    BY <2>2, <2>4, <2>5, Unchanged, Zenon
<1>9. ASSUME NEW c \in Client, NEW x \in Caller, CallTimeout(c, x) PROVE LockInv'
  <2> DEFINE l == call[c][x].lock
             op == call[c][x].op
  <2>1. call[c][x] # NoCall /\ l \in Lock /\ op \in Op /\ "TIMEOUT" \in Status
    BY <1>3, <1>9, Zenon DEF CallTimeout, Status
  <2>2. /\ call' = [call EXCEPT ![c][x] = Answer(op, l, "TIMEOUT")]
        /\ UNCHANGED clientVars /\ UNCHANGED serverVars
        /\ CountTimeout /\ LeaveLate(call[c][x].at, op, c, l)
    BY <1>9, Zenon DEF CallTimeout
  <2>3. CallProgress(c, x, Answer(op, l, "TIMEOUT"))
    BY <1>4, <2>1, <2>2 DEF CallProgress
  <2>4. NetInv'
    BY <2>1, <2>2, TimeoutKeepsNetInv, Zenon
  <2>5. ThreadInv' /\ ReleaserInv'
    BY <1>2, <2>3, Zenon
  <2> QED
    BY <2>2, <2>4, <2>5, Unchanged, Zenon
<1>10. ASSUME RevokerTimeout PROVE LockInv'
  <2>1. /\ revoker # Idle /\ revoker.lock \in Lock /\ revoker.clt \in Client
        /\ "TIMEOUT" \in Status /\ "revoke" \in Op
    BY <1>0, <1>10, WorkerFacts, Zenon DEF RevokerTimeout, Status, Op
  <2>2. /\ revoker' = Called(revoker, "TIMEOUT")
        /\ UNCHANGED <<owner, waiting, sentTo, revokes, free_locks>> /\ UNCHANGED retryer
        /\ UNCHANGED <<clientVars, call>>
        /\ CountTimeout /\ LeaveLate(revoker.at, "revoke", revoker.clt, revoker.lock)
    BY <1>10, Zenon DEF RevokerTimeout
  <2>3. ServerInv'
    BY <2>1, <2>2, AnswersKeepServerInv, Zenon
  <2>4. NetInv'
    BY <2>1, <2>2, TimeoutKeepsNetInv, Zenon
  <2> QED
    BY <2>2, <2>3, <2>4, Unchanged, Zenon
<1>11. ASSUME RetryerTimeout PROVE LockInv'
  <2>1. /\ retryer # Idle /\ retryer.lock \in Lock /\ retryer.clt \in Client
        /\ "TIMEOUT" \in Status /\ "retry" \in Op
    BY <1>0, <1>11, WorkerFacts, Zenon DEF RetryerTimeout, Status, Op
  <2>2. /\ retryer' = Called(retryer, "TIMEOUT")
        /\ UNCHANGED <<owner, waiting, sentTo, revokes, free_locks>> /\ UNCHANGED revoker
        /\ UNCHANGED <<clientVars, call>>
        /\ CountTimeout /\ LeaveLate(retryer.at, "retry", retryer.clt, retryer.lock)
    BY <1>11, Zenon DEF RetryerTimeout
  <2>3. ServerInv'
    BY <2>1, <2>2, AnswersKeepServerInv, Zenon
  <2>4. NetInv'
    BY <2>1, <2>2, TimeoutKeepsNetInv, Zenon
  <2> QED
    BY <2>2, <2>3, <2>4, Unchanged, Zenon
<1>12. ASSUME NEW m \in late, Late(m) PROVE LockInv'
  <2>1. m.client \in Client /\ m.lock \in Lock
    BY <1>0, Zenon DEF Request
  <2>2. /\ late' = late \ {m} /\ UNCHANGED timeouts /\ UNCHANGED call
        /\ \/ acquire(m.client, m.lock) /\ UNCHANGED clientVars
           \/ release(m.client, m.lock) /\ UNCHANGED clientVars
           \/ revoke(m.client, m.lock) /\ UNCHANGED serverVars
           \/ retry(m.client, m.lock) /\ UNCHANGED serverVars
    BY <1>12, Zenon DEF Late
  <2>3. NetInv'
    BY <2>2, Zenon DEF NetInv, Request, Op
  <2>4. CASE (acquire(m.client, m.lock) \/ release(m.client, m.lock)) /\ UNCHANGED clientVars
    <3>1. ServerInv'
      BY <2>1, <2>4, HandlersKeepServerInv, Zenon
    <3>2. UNCHANGED <<clientVars, call>>
      BY <2>2, <2>4, Zenon
    <3> QED
      BY <2>3, <3>1, <3>2, Unchanged, Zenon
  <2>5. CASE (revoke(m.client, m.lock) \/ retry(m.client, m.lock)) /\ UNCHANGED serverVars
    <3>1. ThreadInv' /\ ReleaserInv'
      BY <2>1, <2>2, <2>5, HandlersKeepThreadInv, HandlersKeepReleaserInv, Zenon
    <3> QED
      BY <2>3, <2>5, <3>1, Unchanged, Zenon
  <2> QED
    BY <2>2, <2>4, <2>5, Zenon
<1>13. ASSUME UNCHANGED vars PROVE LockInv'
  <2>1. UNCHANGED <<clientVars, call>> /\ UNCHANGED serverVars /\ UNCHANGED <<late, timeouts>>
    BY <1>13, Zenon DEF vars, clientVars, serverVars, rpcVars
  <2> QED
    BY <2>1, Unchanged, Zenon
<1> QED
  BY <1>1, <1>5, <1>6, <1>7, <1>8, <1>9, <1>10, <1>11, <1>12, <1>13, Zenon DEF Next

(***************************************************************************)
(* lock_client_cache.cc, acquire, release and retry: for any number of     *)
(* threads, clients, locks and timeouts, a thread is queued exactly while  *)
(* it is inside acquire, only the first of a queue talks to the server,    *)
(* and no thread sleeps on a condition variable without a reason.          *)
(***************************************************************************)
THEOREM ThreadsHold == Spec => [](QueuedWhileAcquiring /\ FirstThreadTalks /\ NoLostWakeup)
<1>1. LockInv => QueuedWhileAcquiring /\ FirstThreadTalks /\ NoLostWakeup
  BY Zenon DEF LockInv, ThreadInv
<1> QED
  BY <1>1, InitLockInv, NextLockInv, PTL DEF Spec

(***************************************************************************)
(* releaser, revoker and retryer: the iterators they keep over an RPC stay *)
(* at the element the RPC is about, and a lock is to_be_revoked exactly    *)
(* while it is in the releaser's queue.                                    *)
(***************************************************************************)
THEOREM IteratorsHold == Spec => [](IteratorsValid /\ RevokedIffQueued)
<1>1. LockInv => IteratorsValid /\ RevokedIffQueued
  <2> SUFFICES ASSUME LockInv PROVE IteratorsValid /\ RevokedIffQueued
    BY Zenon
  <2>1. /\ \A c \in Client : revoke_queue[c] \in Seq(Lock)
        /\ revokes \in Seq(Lock \X Client) /\ free_locks \in Seq(Lock)
    BY Zenon DEF LockInv, ReleaserInv, ReleaserTypeOK, ServerInv, ServerTypeOK
  <2> QED
    BY <2>1 DEF LockInv, ReleaserInv, ReleaserAt, ServerInv, RevokerIn, RetryerIn, IteratorsValid
<1> QED
  BY <1>1, InitLockInv, NextLockInv, PTL DEF Spec

(***************************************************************************)
(* The state of the clients, the server and the calls between them has its *)
(* types.                                                                  *)
(***************************************************************************)
THEOREM TypesHold == Spec => []TypeOK
<1>1. LockInv => TypeOK
  BY Zenon DEF LockInv, TypeOK, ClientTypeOK, RpcTypeOK, ThreadInv, ThreadTypeOK, ReleaserInv,
         ReleaserTypeOK, ServerInv, NetInv
<1> QED
  BY <1>1, InitLockInv, NextLockInv, PTL DEF Spec

(***************************************************************************)
(* lock_client_cache.cc, waiting_threads: what ThreadsHold and             *)
(* IteratorsHold say, property by property.                                *)
(***************************************************************************)
COROLLARY QueuedWhileAcquiringHolds == Spec => []QueuedWhileAcquiring
BY ThreadsHold, PTL

(***************************************************************************)
(* acquire: the thread in the RPC or waiting for a retry is the first of   *)
(* the list.                                                               *)
(***************************************************************************)
COROLLARY FirstThreadTalksHolds == Spec => []FirstThreadTalks
BY ThreadsHold, PTL

(***************************************************************************)
(* revoke and releaser: to_be_revoked and revoke_queue agree.              *)
(***************************************************************************)
COROLLARY RevokedIffQueuedHolds == Spec => []RevokedIffQueued
BY IteratorsHold, PTL

-----------------------------------------------------------------------------
(***************************************************************************)
(* The order in which threads get a lock.  InOrder is what NoOvertaking    *)
(* says of one step.                                                       *)
(***************************************************************************)
InTurn(c, t) ==
    pc[c][t] # "holding" /\ pc'[c][t] = "holding" =>
       LET q == waiting_threads[c][wants'[c][t]]
       IN  q = <<>> \/ Head(q) = t

InOrder == \A c \in Client, t \in Thread : InTurn(c, t)

\* A step in which no thread gets a lock overtakes nobody.
LEMMA NobodyGets ==
    ASSUME ThreadInv,
           \/ UNCHANGED pc
           \/ \E c \in Client : \E l : pc' = Broadcast(c, l)
    PROVE  InOrder
<1>1. \A d \in Client, u \in Thread : pc'[d][u] = "holding" => pc[d][u] = "holding"
  <2>1. CASE UNCHANGED pc
    BY <2>1, Zenon
  <2>2. ASSUME NEW c \in Client, NEW l, pc' = Broadcast(c, l)
        PROVE  \A d \in Client, u \in Thread : pc'[d][u] = "holding" => pc[d][u] = "holding"
    BY <2>2, BroadcastFacts DEF Woken
  <2> QED
    BY <2>1, <2>2, Zenon
<1> QED
  BY <1>1, Zenon DEF InOrder, InTurn

(***************************************************************************)
(* One thread moves, and holds the lock afterwards only if it is the head  *)
(* of the list.                                                            *)
(***************************************************************************)
LEMMA OneMoves ==
    ASSUME ThreadInv, NEW c \in Client, NEW t \in Thread, NEW p,
           pc' = [pc EXCEPT ![c][t] = p],
           p = "holding" => LET q == waiting_threads[c][wants'[c][t]]
                            IN  q = <<>> \/ Head(q) = t
    PROVE  InOrder
<1>1. pc \in [Client -> [Thread -> PC]]
  BY Zenon DEF ThreadInv, ThreadTypeOK
<1>2. ASSUME NEW d \in Client, NEW u \in Thread PROVE InTurn(d, u)
  <2>1. CASE d = c /\ u = t
    BY <1>1, <2>1, Zenon DEF InTurn
  <2>2. CASE ~(d = c /\ u = t)
    <3>1. pc'[d][u] = pc[d][u]
      BY <1>1, <2>2, Zenon
    <3> QED
      BY <3>1, Zenon DEF InTurn
  <2> QED
    BY <2>1, <2>2, Zenon
<1> QED
  BY <1>2, Zenon DEF InOrder

(***************************************************************************)
(* The loop of acquire gives the lock to nobody but the head of the list.  *)
(***************************************************************************)
LEMMA LoopInOrder ==
    ASSUME ThreadInv, NEW c \in Client, NEW t \in Thread, NEW l, NEW q, NEW s,
           Loop(c, t, l, q, s), wants'[c][t] = l,
           waiting_threads[c][l] # <<>> => Head(q) = Head(waiting_threads[c][l])
    PROVE  InOrder
<1>1. CASE Sleep(c, t, l, q, s)
  BY <1>1, OneMoves, Zenon DEF Sleep
<1>2. CASE CallServer(c, t, l, q, s)
  BY <1>2, OneMoves, Zenon DEF CallServer
<1>3. CASE TakeFree(c, t, l, q, s)
  <2>1. pc' = [pc EXCEPT ![c][t] = "holding"] /\ Head(q) = t
    BY <1>3, Zenon DEF TakeFree, Blocked
  <2> QED
    BY <2>1, OneMoves, Zenon
<1> QED
  BY <1>1, <1>2, <1>3, Zenon DEF Loop

\* A thread that consumes a retry in the wait of acquire keeps the order.
LEMMA AwaitInOrder ==
    ASSUME ThreadInv, NEW c \in Client, NEW t \in Thread, NEW l, NEW s,
           AwaitRetry(c, t, l, s), wants'[c][t] = l
    PROVE  InOrder
<1>1. CASE retry_received[c][l]
  <2>1. PICK q : q = waiting_threads[c][l]
    BY Zenon
  <2>2. Loop(c, t, l, q, s)
    BY <1>1, <2>1, Zenon DEF AwaitRetry
  <2> QED
    BY <2>1, <2>2, LoopInOrder, Zenon
<1>2. CASE ~ retry_received[c][l]
  BY <1>2, OneMoves, ZenonT(30) DEF AwaitRetry
<1> QED
  BY <1>1, <1>2, Zenon

\* Every way through acquire that hands out a cached lock keeps the order.
LEMMA AcquireInOrder ==
    ASSUME ThreadInv, NEW c \in Client, NEW t \in Thread
    PROVE  /\ \A l \in Lock : AcquireEnter(c, t, l) => InOrder
           /\ AcquireWake(c, t) => InOrder
           /\ RetryWake(c, t) => InOrder
           /\ AcquireReturn(c, t) => InOrder
<1>1. ASSUME NEW l \in Lock, AcquireEnter(c, t, l) PROVE InOrder
  <2>1. PICK w, q : w = waiting_threads[c][l] /\ q = AppendNew(w, t)
    BY Zenon
  <2>2. w \in Seq(Thread)
    BY <2>1, Zenon DEF ThreadInv, ThreadTypeOK
  <2>3. q \in Seq(Thread) /\ Len(w) =< Len(q) /\ \A i \in 1 .. Len(w) : q[i] = w[i]
    <3>1. /\ AppendNew(w, t) \in Seq(Thread) /\ Len(w) =< Len(AppendNew(w, t))
          /\ \A i \in 1 .. Len(w) : AppendNew(w, t)[i] = w[i]
      BY <2>2, AppendNewFacts
    <3> QED
      BY <3>1, <2>1, Zenon
  <2>4. w # <<>> => Head(q) = Head(w)
    BY <2>2, <2>3
  <2>5. wants'[c][t] = l
    BY <1>1, Zenon DEF AcquireEnter, ThreadInv, ThreadTypeOK
  <2>6. Loop(c, t, l, q, state)
    BY <1>1, <2>1, Zenon DEF AcquireEnter
  <2> QED
    BY <2>1, <2>4, <2>5, <2>6, LoopInOrder, Zenon
<1>2. PICK l, w : l = wants[c][t] /\ w = waiting_threads[c][l]
  BY SMTT(30)
<1>3. ASSUME AcquireWake(c, t) PROVE InOrder
  <2>1. Loop(c, t, l, w, state) /\ wants'[c][t] = l
    BY <1>2, <1>3, Zenon DEF AcquireWake
  <2> QED
    BY <1>2, <2>1, LoopInOrder, ZenonT(30)
<1>4. ASSUME RetryWake(c, t) PROVE InOrder
  <2>1. AwaitRetry(c, t, l, state) /\ wants'[c][t] = l
    BY <1>2, <1>4, Zenon DEF RetryWake
  <2> QED
    BY <2>1, AwaitInOrder, Zenon
<1>5. ASSUME AcquireReturn(c, t) PROVE InOrder
  <2>1. wants'[c][t] = l /\ call[c][t].at = "done"
        /\ (AcquireOK(c, t, l) \/ AcquireRetry(c, t, l) \/ AcquireFailed(c, t, l))
    BY <1>2, <1>5, Zenon DEF AcquireReturn
  <2>2. CASE AcquireOK(c, t, l)
    <3>1. pc[c][t] = "calling"
      BY <2>1 DEF ThreadInv, CallsWhileCalling, NoCall
    <3>2. Head(w) = t
      BY <1>2, <3>1, Zenon DEF ThreadInv, FirstThreadTalks
    <3>3. pc' = [pc EXCEPT ![c][t] = "holding"]
      BY <2>2, Zenon DEF AcquireOK
    <3> QED
      BY <1>2, <2>1, <3>2, <3>3, OneMoves, Zenon
  <2>3. CASE AcquireRetry(c, t, l)
    <3>1. PICK s : s = [state EXCEPT ![c][l] = "NONE"]
      BY Zenon
    <3>2. AwaitRetry(c, t, l, s)
      BY <2>3, <3>1, Zenon DEF AcquireRetry
    <3> QED
      BY <2>1, <3>2, AwaitInOrder, Zenon
  <2>4. CASE AcquireFailed(c, t, l)
    <3>1. Loop(c, t, l, w, state)
      BY <1>2, <2>4, Zenon DEF AcquireFailed
    <3> QED
      BY <1>2, <2>1, <3>1, LoopInOrder, Zenon
  <2> QED
    BY <2>1, <2>2, <2>3, <2>4, Zenon
<1> QED
  BY <1>1, <1>3, <1>4, <1>5, Zenon

\* release wakes the waiting threads and hands the lock to none of them.
LEMMA ReleaseInOrder ==
    ASSUME ThreadInv, NEW c \in Client, NEW t \in Thread, Release(c, t)
    PROVE  InOrder
<1>1. PICK l, b : l = wants[c][t] /\ b = Broadcast(c, l)
  BY SMTT(30)
<1>2. /\ b \in [Client -> [Thread -> PC]]
      /\ \A d \in Client, u \in Thread :
            b[d][u] = IF d = c /\ wants[d][u] \in {l} THEN Woken(pc[d][u]) ELSE pc[d][u]
  BY <1>1, BroadcastFacts, SMTT(30)
<1>3. pc' = [b EXCEPT ![c][t] = "idle"]
  BY <1>1, Zenon DEF Release
<1>4. ASSUME NEW d \in Client, NEW u \in Thread, pc'[d][u] = "holding"
      PROVE  pc[d][u] = "holding"
  <2>1. b[d][u] = "holding"
    BY <1>2, <1>3, <1>4, Zenon
  <2> QED
    BY <1>2, <2>1, Zenon DEF Woken
<1> QED
  BY <1>4, Zenon DEF InOrder, InTurn

\* Every step keeps the order of the waiting threads.
LEMMA StepInOrder ==
    ASSUME LockInv, Next
    PROVE  InOrder
<1>1. ThreadInv
  BY Zenon DEF LockInv
<1>2. ASSUME NEW c \in Client, ClientStep(c) PROVE InOrder
  <2>1. ASSUME NEW t \in Thread, ThreadStep(c, t) PROVE InOrder
    BY <1>1, <2>1, AcquireInOrder, ReleaseInOrder, Zenon DEF ThreadStep
  <2>2. ASSUME NEW t \in Thread, NEW l \in Lock, AcquireEnter(c, t, l) PROVE InOrder
    BY <1>1, <2>2, AcquireInOrder, Zenon
  <2>3. ASSUME ReleaserStep(c) PROVE InOrder
    <3>1. CASE ReleaserStart(c)
      BY <1>1, <3>1, NobodyGets, ZenonT(30) DEF ReleaserStart
    <3>2. CASE ReleaserReturn(c)
      BY <1>1, <3>2, NobodyGets, Zenon DEF ReleaserReturn
    <3> QED
      BY <2>3, <3>1, <3>2, Zenon DEF ReleaserStep
  <2> QED
    BY <1>2, <2>1, <2>2, <2>3, Zenon DEF ClientStep
<1>3. ASSUME NEW c, NEW l, revoke(c, l) PROVE InOrder
  BY <1>1, <1>3, NobodyGets, Zenon DEF revoke
<1>4. ASSUME NEW c \in Client, NEW l, retry(c, l) PROVE InOrder
  BY <1>1, <1>4, NobodyGets, Zenon DEF retry
<1>5. ASSUME UNCHANGED clientVars PROVE InOrder
  BY <1>1, <1>5, NobodyGets, Zenon DEF clientVars
<1>6. ASSUME DeliverRetry PROVE InOrder
  <2>1. retryer # Idle /\ retryer \in Worker
    BY <1>6 DEF DeliverRetry, LockInv, ServerInv, ServerTypeOK, Idle
  <2>2. retryer.clt \in Client
    BY <2>1, WorkerFacts, Zenon
  <2> QED
    BY <1>4, <1>6, <2>2, Zenon DEF DeliverRetry
<1>7. ASSUME NEW m \in late, Late(m) PROVE InOrder
  <2>1. m.client \in Client
    BY Zenon DEF LockInv, NetInv, Request
  <2> QED
    BY <1>3, <1>4, <1>5, <1>7, <2>1, Zenon DEF Late
<1> QED
  BY <1>2, <1>3, <1>5, <1>6, <1>7, Zenon
  DEF Next, ServeAcquire, ServeRelease, ServerThreadStep, DeliverRevoke, CallTimeout,
      RevokerTimeout, RetryerTimeout

(***************************************************************************)
(* waiting_threads: threads of a client get a lock in the order in which   *)
(* they asked for it, whatever the server, the releaser and timeouts do.   *)
(***************************************************************************)
THEOREM NoOvertakingHolds == Spec => NoOvertaking
<1>1. LockInv /\ [Next]_vars => [InOrder]_vars
  BY StepInOrder, Zenon
<1> QED
  BY <1>1, InitLockInv, NextLockInv, PTL DEF Spec, NoOvertaking, InOrder, InTurn

-----------------------------------------------------------------------------
\* A thread that is not busy with the lock and runs the loop of acquire takes
\* one of these steps.
LEMMA LoopIsOwnStep ==
    ASSUME ThreadInv, NEW c \in Client, NEW t \in Thread, NEW l \in Lock, NEW q,
           pc[c][t] # "holding", pc[c][t] = "calling" => timeouts > 0,
           \A u \in Thread : pc[c][u] \notin {"retrysleep", "retryawake"},
           wants' = [wants EXCEPT ![c][t] = l], Loop(c, t, l, q, state),
           UNCHANGED <<serverVars, revoke_queue, late, timeouts>>
    PROVE  OthersStay(c, t, l) /\ OwnStep(c, t, l)
<1>1. PICK p, m, st :
         /\ pc' = [pc EXCEPT ![c][t] = p]
         /\ call' = [call EXCEPT ![c][t] = m]
         /\ state' = [state EXCEPT ![c][l] = st]
         /\ \/ p = "asleep" /\ st = state[c][l]
            \/ p = "calling" /\ m = Sent("acquire", l) /\ state[c][l] = "NONE" /\ st = "ACQUIRING"
            \/ p = "holding" /\ state[c][l] = "FREE" /\ st = "LOCKED"
  <2>1. state = [state EXCEPT ![c][l] = state[c][l]]
    BY Zenon DEF ThreadInv, ThreadTypeOK
  <2>2. CASE Sleep(c, t, l, q, state)
    BY <2>1, <2>2, Zenon DEF Sleep
  <2>3. CASE CallServer(c, t, l, q, state)
    BY <2>3, Zenon DEF CallServer
  <2>4. CASE TakeFree(c, t, l, q, state)
    BY <2>4, Zenon DEF TakeFree
  <2> QED
    BY <2>2, <2>3, <2>4, Zenon DEF Loop
<1>2. /\ t \in Caller /\ \A u \in Thread : u \in Caller
  BY Zenon DEF Caller
<1>3. /\ pc'[c][t] = p /\ wants'[c][t] = l /\ call'[c][t] = m /\ state'[c][l] = st
      /\ \A u \in Thread \ {t} :
            pc'[c][u] = pc[c][u] /\ wants'[c][u] = wants[c][u] /\ call'[c][u] = call[c][u]
      /\ \A k \in Lock \ {l} : state'[c][k] = state[c][k]
  BY <1>1, <1>2, Zenon DEF ThreadInv, ThreadTypeOK
<1>4. OthersStay(c, t, l)
  BY <1>3, Zenon DEF OthersStay
<1>5. OwnStep(c, t, l)
  BY <1>1, <1>3, Zenon DEF OwnStep
<1> QED
  BY <1>4, <1>5, Zenon

\* The lock client's own steps, when it is the only one.
LEMMA ClientStepsAlone ==
    ASSUME LockInv, NEW c \in Client, AloneInv(c), ClientStep(c)
    PROVE  \E t \in Thread, l \in Lock :
              /\ OthersStay(c, t, l) /\ OwnStep(c, t, l)
              /\ pc[c][t] = "idle" \/ wants[c][t] = l
<1>0. /\ ThreadInv /\ ReleaserInv /\ UNCHANGED serverVars
      /\ \A u \in Thread : pc[c][u] \notin {"retrysleep", "retryawake"}
      /\ revoke_queue[c] = <<>>
  BY Zenon DEF LockInv, ClientStep, AloneInv, NothingOwed
<1>1. ASSUME NEW t \in Thread, NEW l \in Lock, AcquireEnter(c, t, l)
      PROVE  OthersStay(c, t, l) /\ OwnStep(c, t, l) /\ pc[c][t] = "idle"
  <2>1. pc[c][t] = "idle" /\ UNCHANGED <<revoke_queue, late, timeouts>>
        /\ wants' = [wants EXCEPT ![c][t] = l]
    BY <1>1, Zenon DEF AcquireEnter
  <2>2. PICK q : Loop(c, t, l, q, state)
    BY <1>1, Zenon DEF AcquireEnter
  <2> QED
    BY <1>0, <2>1, <2>2, LoopIsOwnStep, Zenon
<1>2. ASSUME NEW t \in Thread, AcquireWake(c, t)
      PROVE  wants[c][t] \in Lock /\ OthersStay(c, t, wants[c][t]) /\ OwnStep(c, t, wants[c][t])
  <2>1. pc[c][t] = "awake" /\ UNCHANGED <<revoke_queue, late, timeouts, wants>>
    BY <1>2, Zenon DEF AcquireWake
  <2>2. wants[c][t] \in Lock
    BY <1>0, <2>1, QueueOfThread, Zenon DEF InAcquire
  <2>3. wants' = [wants EXCEPT ![c][t] = wants[c][t]]
    BY <1>0, <2>1, Zenon DEF ThreadInv, ThreadTypeOK
  <2>4. PICK q : Loop(c, t, wants[c][t], q, state)
    BY <1>2, Zenon DEF AcquireWake
  <2> QED
    BY <1>0, <2>1, <2>2, <2>3, <2>4, LoopIsOwnStep, Zenon
<1>3. ASSUME NEW t \in Thread, AcquireReturn(c, t)
      PROVE  wants[c][t] \in Lock /\ OthersStay(c, t, wants[c][t]) /\ OwnStep(c, t, wants[c][t])
  <2> DEFINE l == wants[c][t]
  <2>1. pc[c][t] = "calling" /\ UNCHANGED <<revoke_queue, late, timeouts, wants>>
    BY <1>0, <1>3 DEF AcquireReturn, ThreadInv, CallsWhileCalling, NoCall
  <2>2. l \in Lock
    BY <1>0, <2>1, QueueOfThread, Zenon DEF InAcquire
  <2>3. wants' = [wants EXCEPT ![c][t] = l]
    BY <1>0, <2>1, Zenon DEF ThreadInv, ThreadTypeOK
  <2>4. state[c][l] = "ACQUIRING" /\ CallAlone(c, l, call[c][t])
    BY <2>1, <2>2, ZenonT(30) DEF AloneInv, LockAlone, Busy
  <2>5. \/ call[c][t].ret = "OK" /\ Asked(c, l) \notin late
        \/ call[c][t].ret = "TIMEOUT" /\ timeouts > 0
    <3>1. call[c][t].at = "done"
      BY <1>3, Zenon DEF AcquireReturn
    <3> QED
      BY <2>4, <3>1 DEF CallAlone, Sent, Answer
  <2>6. CASE AcquireOK(c, t, l)
    <3>1. /\ pc' = [pc EXCEPT ![c][t] = "holding"]
          /\ call' = [call EXCEPT ![c][t] = NoCall]
          /\ state' = [state EXCEPT ![c][l] = "LOCKED"]
      BY <2>6, Zenon DEF AcquireOK
    <3>2. Asked(c, l) \notin late
      BY <2>5, <2>6, ZenonT(30) DEF AcquireOK
    <3>3. /\ pc'[c][t] = "holding" /\ wants'[c][t] = l /\ state'[c][l] = "LOCKED"
          /\ \A u \in Thread \ {t} :
                pc'[c][u] = pc[c][u] /\ wants'[c][u] = wants[c][u] /\ call'[c][u] = call[c][u]
          /\ \A k \in Lock \ {l} : state'[c][k] = state[c][k]
      BY <1>0, <2>1, <2>2, <3>1 DEF ThreadInv, ThreadTypeOK, Caller
    <3>4. OthersStay(c, t, l)
      BY <1>0, <2>1, <3>3, Zenon DEF OthersStay
    <3>5. OwnStep(c, t, l)
      BY <2>1, <3>2, <3>3, Zenon DEF OwnStep
    <3> QED
      BY <2>2, <3>4, <3>5, Zenon
  <2>7. CASE AcquireFailed(c, t, l)
    <3>1. timeouts > 0
      BY <2>5, <2>7, Zenon DEF AcquireFailed
    <3>2. PICK q : Loop(c, t, l, q, state)
      BY <2>7, Zenon DEF AcquireFailed
    <3> HIDE DEF l
    <3>3. OthersStay(c, t, l) /\ OwnStep(c, t, l)
      BY <1>0, <2>1, <2>2, <2>3, <3>1, <3>2, LoopIsOwnStep, Zenon
    <3> QED
      BY <2>2, <3>3, Zenon DEF l
  <2> QED
    BY <1>3, <2>5, <2>6, <2>7, ZenonT(30) DEF AcquireReturn, AcquireRetry
<1>4. ASSUME NEW t \in Thread, Release(c, t)
      PROVE  wants[c][t] \in Lock /\ OthersStay(c, t, wants[c][t]) /\ OwnStep(c, t, wants[c][t])
  <2> DEFINE l == wants[c][t]
             b == Broadcast(c, l)
  <2>1. pc[c][t] = "holding" /\ l \in Lock /\ UNCHANGED <<revoke_queue, late, timeouts, call>>
    BY <1>0, <1>4 DEF Release, rpcVars, ThreadInv, ThreadTypeOK, IdleWantsNothing
  <2>2. /\ state' = [state EXCEPT ![c][l] = "FREE"]
        /\ wants' = [wants EXCEPT ![c][t] = NoLock]
        /\ pc' = [b EXCEPT ![c][t] = "idle"]
    BY <1>4, ZenonT(30) DEF Release
  <2>3. /\ b \in [Client -> [Thread -> PC]]
        /\ \A u \in Thread : b[c][u] = IF wants[c][u] = l THEN Woken(pc[c][u]) ELSE pc[c][u]
    BY <1>0, <2>1, BroadcastFacts
  <2> HIDE DEF b
  <2>4. /\ state'[c][l] = "FREE" /\ wants'[c][t] = NoLock /\ pc'[c][t] = "idle"
        /\ \A u \in Thread \ {t} : pc'[c][u] = b[c][u] /\ wants'[c][u] = wants[c][u]
        /\ \A k \in Lock \ {l} : state'[c][k] = state[c][k]
    BY <1>0, <2>1, <2>2, <2>3, Zenon DEF ThreadInv, ThreadTypeOK
  <2>5. \A u \in Thread \ {t} :
           pc'[c][u] = pc[c][u] \/ (pc[c][u] = "asleep" /\ pc'[c][u] = "awake")
    BY <1>0, <2>3, <2>4 DEF Woken
  <2>6. OthersStay(c, t, l)
    BY <1>0, <2>1, <2>4, <2>5, Zenon DEF OthersStay
  <2>7. OwnStep(c, t, l)
    BY <2>1, <2>4, Zenon DEF OwnStep
  <2> QED
    BY <2>1, <2>6, <2>7, ZenonT(30)
<1>5. ~ ReleaserStep(c)
  <2>1. relpos[c] = 0
    BY <1>0 DEF ReleaserInv, ReleaserAt
  <2>2. call[c][Releaser] = NoCall
    BY <1>0, <2>1, Zenon DEF ReleaserInv, ReleaserAt
  <2>3. DOMAIN revoke_queue[c] = {} /\ NoCall.at = "none"
    BY <1>0 DEF NoCall
  <2> QED
    BY <2>2, <2>3, ZenonT(30) DEF ReleaserStep, ReleaserStart, ReleaserReturn
<1>6. ASSUME NEW t \in Thread PROVE ~ RetryWake(c, t)
  BY <1>0, Zenon DEF RetryWake
<1>7. \/ \E t \in Thread, l \in Lock : AcquireEnter(c, t, l)
      \/ \E t \in Thread : AcquireWake(c, t) \/ AcquireReturn(c, t) \/ Release(c, t)
  BY <1>5, <1>6, Zenon DEF ClientStep, ThreadStep
<1> QED
  BY <1>1, <1>2, <1>3, <1>4, <1>7, Zenon

\* A call that is out comes from a thread in the acquire RPC, and says so.
LEMMA CallsOfAlone ==
    ASSUME LockInv, NEW c \in Client, AloneInv(c), NEW x \in Caller, call[c][x] # NoCall
    PROVE  /\ x \in Thread /\ pc[c][x] = "calling" /\ wants[c][x] \in Lock
           /\ Busy(c, x, wants[c][x])
           /\ state[c][wants[c][x]] = "ACQUIRING"
           /\ CallAlone(c, wants[c][x], call[c][x])
           /\ call[c][x].op = "acquire" /\ call[c][x].lock = wants[c][x]
<1>1. x # Releaser
  <2>1. revoke_queue[c] = <<>>
    BY Zenon DEF AloneInv, NothingOwed
  <2> QED
    BY <2>1 DEF LockInv, ReleaserInv, ReleaserAt
<1>2. x \in Thread
  BY <1>1, Zenon DEF Caller
<1>3. pc[c][x] = "calling"
  BY <1>2, Zenon DEF LockInv, ThreadInv, CallsWhileCalling
<1>4. wants[c][x] \in Lock
  BY <1>2, <1>3, QueueOfThread, Zenon DEF LockInv, InAcquire
<1>5. Busy(c, x, wants[c][x])
  BY <1>3, Zenon DEF Busy
<1>6. state[c][wants[c][x]] = "ACQUIRING" /\ CallAlone(c, wants[c][x], call[c][x])
  BY <1>2, <1>3, <1>4, <1>5, ZenonT(30) DEF AloneInv, LockAlone
<1>7. call[c][x].op = "acquire" /\ call[c][x].lock = wants[c][x]
  BY <1>6 DEF CallAlone, Sent, Answer
<1> QED
  BY <1>2, <1>3, <1>4, <1>5, <1>6, <1>7, Zenon

\* The server grants the only client the lock it asks for.
LEMMA GrantAlone ==
    ASSUME LockInv, NEW c \in Client, NEW l \in Lock, AloneInv(c), owner[l] = NoClient,
           acquire(c, l)
    PROVE  /\ AcquireStatus(c, l) = "OK"
           /\ UNCHANGED <<waiting, revokes, free_locks, revoker, retryer>>
           /\ \A k \in Lock : sentTo'[k] = sentTo[k]
           /\ \A k \in Lock \ {l} : owner'[k] = owner[k]
<1>1. Grantable(c, l)
  BY Zenon DEF Grantable, AloneInv, NothingOwed
<1>2. Grant(c, l) /\ UNCHANGED <<free_locks, revoker, retryer>>
  BY <1>1, Zenon DEF acquire, Refuse
<1>3. /\ owner \in [Lock -> Client \cup {NoClient}] /\ sentTo \in [Lock -> Client \cup {NoClient}]
      /\ \A k \in Lock : sentTo[k] = NoClient
  BY Zenon DEF LockInv, ServerInv, ServerTypeOK, AloneInv, NothingOwed
<1> QED
  BY <1>1, <1>2, <1>3, Zenon DEF Grant, AcquireStatus

\* The steps of the calls, of the server and of the network.
LEMMA ServiceStepsAlone ==
    ASSUME LockInv, NEW c, Client = {c}, AloneInv(c), Next, ~ ClientStep(c)
    PROVE  AloneInv(c)' /\ UNCHANGED <<pc, wants>>
<1>0. /\ c \in Client
      /\ call \in [Client -> [Caller -> CallState]]
      /\ timeouts \in Nat
      /\ \A u \in Thread : u \in Caller
      /\ NothingOwed(c)
  BY Zenon DEF LockInv, ThreadInv, ThreadTypeOK, NetInv, Caller, AloneInv
<1>1. ASSUME NEW k \in Lock, NEW j \in Lock, Asked(c, k) = Asked(c, j) PROVE k = j
  BY <1>1, Zenon DEF Asked
<1>2. \A k \in Lock : Asked(c, k)' = Asked(c, k)
  BY Zenon DEF Asked
<1>3. \A m \in late : \E k \in Lock : m = Asked(c, k) /\ owner[k] = NoClient
                                        /\ state[c][k] = "ACQUIRING"
  BY Zenon DEF AloneInv, LateAlone
<1>4. ASSUME NEW x \in Caller, ServeAcquire(c, x) PROVE AloneInv(c)' /\ UNCHANGED <<pc, wants>>
  <2>0. PICK l : l = wants[c][x]
    BY Zenon
  <2>1. call[c][x].at = "sent"
    BY <1>4, Zenon DEF ServeAcquire
  <2>2. call[c][x] # NoCall
    BY <2>1 DEF NoCall
  <2>3. /\ x \in Thread /\ l \in Lock /\ state[c][l] = "ACQUIRING" /\ Busy(c, x, l)
        /\ CallAlone(c, l, call[c][x]) /\ call[c][x].lock = l
    BY <1>0, <2>0, <2>2, CallsOfAlone, ZenonT(30)
  <2>4. owner[l] = NoClient /\ Asked(c, l) \notin late
    BY <2>1, <2>3 DEF CallAlone, Answer
  <2>5. /\ acquire(c, l)
        /\ call' = [call EXCEPT ![c][x] = Answer("acquire", l, AcquireStatus(c, l))]
        /\ UNCHANGED clientVars /\ UNCHANGED <<late, timeouts>>
    BY <1>4, <2>3, Zenon DEF ServeAcquire
  <2>6. /\ UNCHANGED <<state, pc, wants, revoke_queue>> /\ UNCHANGED <<late, timeouts>>
    BY <2>5, Zenon DEF clientVars
  <2>7. /\ AcquireStatus(c, l) = "OK"
        /\ UNCHANGED <<waiting, revokes, free_locks, revoker, retryer>>
        /\ \A k \in Lock : sentTo'[k] = sentTo[k]
        /\ \A k \in Lock \ {l} : owner'[k] = owner[k]
    BY <1>0, <2>3, <2>4, <2>5, GrantAlone, Zenon
  <2>8. /\ call'[c][x] = Answer("acquire", l, "OK")
        /\ \A u \in Thread \ {x} : call'[c][u] = call[c][u]
    BY <1>0, <2>3, <2>5, <2>7, Zenon
  <2>9. ASSUME NEW u \in Thread, Busy(c, u, l) PROVE CallAlone(c, l, call[c][u])'
    <3>1. u = x
      BY <2>3, <2>9, Zenon DEF AloneInv, LockAlone
    <3>2. CallAlone(c, l, call[c][x])'
      BY <1>2, <2>3, <2>4, <2>6, <2>8, Zenon DEF CallAlone
    <3> QED
      BY <3>1, <3>2, Zenon
  <2>10. LateAlone(c)'
    <3> SUFFICES ASSUME NEW n \in late
                 PROVE  \E k \in Lock : n = Asked(c, k)' /\ owner'[k] = NoClient
                                          /\ state'[c][k] = "ACQUIRING"
      BY <2>6, Zenon DEF LateAlone
    <3>1. PICK k \in Lock : n = Asked(c, k) /\ owner[k] = NoClient /\ state[c][k] = "ACQUIRING"
      BY <1>3, Zenon
    <3>2. owner'[k] = owner[k]
      BY <2>4, <2>7, <3>1, Zenon
    <3> QED
      BY <1>2, <2>6, <3>1, <3>2, Zenon
  <2>11. \A u \in Thread : wants[c][u] # l => call'[c][u] = call[c][u]
    BY <2>0, <2>8, Zenon
  <2>12. /\ timeouts' \in timeouts .. MaxTimeouts
         /\ \A k \in Lock \ {l} : Asked(c, k) \in late' => Asked(c, k) \in late
    BY <2>6 DEF AloneInv
  <2> QED
    BY <2>3, <2>6, <2>7, <2>9, <2>10, <2>11, <2>12, CallStepKeepsAlone, Zenon
<1>5. ASSUME NEW x \in Caller, CallTimeout(c, x) PROVE AloneInv(c)' /\ UNCHANGED <<pc, wants>>
  <2>0. PICK l : l = wants[c][x]
    BY Zenon
  <2>1. call[c][x] # NoCall
    BY <1>5 DEF CallTimeout, NoCall
  <2>2. /\ x \in Thread /\ l \in Lock /\ state[c][l] = "ACQUIRING" /\ Busy(c, x, l)
        /\ CallAlone(c, l, call[c][x]) /\ call[c][x].lock = l /\ call[c][x].op = "acquire"
    BY <1>0, <2>0, <2>1, CallsOfAlone, Zenon
  <2>3. /\ timeouts < MaxTimeouts /\ timeouts' = timeouts + 1
        /\ late' = IF call[c][x].at = "sent" THEN late \cup {Asked(c, l)} ELSE late
        /\ call' = [call EXCEPT ![c][x] = Answer("acquire", l, "TIMEOUT")]
        /\ UNCHANGED serverVars /\ UNCHANGED clientVars
    BY <1>5, <2>2 DEF CallTimeout, CountTimeout, LeaveLate, Asked
  <2>4. /\ UNCHANGED <<state, pc, wants, revoke_queue, waiting, revokes, free_locks,
                       revoker, retryer, sentTo, owner>>
    BY <2>3, Zenon DEF clientVars, serverVars
  <2>5. /\ call'[c][x] = Answer("acquire", l, "TIMEOUT")
        /\ \A u \in Thread \ {x} : call'[c][u] = call[c][u]
    BY <1>0, <2>2, <2>3, Zenon
  <2>6. ASSUME NEW u \in Thread, Busy(c, u, l) PROVE CallAlone(c, l, call[c][u])'
    <3>1. u = x
      BY <2>2, <2>6, Zenon DEF AloneInv, LockAlone
    <3>2. timeouts' > 0
      BY <1>0, <2>3
    <3>3. CallAlone(c, l, call[c][x])'
      BY <2>5, <3>2, Zenon DEF CallAlone
    <3> QED
      BY <3>1, <3>3, Zenon
  <2>7. LateAlone(c)'
    <3>1. call[c][x].at = "sent" => owner[l] = NoClient
      BY <2>2 DEF CallAlone, Answer
    <3> QED
      BY <1>2, <1>3, <2>2, <2>3, <2>4, <3>1, ZenonT(30) DEF LateAlone
  <2>8. \A u \in Thread : wants[c][u] # l => call'[c][u] = call[c][u]
    BY <2>0, <2>5, Zenon
  <2>9. timeouts' \in timeouts .. MaxTimeouts
    BY <1>0, <2>3, ProtocolAssumption
  <2>10. \A k \in Lock \ {l} : Asked(c, k) \in late' => Asked(c, k) \in late
    BY <1>1, <2>2, <2>3, Zenon
  <2> QED
    BY <2>2, <2>4, <2>6, <2>7, <2>8, <2>9, <2>10, CallStepKeepsAlone, ZenonT(30)
<1>6. ASSUME NEW m \in late, Late(m) PROVE AloneInv(c)' /\ UNCHANGED <<pc, wants>>
  <2>1. PICK l \in Lock : m = Asked(c, l) /\ owner[l] = NoClient /\ state[c][l] = "ACQUIRING"
    BY <1>3, Zenon
  <2>2. m.op = "acquire" /\ m.client = c /\ m.lock = l
    BY <2>1, Zenon DEF Asked
  <2>3. /\ acquire(c, l) /\ UNCHANGED clientVars /\ UNCHANGED <<call, timeouts>>
        /\ late' = late \ {Asked(c, l)}
    BY <1>6, <2>1, <2>2, Zenon DEF Late
  <2>4. UNCHANGED <<state, pc, wants, revoke_queue, call, timeouts>>
    BY <2>3, Zenon DEF clientVars
  <2>5. /\ UNCHANGED <<waiting, revokes, free_locks, revoker, retryer>>
        /\ \A k \in Lock : sentTo'[k] = sentTo[k]
        /\ \A k \in Lock \ {l} : owner'[k] = owner[k]
    BY <1>0, <2>1, <2>3, GrantAlone, Zenon
  <2>6. ASSUME NEW u \in Thread, Busy(c, u, l) PROVE CallAlone(c, l, call[c][u])'
    <3>1. CallAlone(c, l, call[c][u])
      BY <2>1, <2>6, Zenon DEF AloneInv, LockAlone, Busy
    <3>2. Asked(c, l) \in late
      BY <2>1, Zenon
    <3> QED
      BY <2>4, <3>1, <3>2, Zenon DEF CallAlone, Answer
  <2>7. LateAlone(c)'
    <3> SUFFICES ASSUME NEW n \in late'
                 PROVE  \E k \in Lock : n = Asked(c, k)' /\ owner'[k] = NoClient
                                          /\ state'[c][k] = "ACQUIRING"
      BY Zenon DEF LateAlone
    <3>1. n \in late /\ n # Asked(c, l)
      BY <2>3, Zenon
    <3>2. PICK k \in Lock : n = Asked(c, k) /\ owner[k] = NoClient /\ state[c][k] = "ACQUIRING"
      BY <1>3, <3>1, Zenon
    <3>3. owner'[k] = owner[k]
      BY <2>5, <3>1, <3>2, ZenonT(30)
    <3> QED
      BY <1>2, <2>4, <3>2, <3>3, Zenon
  <2>8. /\ timeouts' \in timeouts .. MaxTimeouts
        /\ \A k \in Lock \ {l} : Asked(c, k) \in late' => Asked(c, k) \in late
        /\ \A u \in Thread : wants[c][u] # l => call'[c][u] = call[c][u]
    BY <2>3, <2>4 DEF AloneInv
  <2> QED
    BY <2>1, <2>4, <2>5, <2>6, <2>7, <2>8, CallStepKeepsAlone, Zenon
<1>7. ASSUME NEW x \in Caller PROVE ~ ServeRelease(c, x)
  <2>1. call[c][x] # NoCall => call[c][x].op = "acquire"
    BY <1>0, CallsOfAlone, Zenon
  <2> QED
    BY <2>1 DEF ServeRelease, NoCall
<1>8. /\ ~ ServerThreadStep /\ ~ DeliverRevoke /\ ~ DeliverRetry
      /\ ~ RevokerTimeout /\ ~ RetryerTimeout
  <2>1. /\ revokes = <<>> /\ free_locks = <<>> /\ revoker = Idle /\ retryer = Idle
    BY <1>0, Zenon DEF NothingOwed
  <2>2. Idle.at = "idle" /\ DOMAIN free_locks = {}
    BY <2>1 DEF Idle
  <2>3. ~ RevokerStart /\ ~ RevokerReply
    BY <2>1, <2>2, Zenon DEF RevokerStart, RevokerReply
  <2>4. ~ RetryerStart /\ ~ RetryerReply
    BY <2>1, <2>2, Zenon DEF RetryerStart, RetryerReply
  <2>5. ~ DeliverRevoke /\ ~ DeliverRetry /\ ~ RevokerTimeout /\ ~ RetryerTimeout
    BY <2>1, <2>2, Zenon DEF DeliverRevoke, DeliverRetry, RevokerTimeout, RetryerTimeout
  <2> QED
    BY <2>3, <2>4, <2>5, Zenon DEF ServerThreadStep
<1>9. \/ \E x \in Caller : ServeAcquire(c, x) \/ CallTimeout(c, x)
      \/ \E m \in late : Late(m)
  BY <1>7, <1>8, Zenon DEF Next
<1> QED
  BY <1>4, <1>5, <1>6, <1>9, Zenon

(***************************************************************************)
(* A thread of the only client takes a step.                               *)
(***************************************************************************)
ThreadSteps(c) ==
    \E t \in Thread, l \in Lock :
       /\ OthersStay(c, t, l) /\ OwnStep(c, t, l)
       /\ pc[c][t] = "idle" \/ wants[c][t] = l

(***************************************************************************)
(* Every step keeps the invariant of the only client, and is a step of one *)
(* of its threads or changes nothing an application sees.                  *)
(***************************************************************************)
LEMMA NextAlone ==
    ASSUME NEW c, Client = {c}, LockInv, AloneInv(c), [Next]_vars
    PROVE  AloneInv(c)' /\ (ThreadSteps(c) \/ UNCHANGED <<pc, wants>>)
<1>0. c \in Client
  BY Zenon
<1>1. CASE ClientStep(c)
  <2>1. ThreadSteps(c)
    BY <1>0, <1>1, ClientStepsAlone, Zenon DEF ThreadSteps
  <2>2. AloneInv(c)'
    BY <2>1, OwnStepKeepsAlone, Zenon DEF ThreadSteps
  <2> QED
    BY <2>1, <2>2, Zenon
<1>2. CASE Next /\ ~ ClientStep(c)
  BY <1>2, ServiceStepsAlone, Zenon
<1>3. CASE UNCHANGED vars
  <2>1. /\ UNCHANGED <<owner, waiting, sentTo, revokes, free_locks, revoker, retryer>>
        /\ UNCHANGED <<state, revoke_queue, pc, wants, call, late, timeouts>>
    BY <1>3, Zenon DEF vars, serverVars, clientVars, rpcVars
  <2>2. NothingOwed(c)'
    BY <2>1, Zenon DEF AloneInv, NothingOwed, Idle
  <2>3. LateAlone(c)'
    BY <2>1, Zenon DEF AloneInv, LateAlone, Asked
  <2>4. \A l \in Lock : LockAlone(c, l)'
    <3>1. \A t \in Thread, l \in Lock : Busy(c, t, l)' <=> Busy(c, t, l)
      BY <2>1, Zenon DEF Busy
    <3>2. \A t \in Thread, l \in Lock :
             CallAlone(c, l, call[c][t]) => CallAlone(c, l, call[c][t])'
      BY <2>1, Zenon DEF CallAlone, Asked, Sent, Answer
    <3> QED
      BY <2>1, <3>1, <3>2, Zenon DEF AloneInv, LockAlone
  <2> QED
    BY <2>1, <2>2, <2>3, <2>4, Zenon DEF AloneInv
<1> QED
  BY <1>1, <1>2, <1>3, Zenon

\* The invariant of the only client holds initially.
LEMMA InitAlone ==
    ASSUME NEW c \in Client, Init
    PROVE  AloneInv(c)
<1> USE ProtocolAssumption DEF Init, ClientInit, ServerInit, RpcInit
<1>1. NothingOwed(c)
  BY Zenon DEF NothingOwed
<1>2. LateAlone(c) /\ timeouts \in 0 .. MaxTimeouts
  BY DEF LateAlone
<1>3. \A l \in Lock : LockAlone(c, l)
  BY Zenon DEF LockAlone, Busy
<1> QED
  BY <1>1, <1>2, <1>3, Zenon DEF AloneInv

(***************************************************************************)
(* lock_tester.cc, check_grant: with one client, a lock has one holder at  *)
(* a time, for any number of threads and locks and whatever times out.     *)
(***************************************************************************)
THEOREM MutualExclusionHolds ==
    ASSUME NEW c, Client = {c}
    PROVE  Spec => []MutualExclusion
<1>1. Init => LockInv /\ AloneInv(c)
  BY InitLockInv, InitAlone, Zenon
<1>2. LockInv /\ AloneInv(c) /\ [Next]_vars => (LockInv /\ AloneInv(c))'
  BY NextLockInv, NextAlone, Zenon
<1>3. AloneInv(c) => MutualExclusion
  <2> SUFFICES ASSUME AloneInv(c), NEW l \in Lock, NEW h1 \in Holders(l), NEW h2 \in Holders(l)
               PROVE  h1 = h2
    BY Zenon DEF MutualExclusion
  <2>0. ASSUME NEW h \in Holders(l)
        PROVE  h = <<c, h[2]>> /\ h[2] \in Thread /\ Busy(c, h[2], l)
    <3>1. /\ h = <<h[1], h[2]>> /\ h[1] \in Client /\ h[2] \in Thread
          /\ pc[h[1]][h[2]] = "holding" /\ wants[h[1]][h[2]] = l
      BY <2>0, HolderParts, Zenon
    <3> QED
      BY <3>1, Zenon DEF Busy
  <2>1. /\ h1 = <<c, h1[2]>> /\ h1[2] \in Thread /\ Busy(c, h1[2], l)
        /\ h2 = <<c, h2[2]>> /\ h2[2] \in Thread /\ Busy(c, h2[2], l)
    BY <2>0, Zenon
  <2>2. h1[2] = h2[2]
    BY <2>1, Zenon DEF AloneInv, LockAlone
  <2> QED
    BY <2>1, <2>2, Zenon
<1> QED
  BY <1>1, <1>2, <1>3, PTL DEF Spec

(***************************************************************************)
(* lock_client_cache.h, "at some point later": with one client and no      *)
(* timeouts, nobody is left inside acquire when everything is at rest.     *)
(***************************************************************************)
THEOREM NobodyStrandedHolds ==
    ASSUME NEW c, Client = {c}, MaxTimeouts = 0
    PROVE  Spec => []NobodyStranded
<1>1. Init => LockInv /\ AloneInv(c)
  BY InitLockInv, InitAlone, Zenon
<1>2. LockInv /\ AloneInv(c) /\ [Next]_vars => (LockInv /\ AloneInv(c))'
  BY NextLockInv, NextAlone, Zenon
<1>3. LockInv /\ AloneInv(c) => NobodyStranded
  <2> SUFFICES ASSUME LockInv, AloneInv(c), Quiet, NEW t \in Thread, pc[c][t] # "idle"
               PROVE  FALSE
    BY Zenon DEF NobodyStranded
  <2>0. c \in Client
    BY Zenon
  <2>1. \A u \in Thread : pc[c][u] \in {"idle", "asleep"}
    BY <2>0, Zenon DEF Quiet, AloneInv, NothingOwed
  <2>2. pc[c][t] = "asleep"
    BY <2>1, Zenon
  <2>a. PICK l, q : l = wants[c][t] /\ q = waiting_threads[c][l]
    BY Zenon
  <2>3. l \in Lock /\ q \in Seq(Thread) /\ q # <<>>
    BY <2>0, <2>2, <2>a, QueueOfThread, Zenon DEF LockInv, InAcquire
  <2>4. Head(q) \in Thread /\ Head(q) \in Range(q)
    <3>1. Head(q) = q[1] /\ 1 \in DOMAIN q /\ q[1] \in Thread
      BY <2>3, FrontOfList, ZenonT(30)
    <3> QED
      BY <3>1, Zenon DEF Range
  <2>5. wants[c][Head(q)] = l /\ pc[c][Head(q)] \in InAcquire
    BY <2>0, <2>3, <2>4, <2>a DEF LockInv, ThreadInv, QueuedWhileAcquiring
  <2>6. pc[c][Head(q)] = "asleep"
    BY <2>1, <2>4, <2>5, Zenon DEF InAcquire
  <2>7. Blocked(c, Head(q), l, q, state)
    BY <2>0, <2>4, <2>5, <2>6, <2>a, ZenonT(30) DEF LockInv, ThreadInv, NoLostWakeup
  <2>8. ~ to_be_revoked[c][l]
    <3>1. revoke_queue[c] = <<>>
      BY Zenon DEF AloneInv, NothingOwed
    <3> QED
      BY <2>0, <2>3, <3>1 DEF LockInv, ReleaserInv, RevokedIffQueued, Range
  <2>9. state[c][l] \in {"LOCKED", "ACQUIRING"}
    <3>1. state[c][l] \in LockState /\ state[c][l] # "RELEASING"
      BY <2>0, <2>3, ZenonT(30) DEF LockInv, ThreadInv, ThreadTypeOK, AloneInv, LockAlone
    <3> QED
      BY <2>7, <2>8, <3>1, Zenon DEF Blocked, LockState
  <2>10. timeouts = 0
    BY DEF AloneInv
  <2>11. PICK u \in Thread : Busy(c, u, l)
    BY <2>3, <2>9, <2>10, ZenonT(30) DEF AloneInv, LockAlone
  <2> QED
    BY <2>1, <2>11, Zenon DEF Busy
<1> QED
  BY <1>1, <1>2, <1>3, PTL DEF Spec

\* A step that leaves the threads where they are leaves the holders.
LEMMA HoldersStay ==
    ASSUME NEW l, \A h \in Client \X Thread :
              (pc[h[1]][h[2]] = "holding" /\ wants[h[1]][h[2]] = l)
                 <=> (pc'[h[1]][h[2]] = "holding" /\ wants'[h[1]][h[2]] = l)
    PROVE  HolderOf(l)' = HolderOf(l)
<1>1. Holders(l)' = Holders(l)
  BY Zenon DEF Holders
<1>2. /\ HolderOf(l) = IF Holders(l) = {} THEN Nobody ELSE CHOOSE h \in Holders(l) : TRUE
      /\ HolderOf(l)' = IF Holders(l)' = {} THEN Nobody ELSE CHOOSE h \in Holders(l)' : TRUE
  BY Zenon DEF HolderOf, Nobody
<1> QED
  BY <1>1, <1>2

\* A step of a thread takes a lock that nobody holds, gives one back, or leaves
\* the holders alone.
LEMMA OwnStepIsExclusive ==
    ASSUME NEW c, Client = {c}, AloneInv(c), ThreadSteps(c)
    PROVE  Exclusive!Next \/ UNCHANGED [l \in Lock |-> HolderOf(l)]
<1>1. PICK t \in Thread, l \in Lock :
         /\ OthersStay(c, t, l) /\ OwnStep(c, t, l)
         /\ pc[c][t] = "idle" \/ wants[c][t] = l
  BY Zenon DEF ThreadSteps
<1>2. ASSUME NEW k \in Lock, NEW u \in Thread, u # t
      PROVE  (pc[c][u] = "holding" /\ wants[c][u] = k) <=> (pc'[c][u] = "holding" /\ wants'[c][u] = k)
  BY <1>1, <1>2, Zenon DEF OthersStay
<1>3. ASSUME NEW k \in Lock, k # l
      PROVE  ~ (pc[c][t] = "holding" /\ wants[c][t] = k) /\ ~ (pc'[c][t] = "holding" /\ wants'[c][t] = k)
  BY <1>1, <1>3, ProtocolAssumption, ZenonT(30) DEF OwnStep
<1>4. ASSUME NEW k \in Lock, k # l PROVE HolderOf(k)' = HolderOf(k)
  BY <1>2, <1>3, <1>4, HoldersStay
<1>5. <<c, t>> \in Client \X Thread /\ <<c, t>>[1] = c /\ <<c, t>>[2] = t
  BY Zenon
<1>6. \A u \in Thread \ {t} : Busy(c, t, l) => ~ Busy(c, u, l)
  BY Zenon DEF AloneInv, LockAlone
<1>7. CASE pc[c][t] # "holding" /\ pc'[c][t] # "holding"
  <2>1. HolderOf(l)' = HolderOf(l)
    BY <1>2, <1>7, HoldersStay
  <2> QED
    BY <1>4, <2>1, ZenonT(30)
<1>8. CASE pc[c][t] # "holding" /\ pc'[c][t] = "holding"
  <2>1. \A u \in Thread : ~ (pc[c][u] = "holding" /\ wants[c][u] = l)
    BY <1>1, <1>6, <1>8, ZenonT(30) DEF OwnStep, Busy, AloneInv, LockAlone
  <2>2. wants'[c][t] = l
    BY <1>1, <1>8, Zenon DEF OwnStep
  <2>3. Holders(l) = {}
    BY <2>1, ZenonT(30) DEF Holders
  <2>4. Holders(l)' = {<<c, t>>}
    BY <1>2, <1>5, <1>8, <2>1, <2>2 DEF Holders
  <2>5. HolderOf(l) = Nobody /\ HolderOf(l)' = <<c, t>>
    BY <2>3, <2>4, Zenon DEF HolderOf
  <2>6. Exclusive!Acquire(<<c, t>>, l)
    BY <1>4, <2>5, Zenon DEF Exclusive!Acquire
  <2> QED
    BY <1>5, <2>6, Zenon DEF Exclusive!Next
<1>9. CASE pc[c][t] = "holding"
  <2>1. wants[c][t] = l /\ pc'[c][t] # "holding"
    BY <1>1, <1>9, Zenon DEF OwnStep, AloneInv, LockAlone, Busy
  <2>2. \A u \in Thread \ {t} : ~ (pc[c][u] = "holding" /\ wants[c][u] = l)
    BY <1>6, <1>9, <2>1, Zenon DEF Busy
  <2>3. Holders(l) = {<<c, t>>}
    <3>1. <<c, t>> \in Holders(l)
      BY <1>5, <1>9, <2>1, Zenon DEF Holders
    <3>2. ASSUME NEW h \in Holders(l) PROVE h = <<c, t>>
      <4>1. /\ h = <<h[1], h[2]>> /\ h[1] \in Client /\ h[2] \in Thread
            /\ pc[h[1]][h[2]] = "holding" /\ wants[h[1]][h[2]] = l
        BY <3>2, HolderParts, Zenon
      <4>2. h = <<c, h[2]>> /\ h[1] = c
        BY <4>1, Zenon
      <4> QED
        BY <2>2, <4>1, <4>2, Zenon
    <3> QED
      BY <3>1, <3>2, Zenon
  <2>4. Holders(l)' = {}
    BY <1>2, <2>1, <2>2 DEF Holders
  <2>5. HolderOf(l) = <<c, t>> /\ HolderOf(l)' = Nobody
    BY <2>3, <2>4, Zenon DEF HolderOf, Nobody
  <2>6. Exclusive!Release(<<c, t>>, l)
    BY <1>4, <2>5, Zenon DEF Exclusive!Release
  <2> QED
    BY <1>5, <2>6, Zenon DEF Exclusive!Next
<1> QED
  BY <1>7, <1>8, <1>9, Zenon

(***************************************************************************)
(* With one client the lock service implements ExclusiveLock: a lock goes  *)
(* to a thread only while nobody has it, and leaves it only when that      *)
(* thread releases it.                                                     *)
(***************************************************************************)
THEOREM ImplementsExclusiveLockHolds ==
    ASSUME NEW c, Client = {c}
    PROVE  Spec => ImplementsExclusiveLock
<1>1. Init => LockInv /\ AloneInv(c)
  BY InitLockInv, InitAlone, Zenon
<1>2. LockInv /\ AloneInv(c) /\ [Next]_vars => (LockInv /\ AloneInv(c))'
  BY NextLockInv, NextAlone, Zenon
<1>3. Init => Exclusive!Init
  <2> SUFFICES ASSUME Init, NEW l \in Lock PROVE HolderOf(l) = Nobody
    BY Zenon DEF Exclusive!Init
  <2>1. Holders(l) = {}
    BY Zenon DEF Holders, Init, ClientInit
  <2> QED
    BY <2>1, Zenon DEF HolderOf
<1>4. LockInv /\ AloneInv(c) /\ [Next]_vars => [Exclusive!Next]_([l \in Lock |-> HolderOf(l)])
  <2> SUFFICES ASSUME LockInv, AloneInv(c), [Next]_vars
               PROVE  Exclusive!Next \/ UNCHANGED [l \in Lock |-> HolderOf(l)]
    BY Zenon
  <2>1. CASE ThreadSteps(c)
    BY <2>1, OwnStepIsExclusive, Zenon
  <2>2. CASE UNCHANGED <<pc, wants>>
    <3>1. \A l \in Lock : HolderOf(l)' = HolderOf(l)
      BY <2>2, HoldersStay, Zenon
    <3> QED
      BY <3>1, Zenon
  <2> QED
    BY <2>1, <2>2, NextAlone, Zenon
<1> QED
  BY <1>1, <1>2, <1>3, <1>4, PTL DEF Spec, ImplementsExclusiveLock, Exclusive!Spec
=============================================================================
