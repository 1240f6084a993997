-------------------------- MODULE SchedulerProofs --------------------------
(***************************************************************************)
(* Proofs about Scheduler for every set of struct addresses, every time    *)
(* slice, every number of pids, and both outcomes of switch_to.            *)
(*                                                                         *)
(* The heart is that the list surgery keeps the run queue one cycle: the   *)
(* two lemmas below exhibit the new listing of the ring after an insertion *)
(* and after a removal.  IInv is then shown to be preserved action by      *)
(* action.                                                                 *)
(***************************************************************************)
EXTENDS Scheduler, NaturalsInduction, WellFoundedInduction, TLAPS

\* The listing with t put in front, and the one with its k-th member left out.
Prepended(n, s, t) == [i \in 1..(n + 1) |-> IF i = 1 THEN t ELSE s[i - 1]]
Without(n, s, k) == [i \in 1..(n - 1) |-> IF i < k THEN s[i] ELSE s[i + 1]]

Links == [Task -> Task \cup {NULL}]

\* The links of t's neighbours and its own when t is put in front of hd.
FrontNext(hd, nx, pv, t) ==
    IF hd = NULL THEN [nx EXCEPT ![t] = t]
    ELSE [u \in Task |-> IF u = pv[hd] THEN t ELSE IF u = t THEN hd ELSE nx[u]]
FrontPrev(hd, pv, t) ==
    IF hd = NULL THEN [pv EXCEPT ![t] = t]
    ELSE [pv EXCEPT ![t] = pv[hd], ![hd] = t]

\* add_task_to_runqueue: an unlinked struct in front of a ring makes a ring.
LEMMA PrependRing ==
    ASSUME NEW n \in Nat, NEW s \in [1..n -> Task],
           NEW hd, NEW nx \in Links, NEW pv \in Links,
           RingOf(n, s, hd, nx, pv),
           NEW t \in Task, \A i \in 1..n : s[i] # t
    PROVE  /\ Prepended(n, s, t) \in [1..(n + 1) -> Task]
           /\ RingOf(n + 1, Prepended(n, s, t), t,
                     FrontNext(hd, nx, pv, t), FrontPrev(hd, pv, t))
<1> DEFINE r == Prepended(n, s, t)
           fn == FrontNext(hd, nx, pv, t)
           fp == FrontPrev(hd, pv, t)
<1> USE ThreadsDistinct
<1>1. r \in [1..(n + 1) -> Task]
  BY DEF Prepended
<1>2. /\ r[1] = t
      /\ \A i \in 2..(n + 1) : i - 1 \in 1..n /\ r[i] = s[i - 1]
      /\ \A i \in 1..n : r[i + 1] = s[i]
  BY DEF Prepended
<1>3. \A i, j \in 1..(n + 1) : r[i] = r[j] => i = j
  <2> SUFFICES ASSUME NEW i \in 1..(n + 1), NEW j \in 1..(n + 1), r[i] = r[j]
               PROVE  i = j
    OBVIOUS
  <2> HIDE DEF r
  <2>1. CASE i = 1 /\ j = 1
    BY <2>1
  <2>2. CASE i = 1 /\ j # 1
    BY <2>2, <1>2
  <2>3. CASE i # 1 /\ j = 1
    BY <2>3, <1>2
  <2>4. CASE i # 1 /\ j # 1
    <3>1. i \in 2..(n + 1) /\ j \in 2..(n + 1)
      BY <2>4
    <3>2. s[i - 1] = s[j - 1] /\ i - 1 \in 1..n /\ j - 1 \in 1..n
      BY <3>1, <1>2
    <3>3. i - 1 = j - 1
      BY <3>2 DEF RingOf
    <3> QED
      BY <3>3
  <2> QED
    BY <2>1, <2>2, <2>3, <2>4
<1>4. \A u \in Task : (\A i \in 1..(n + 1) : r[i] # u) => u # t /\ \A i \in 1..n : s[i] # u
  <2> HIDE DEF r
  <2> QED
    BY <1>2
<1>5. CASE n = 0
  <2>1. hd = NULL
    BY <1>5 DEF RingOf
  <2>2. fn = [nx EXCEPT ![t] = t] /\ fp = [pv EXCEPT ![t] = t]
    BY <2>1 DEF FrontNext, FrontPrev
  <2>3. \A i \in 1..(n + 1) : /\ fn[r[i]] = r[IF i = n + 1 THEN 1 ELSE i + 1]
                              /\ fp[r[i]] = r[IF i = 1 THEN n + 1 ELSE i - 1]
    <3> HIDE DEF r, fn, fp
    <3> QED
      BY <1>5, <1>2, <2>2 DEF Links
  <2>4. \A u \in Task : (\A i \in 1..(n + 1) : r[i] # u) => fn[u] = NULL /\ fp[u] = NULL
    <3> HIDE DEF r, fn, fp
    <3> QED
      BY <1>4, <2>2 DEF RingOf, Links
  <2> HIDE DEF r, fn, fp
  <2>5. RingOf(n + 1, r, t, fn, fp)
    BY <1>2, <1>3, <2>3, <2>4 DEF RingOf
  <2> QED
    BY <1>1, <2>5 DEF r, fn, fp
<1>6. CASE n # 0
  <2>1. /\ hd = s[1] /\ hd \in Task /\ hd # t /\ hd # NULL
        /\ pv[hd] = s[n] /\ pv[hd] # t /\ n \in 1..n /\ 1 \in 1..n
    BY <1>6 DEF RingOf
  <2>2. /\ fn = [u \in Task |-> IF u = s[n] THEN t ELSE IF u = t THEN s[1] ELSE nx[u]]
        /\ fp = [pv EXCEPT ![t] = s[n], ![s[1]] = t]
    BY <2>1 DEF FrontNext, FrontPrev
  <2>3. \A i \in 1..n : /\ fn[s[i]] = IF i = n THEN t ELSE s[i + 1]
                        /\ fp[s[i]] = IF i = 1 THEN t ELSE s[i - 1]
    <3> SUFFICES ASSUME NEW i \in 1..n
                 PROVE  /\ fn[s[i]] = IF i = n THEN t ELSE s[i + 1]
                        /\ fp[s[i]] = IF i = 1 THEN t ELSE s[i - 1]
      OBVIOUS
    <3> HIDE DEF fn, fp
    <3>1. (s[i] = s[n] <=> i = n) /\ (s[i] = s[1] <=> i = 1) /\ s[i] # t /\ s[i] \in Task
      BY <2>1 DEF RingOf
    <3>2. /\ nx[s[i]] = s[IF i = n THEN 1 ELSE i + 1]
          /\ pv[s[i]] = s[IF i = 1 THEN n ELSE i - 1]
      BY DEF RingOf
    <3>3. fn[s[i]] = IF i = n THEN t ELSE s[i + 1]
      BY <3>1, <3>2, <2>2
    <3>4. fp[s[i]] = IF i = 1 THEN t ELSE s[i - 1]
      BY <3>1, <3>2, <2>2, <2>1 DEF Links
    <3> QED
      BY <3>3, <3>4
  <2>4. fn[t] = s[1] /\ fp[t] = s[n]
    BY <2>1, <2>2 DEF Links
  <2>5. \A i \in 1..(n + 1) : /\ fn[r[i]] = r[IF i = n + 1 THEN 1 ELSE i + 1]
                              /\ fp[r[i]] = r[IF i = 1 THEN n + 1 ELSE i - 1]
    <3> SUFFICES ASSUME NEW i \in 1..(n + 1)
                 PROVE  /\ fn[r[i]] = r[IF i = n + 1 THEN 1 ELSE i + 1]
                        /\ fp[r[i]] = r[IF i = 1 THEN n + 1 ELSE i - 1]
      OBVIOUS
    <3> HIDE DEF r, fn, fp
    <3>1. CASE i = 1
      BY <3>1, <1>2, <1>6, <2>1, <2>4
    <3>2. CASE i # 1
      <4> DEFINE m == i - 1
      <4>1. m \in 1..n /\ i = m + 1 /\ r[i] = s[m]
        BY <3>2, <1>2
      <4>2. fn[s[m]] = IF m = n THEN t ELSE s[m + 1]
        BY <4>1, <2>3
      <4>3. fp[s[m]] = IF m = 1 THEN t ELSE s[m - 1]
        BY <4>1, <2>3
      <4> HIDE DEF m
      <4>4. m # n => m + 1 \in 1..n /\ r[i + 1] = s[m + 1]
        BY <4>1, <1>2
      <4>5. m # 1 => m - 1 \in 1..n /\ r[m] = s[m - 1]
        BY <4>1, <1>2
      <4>6. fn[r[i]] = r[IF i = n + 1 THEN 1 ELSE i + 1]
        BY <4>1, <4>2, <4>4, <1>2
      <4>7. fp[r[i]] = r[IF i = 1 THEN n + 1 ELSE i - 1]
        BY <4>1, <4>3, <4>5, <1>2
      <4> QED
        BY <4>6, <4>7
    <3> QED
      BY <3>1, <3>2
  <2>6. \A u \in Task : (\A i \in 1..(n + 1) : r[i] # u) => fn[u] = NULL /\ fp[u] = NULL
    <3> HIDE DEF r, fn, fp
    <3> QED
      BY <1>4, <2>1, <2>2 DEF RingOf, Links
  <2> HIDE DEF r, fn, fp
  <2>7. RingOf(n + 1, r, t, fn, fp)
    BY <1>2, <1>3, <2>5, <2>6 DEF RingOf
  <2> QED
    BY <1>1, <2>7 DEF r, fn, fp
<1> QED
  BY <1>5, <1>6

\* What Unlink of the k-th member t must leave behind.
UnlinkResult(n, s, hd, nx, pv, k, t) ==
    /\ n - 1 \in Nat
    /\ Without(n, s, k) \in [1..(n - 1) -> Task]
    /\ \A i \in 1..(n - 1) : Without(n, s, k)[i] # t
    /\ RingOf(n - 1, Without(n, s, k),
              IF nx[t] = t THEN NULL ELSE IF hd = t THEN nx[t] ELSE hd,
              Spliced(nx, t, pv[t], nx[t]), Spliced(pv, t, nx[t], pv[t]))

\* The links of Unlink: taking the k-th member out of a ring leaves a ring.
LEMMA UnlinkRing ==
    ASSUME NEW n \in Nat, NEW s \in [1..n -> Task],
           NEW hd, NEW nx \in Links, NEW pv \in Links,
           RingOf(n, s, hd, nx, pv),
           NEW k \in 1..n, NEW t \in Task, t = s[k]
    PROVE  UnlinkResult(n, s, hd, nx, pv, k, t)
<1> DEFINE r == Without(n, s, k)
           sn == Spliced(nx, t, pv[t], nx[t])
           sp == Spliced(pv, t, nx[t], pv[t])
           h == IF nx[t] = t THEN NULL ELSE IF hd = t THEN nx[t] ELSE hd
<1> USE ThreadsDistinct
<1>1. n - 1 \in Nat /\ n \in 1..n /\ 1 \in 1..n /\ t \in Task
  OBVIOUS
<1>2. r \in [1..(n - 1) -> Task]
  BY DEF Without
<1>3. \A i \in 1..(n - 1) : r[i] = IF i < k THEN s[i] ELSE s[i + 1]
  BY DEF Without
<1>4. \A i, j \in 1..n : s[i] = s[j] => i = j
  BY DEF RingOf
<1>5. \A i \in 1..(n - 1) : r[i] # t
  <2> HIDE DEF r
  <2> QED
    BY <1>3, <1>4
<1>6. \A i, j \in 1..(n - 1) : r[i] = r[j] => i = j
  <2> SUFFICES ASSUME NEW i \in 1..(n - 1), NEW j \in 1..(n - 1), r[i] = r[j]
               PROVE  i = j
    OBVIOUS
  <2> HIDE DEF r
  <2> DEFINE ii == IF i < k THEN i ELSE i + 1
             jj == IF j < k THEN j ELSE j + 1
  <2>1. ii \in 1..n /\ jj \in 1..n /\ r[i] = s[ii] /\ r[j] = s[jj]
    BY <1>3
  <2>2. ii = jj
    <3> HIDE DEF ii, jj
    <3> QED
      BY <2>1, <1>4, Zenon
  <2> QED
    BY <2>2
<1>7. /\ nx[t] = s[IF k = n THEN 1 ELSE k + 1]
      /\ pv[t] = s[IF k = 1 THEN n ELSE k - 1]
  BY DEF RingOf
<1>8. /\ \A u \in Task : sn[u] = IF u = t THEN NULL ELSE IF u = pv[t] THEN nx[t] ELSE nx[u]
      /\ \A u \in Task : sp[u] = IF u = t THEN NULL ELSE IF u = nx[t] THEN pv[t] ELSE pv[u]
  BY DEF Spliced
<1>9. \A u \in Task : (\A i \in 1..(n - 1) : r[i] # u) => sn[u] = NULL /\ sp[u] = NULL
  <2> SUFFICES ASSUME NEW u \in Task, \A i \in 1..(n - 1) : r[i] # u
               PROVE  sn[u] = NULL /\ sp[u] = NULL
    OBVIOUS
  <2> HIDE DEF r, sn, sp
  <2>1. CASE u = t
    BY <2>1, <1>8
  <2>2. CASE u # t
    <3>1. \A i \in 1..n : s[i] # u
      <4> SUFFICES ASSUME NEW i \in 1..n
                   PROVE  s[i] # u
        OBVIOUS
      <4>1. CASE i < k
        BY <4>1, <1>3
      <4>2. CASE i = k
        BY <4>2, <2>2
      <4>3. CASE i > k
        <5>1. i - 1 \in 1..(n - 1) /\ ~(i - 1 < k) /\ (i - 1) + 1 = i
          BY <4>3
        <5> QED
          BY <5>1, <1>3, Zenon
      <4> QED
        BY <4>1, <4>2, <4>3
    <3>2. nx[u] = NULL /\ pv[u] = NULL
      BY <3>1 DEF RingOf
    <3>3. u # pv[t] /\ u # nx[t]
      BY <3>1, <1>7, <1>1
    <3> QED
      BY <2>2, <3>2, <3>3, <1>8
  <2> QED
    BY <2>1, <2>2
<1>10. h = IF n - 1 = 0 THEN NULL ELSE r[1]
  <2>1. hd = s[1]
    BY <1>1 DEF RingOf
  <2> HIDE DEF r
  <2>2. CASE n = 1
    BY <2>2, <1>7
  <2>3. CASE n # 1
    <3>1. nx[t] # t
      BY <2>3, <1>7, <1>4, <1>1
    <3>2. 1 \in 1..(n - 1)
      BY <2>3
    <3>3. CASE k = 1
      BY <3>3, <3>1, <3>2, <2>1, <2>3, <1>3, <1>7
    <3>4. CASE k # 1
      BY <3>4, <3>1, <3>2, <2>1, <2>3, <1>3, <1>4, <1>1
    <3> QED
      BY <3>3, <3>4
  <2> QED
    BY <2>2, <2>3
<1>11. \A i \in 1..(n - 1) : sn[r[i]] = r[IF i = n - 1 THEN 1 ELSE i + 1]
  <2> SUFFICES ASSUME NEW i \in 1..(n - 1)
               PROVE  sn[r[i]] = r[IF i = n - 1 THEN 1 ELSE i + 1]
    OBVIOUS
  <2> HIDE DEF r, sn, sp, h
  <2> DEFINE m == IF i < k THEN i ELSE i + 1
             p == IF k = 1 THEN n ELSE k - 1
  <2>1. m \in 1..n /\ p \in 1..n /\ m # k /\ r[i] = s[m] /\ pv[t] = s[p] /\ n > 1
    BY <1>3, <1>7
  <2>2. s[m] # t /\ (s[m] = pv[t] <=> m = p) /\ s[m] \in Task
    <3> HIDE DEF m, p
    <3> QED
      BY <2>1, <1>4
  <2>3. sn[r[i]] = IF m = p THEN nx[t] ELSE nx[s[m]]
    <3> HIDE DEF m, p
    <3> QED
      BY <2>1, <2>2, <1>8
  <2>4. nx[s[m]] = s[IF m = n THEN 1 ELSE m + 1]
    <3> HIDE DEF m, p
    <3> QED
      BY <2>1 DEF RingOf
  <2>5. CASE m = p
    BY <2>5, <2>3, <2>1, <1>7, <1>3
  <2>6. CASE m # p
    BY <2>6, <2>3, <2>4, <2>1, <1>3
  <2> QED
    BY <2>5, <2>6
<1>12. \A i \in 1..(n - 1) : sp[r[i]] = r[IF i = 1 THEN n - 1 ELSE i - 1]
  <2> SUFFICES ASSUME NEW i \in 1..(n - 1)
               PROVE  sp[r[i]] = r[IF i = 1 THEN n - 1 ELSE i - 1]
    OBVIOUS
  <2> HIDE DEF r, sn, sp, h
  <2> DEFINE m == IF i < k THEN i ELSE i + 1
             q == IF k = n THEN 1 ELSE k + 1
  <2>1. m \in 1..n /\ q \in 1..n /\ m # k /\ r[i] = s[m] /\ nx[t] = s[q] /\ n > 1
    BY <1>3, <1>7
  <2>2. s[m] # t /\ (s[m] = nx[t] <=> m = q) /\ s[m] \in Task
    <3> HIDE DEF m, q
    <3> QED
      BY <2>1, <1>4
  <2>3. sp[r[i]] = IF m = q THEN pv[t] ELSE pv[s[m]]
    <3> HIDE DEF m, q
    <3> QED
      BY <2>1, <2>2, <1>8
  <2>4. pv[s[m]] = s[IF m = 1 THEN n ELSE m - 1]
    <3> HIDE DEF m, q
    <3> QED
      BY <2>1 DEF RingOf
  <2>5. CASE m = q
    BY <2>5, <2>3, <2>1, <1>7, <1>3
  <2>6. CASE m # q
    BY <2>6, <2>3, <2>4, <2>1, <1>3
  <2> QED
    BY <2>5, <2>6
<1> HIDE DEF r, sn, sp, h
<1>13. RingOf(n - 1, r, h, sn, sp)
  BY <1>6, <1>9, <1>10, <1>11, <1>12 DEF RingOf
<1> QED
  BY <1>1, <1>2, <1>5, <1>13 DEF r, sn, sp, h, UnlinkResult

-----------------------------------------------------------------------------
\* A listing names exactly the linked structs, and their links lead to linked
\* structs again.
RingFacts(n, s, hd, nx, pv) ==
    /\ \A t \in Task : nx[t] # NULL <=> \E i \in 1..n : s[i] = t
    /\ hd = NULL <=> n = 0
    /\ hd # NULL => hd \in Task /\ nx[hd] # NULL
    /\ \A t \in Task : nx[t] # NULL => /\ nx[t] \in Task /\ nx[nx[t]] # NULL
                                       /\ pv[t] \in Task /\ nx[pv[t]] # NULL

\* RingFacts holds of every ring the queue operations build.
LEMMA RingLinked ==
    ASSUME NEW n \in Nat, NEW s \in [1..n -> Task],
           NEW hd, NEW nx \in Links, NEW pv \in Links,
           RingOf(n, s, hd, nx, pv)
    PROVE  RingFacts(n, s, hd, nx, pv)
<1> USE ThreadsDistinct
<1>1. \A i \in 1..n : nx[s[i]] \in Task
  BY SMTT(30) DEF RingOf
<1>2. \A t \in Task : nx[t] # NULL <=> \E i \in 1..n : s[i] = t
  <2> SUFFICES ASSUME NEW t \in Task
               PROVE  nx[t] # NULL <=> \E i \in 1..n : s[i] = t
    BY Zenon
  <2>1. (\E i \in 1..n : s[i] = t) => nx[t] \in Task
    BY <1>1
  <2>2. (\A i \in 1..n : s[i] # t) => nx[t] = NULL
    BY DEF RingOf
  <2> QED
    BY <2>1, <2>2
<1>3. hd = NULL <=> n = 0
  BY DEF RingOf
<1>4. hd # NULL => hd \in Task /\ nx[hd] # NULL
  BY <1>2, <1>3 DEF RingOf
<1>5. ASSUME NEW t \in Task, nx[t] # NULL
      PROVE  nx[t] \in Task /\ nx[nx[t]] # NULL /\ pv[t] \in Task /\ nx[pv[t]] # NULL
  <2>1. PICK i \in 1..n : s[i] = t
    BY <1>2, <1>5
  <2>2. /\ nx[t] = s[IF i = n THEN 1 ELSE i + 1]
        /\ pv[t] = s[IF i = 1 THEN n ELSE i - 1]
    BY <2>1 DEF RingOf
  <2> QED
    BY <2>2, <1>2
<1> QED
  BY <1>2, <1>3, <1>4, <1>5 DEF RingFacts

\* What every action may use about the queue.
LEMMA QueueFacts ==
    ASSUME IInv
    PROVE  /\ runqueue # NULL => runqueue \in Queued
           /\ \A t \in Queued : next[t] \in Queued /\ prev[t] \in Queued
           /\ \A t \in Task : t \notin Queued => next[t] = NULL /\ prev[t] = NULL
           /\ Scanning => subject \in Queued /\ runqueue # NULL
           /\ Queued \subseteq live
<1>1. PICK n \in 0..MaxQueued : \E s \in [1..n -> Task] : Ring(n, s) /\ ScanProgress(n, s)
  BY DEF IInv, RingInv
<1>2. PICK s \in [1..n -> Task] : Ring(n, s) /\ ScanProgress(n, s)
  BY <1>1
<1>3. TypeOK /\ n \in Nat
  BY <1>1, MaxPidNat DEF IInv, TypeOK, MaxQueued
<1>4. /\ \A t \in Task : t \in Queued <=> \E i \in 1..n : s[i] = t
      /\ runqueue = NULL <=> n = 0
      /\ runqueue # NULL => runqueue \in Queued
      /\ \A t \in Queued : next[t] \in Queued /\ prev[t] \in Queued
  <2>1. next \in Links /\ prev \in Links
    BY <1>3 DEF TypeOK, Links
  <2>2. RingOf(n, s, runqueue, next, prev)
    BY <1>2 DEF Ring
  <2>3. RingFacts(n, s, runqueue, next, prev)
    BY <1>3, <2>1, <2>2, RingLinked
  <2> QED
    BY <2>3, Zenon DEF RingFacts, Queued
<1>5. \A t \in Task : t \notin Queued => next[t] = NULL /\ prev[t] = NULL
  BY <1>2, <1>4 DEF Ring, RingOf
<1>6. Scanning => subject \in Queued /\ runqueue # NULL
  BY <1>2, <1>3, <1>4 DEF ScanProgress
<1>7. Queued \subseteq live
  BY DEF IInv, QueuedAreRunnable
<1> QED
  BY <1>4, <1>5, <1>6, <1>7

\* A step that leaves the links alone and no walk under way keeps the ring.
LEMMA RingKept ==
    ASSUME IInv, UNCHANGED queue, 0..MaxQueued \subseteq 0..MaxQueued', ~Scanning'
    PROVE  RingInv'
<1>1. PICK n \in 0..MaxQueued : \E s \in [1..n -> Task] : Ring(n, s)
  BY DEF IInv, RingInv
<1>2. PICK s \in [1..n -> Task] : Ring(n, s)
  BY <1>1
<1>3. n \in 0..MaxQueued'
  BY <1>1
<1>4. Ring(n, s)'
  BY <1>2 DEF Ring, RingOf, queue
<1>5. ScanProgress(n, s)'
  BY DEF ScanProgress
<1> QED
  BY <1>3, <1>4, <1>5 DEF RingInv

\* The bound on the queue grows with every pid and when a struct is queued.
LEMMA BoundKept ==
    ASSUME TypeOK, \/ pc' # "create" /\ next_pid' = next_pid
                   \/ pc # "create" /\ next_pid' = next_pid + 1
    PROVE  0..MaxQueued \subseteq 0..MaxQueued'
<1>1. next_pid \in Int
  BY MaxPidNat DEF TypeOK
<1>2. CASE pc' # "create" /\ next_pid' = next_pid
  <2>1. MaxQueued' = next_pid - 1
    BY <1>2 DEF MaxQueued
  <2>2. MaxQueued \in {next_pid - 1, next_pid - 2}
    BY DEF MaxQueued
  <2> QED
    BY <1>1, <2>1, <2>2
<1>3. CASE pc # "create" /\ next_pid' = next_pid + 1
  <2>1. MaxQueued = next_pid - 1
    BY <1>3 DEF MaxQueued
  <2>2. MaxQueued' \in {(next_pid + 1) - 1, (next_pid + 1) - 2}
    BY <1>3 DEF MaxQueued
  <2> QED
    BY <1>1, <2>1, <2>2
<1> QED
  BY <1>2, <1>3

-----------------------------------------------------------------------------
\* The initial state is an empty ring.
LEMMA InitIInv == Init => IInv
<1> SUFFICES ASSUME Init PROVE IInv
  OBVIOUS
<1> USE ThreadsDistinct, TimeSlicePositive, MaxPidNat DEF Init
<1>1. TypeOK
  <2>1. next_pid \in 1..(MaxPid + 1) /\ counter \in 0..(TimeSlice - 1) /\ wanted \in Nat
    OBVIOUS
  <2>2. need_schedule \in BOOLEAN /\ tasks_exist \in BOOLEAN /\ interrupts \in BOOLEAN /\ wild \in BOOLEAN
    BY Zenon
  <2>3. /\ next \in [Task -> Task \cup {NULL}] /\ prev \in [Task -> Task \cup {NULL}]
        /\ pid \in [Task -> Nat] /\ state \in [Task -> States]
    BY DEF States
  <2> QED
    BY <2>1, <2>2, <2>3, Zenon DEF TypeOK, Labels
<1>2. RingInv
  <2> DEFINE s == [i \in 1..0 |-> NULL]
  <2>1. 0 \in 0..MaxQueued /\ s \in [1..0 -> Task]
    BY DEF MaxQueued
  <2>2. Ring(0, s)
    BY DEF Ring, RingOf
  <2>3. ScanProgress(0, s)
    BY DEF ScanProgress, Scanning
  <2> QED
    BY <2>1, <2>2, <2>3, Zenon DEF RingInv
<1>3. PidInv /\ SubjectInv /\ LockInv /\ NoWildAccess /\ TasksExistCoversQueue
  BY DEF PidInv, SubjectInv, LockInv, NoWildAccess, TasksExistCoversQueue, Scanning
<1>4. CurrentTaskSound /\ QueuedAreRunnable
  BY DEF CurrentTaskSound, QueuedAreRunnable, Queued
<1> QED
  BY <1>1, <1>2, <1>3, <1>4 DEF IInv

\* Actions that only move the program counter, the flags or the interrupts.
LEMMA FlagStepsIInv ==
    ASSUME IInv, CallSchedule \/ YieldTest \/ YieldClear \/ Sti \/ scheduler_tick
    PROVE  IInv'
<1> USE ThreadsDistinct, TimeSlicePositive, MaxPidNat
<1>1. /\ UNCHANGED <<queue, structs, current_task, next_pid, held, thread,
                     subject, wanted, wild>>
      /\ tasks_exist' = tasks_exist
      /\ \/ pc \in {"client", "yield"} /\ pc' \in {"schedule", "yield"}
         \/ pc' = pc
  BY DEF CallSchedule, YieldTest, YieldClear, Sti, scheduler_tick, Calls, flags, call
<1> USE DEF queue, structs
<1>2. TypeOK'
  <2>1. counter' \in 0..(TimeSlice - 1)
    <3>1. CASE scheduler_tick
      BY <3>1 DEF IInv, TypeOK, scheduler_tick
    <3>2. CASE ~scheduler_tick
      BY <3>2 DEF IInv, TypeOK, CallSchedule, YieldTest, YieldClear, Sti, flags
    <3> QED
      BY <3>1, <3>2
  <2>2. need_schedule' \in BOOLEAN /\ interrupts' \in BOOLEAN
    BY Zenon DEF IInv, TypeOK, CallSchedule, YieldTest, YieldClear, Sti, scheduler_tick, flags
  <2> QED
    BY <1>1, <2>1, <2>2 DEF IInv, TypeOK, Labels
<1>3. RingInv'
  <2>1. PICK n \in 0..MaxQueued : \E s \in [1..n -> Task] : Ring(n, s) /\ ScanProgress(n, s)
    BY DEF IInv, RingInv
  <2>2. PICK s \in [1..n -> Task] : Ring(n, s) /\ ScanProgress(n, s)
    BY <2>1
  <2>3. Ring(n, s)' /\ ScanProgress(n, s)'
    BY <1>1, <2>2 DEF Ring, ScanProgress, Scanning
  <2>4. MaxQueued' = MaxQueued
    BY <1>1 DEF MaxQueued
  <2> QED
    BY <2>3, <2>4 DEF RingInv
<1>4. PidInv' /\ SubjectInv' /\ LockInv' /\ NoWildAccess' /\ TasksExistCoversQueue'
  BY <1>1 DEF IInv, PidInv, SubjectInv, LockInv, NoWildAccess, TasksExistCoversQueue,
              Scanning, Queued
<1>5. CurrentTaskSound' /\ QueuedAreRunnable'
  BY <1>1 DEF IInv, CurrentTaskSound, QueuedAreRunnable, Queued
<1> QED
  BY <1>2, <1>3, <1>4, <1>5 DEF IInv

\* task_create up to the second malloc.
LEMMA CreateStructIInv ==
    ASSUME IInv, NEW t \in Task, CreateStruct(t)
    PROVE  IInv'
<1> USE ThreadsDistinct, MaxPidNat DEF CreateStruct, Calls
<1>1. /\ t \notin Queued /\ next' = next /\ prev' = prev /\ Queued' = Queued
      /\ UNCHANGED queue
  BY QueueFacts DEF IInv, TypeOK, Queued, queue
<1>2. TypeOK'
  <2>1. next_pid + 1 \in 1..(MaxPid + 1)
    BY DEF IInv, TypeOK
  <2> QED
    BY <2>1, <1>1 DEF IInv, TypeOK, Labels, States, flags
<1>3. RingInv'
  <2>1. ~Scanning'
    BY DEF Scanning
  <2>2. 0..MaxQueued \subseteq 0..MaxQueued'
    BY BoundKept DEF IInv
  <2> QED
    BY <1>1, <2>1, <2>2, RingKept
<1>4. PidInv'
  <2>1. next_pid \in Nat /\ pid \in [Task -> Nat] /\ live \subseteq Task
    BY DEF IInv, TypeOK
  <2>2. \A u \in live : u # t /\ pid'[u] = pid[u] /\ pid[u] < next_pid
    BY <2>1 DEF IInv, PidInv
  <2>3. pid'[t] = next_pid
    BY <2>1
  <2> QED
    BY <2>1, <2>2, <2>3 DEF IInv, PidInv
<1>5. SubjectInv'
  BY <1>1 DEF IInv, SubjectInv, TypeOK, CurrentTaskSound
<1>6. LockInv' /\ TasksExistCoversQueue'
  BY DEF IInv, LockInv, TasksExistCoversQueue, Scanning, flags
<1>7. NoWildAccess' /\ CurrentTaskSound'
  BY <1>1 DEF IInv, NoWildAccess, CurrentTaskSound, TypeOK
<1>8. QueuedAreRunnable'
  BY <1>1, QueueFacts DEF IInv, QueuedAreRunnable, TypeOK, Queued
<1> QED
  BY <1>2, <1>3, <1>4, <1>5, <1>6, <1>7, <1>8 DEF IInv

\* The stack cannot be allocated: the struct, which is not queued, is freed.
LEMMA CreateNoStackIInv ==
    ASSUME IInv, CreateNoStack
    PROVE  IInv'
<1> USE ThreadsDistinct, MaxPidNat DEF CreateNoStack, Return
<1>1. /\ subject \in live \ Queued /\ subject # current_task /\ Queued' = Queued
      /\ live' \subseteq live
  BY DEF IInv, SubjectInv, Queued, queue
<1>2. TypeOK'
  BY <1>1 DEF IInv, TypeOK, Labels, flags, queue
<1>3. RingInv'
  <2>1. ~Scanning'
    BY DEF Scanning
  <2>2. 0..MaxQueued \subseteq 0..MaxQueued'
    BY BoundKept DEF IInv
  <2> QED
    BY <2>1, <2>2, RingKept
<1>4. PidInv'
  BY <1>1 DEF IInv, PidInv
<1>5. SubjectInv' /\ LockInv' /\ TasksExistCoversQueue' /\ NoWildAccess'
  BY DEF IInv, SubjectInv, LockInv, TasksExistCoversQueue, NoWildAccess, Scanning, flags, queue
<1>6. CurrentTaskSound'
  BY <1>1 DEF IInv, CurrentTaskSound
<1>7. QueuedAreRunnable'
  BY <1>1 DEF IInv, QueuedAreRunnable
<1> QED
  BY <1>2, <1>3, <1>4, <1>5, <1>6, <1>7 DEF IInv

\* The new struct is queued in front of the head.
LEMMA CreateEnqueueIInv ==
    ASSUME IInv, CreateEnqueue
    PROVE  IInv'
<1> USE ThreadsDistinct, MaxPidNat DEF CreateEnqueue, add_task_to_runqueue, Return
<1>1. /\ subject \in live \ Queued /\ subject # current_task /\ state[subject] = "RUNNING"
      /\ subject \in Task /\ subject # NULL
  BY DEF IInv, SubjectInv, TypeOK
<1>2. /\ runqueue # NULL => runqueue \in Queued /\ prev[runqueue] \in Queued
      /\ Queued \subseteq live
  BY QueueFacts
<1>3. next' = FrontNext(runqueue, next, prev, subject) /\ prev' = FrontPrev(runqueue, prev, subject)
  BY DEF FrontNext, FrontPrev
<1>4. next' \in Links /\ prev' \in Links
  BY <1>1, <1>2, <1>3 DEF FrontNext, FrontPrev, Links, IInv, TypeOK, Queued
<1>5. TypeOK'
  <2>1. wild' \in BOOLEAN /\ tasks_exist' \in BOOLEAN
    BY Zenon DEF Deref
  <2> QED
    BY <1>1, <1>4, <2>1 DEF IInv, TypeOK, Links, Labels, structs
<1>6. RingInv' /\ Queued' = Queued \cup {subject}
  <2>1. PICK n \in 0..MaxQueued : \E s \in [1..n -> Task] : Ring(n, s)
    BY DEF IInv, RingInv
  <2>2. PICK s \in [1..n -> Task] : Ring(n, s)
    BY <2>1
  <2>3. next_pid \in Int /\ n \in Nat /\ n <= next_pid - 2
    BY <2>1 DEF IInv, TypeOK, MaxQueued
  <2>4. /\ \A t \in Task : t \in Queued <=> \E i \in 1..n : s[i] = t
        /\ next \in Links /\ prev \in Links
    <3>1. next \in Links /\ prev \in Links
      BY DEF IInv, TypeOK, Links
    <3>2. RingOf(n, s, runqueue, next, prev)
      BY <2>2 DEF Ring
    <3>3. RingFacts(n, s, runqueue, next, prev)
      BY <2>3, <3>1, <3>2, RingLinked
    <3> QED
      BY <3>1, <3>3 DEF RingFacts, Queued
  <2>5. \A i \in 1..n : s[i] # subject
    BY <2>4, <1>1
  <2>6. PICK r \in [1..(n + 1) -> Task] : /\ r = Prepended(n, s, subject)
                                           /\ RingOf(n + 1, r, subject, next', prev')
    BY <1>1, <1>3, <2>2, <2>3, <2>4, <2>5, PrependRing, Zenon DEF Ring
  <2>7. \A t \in Task : (\E i \in 1..(n + 1) : r[i] = t) <=> t = subject \/ \E i \in 1..n : s[i] = t
    <3>1. /\ r[1] = subject
          /\ \A i \in 2..(n + 1) : i - 1 \in 1..n /\ r[i] = s[i - 1]
          /\ \A i \in 1..n : i + 1 \in 1..(n + 1) /\ r[i + 1] = s[i]
      BY <2>3, <2>6 DEF Prepended
    <3> QED
      BY <3>1, <2>3
  <2>8. Ring(n + 1, r)'
    BY <2>6 DEF Ring
  <2>9. ScanProgress(n + 1, r)'
    BY DEF ScanProgress, Scanning
  <2>10. n + 1 \in 0..MaxQueued'
    <3>1. MaxQueued' = next_pid - 1
      BY DEF MaxQueued
    <3> QED
      BY <3>1, <2>3
  <2>11. RingInv'
    BY <2>6, <2>8, <2>9, <2>10 DEF RingInv
  <2>12. \A t \in Task : t \in Queued' <=> \E i \in 1..(n + 1) : r[i] = t
    <3>1. n + 1 \in Nat
      BY <2>3
    <3>2. RingFacts(n + 1, r, subject, next', prev')
      BY <3>1, <2>6, <1>4, RingLinked
    <3> QED
      BY <3>2 DEF RingFacts, Queued
  <2> QED
    BY <2>4, <2>7, <2>11, <2>12, <1>1, SMTT(30) DEF Queued
<1>7. PidInv' /\ LockInv' /\ SubjectInv'
  BY DEF IInv, PidInv, LockInv, SubjectInv, Scanning, structs
<1>8. NoWildAccess'
  BY <1>1, <1>2, Zenon DEF IInv, NoWildAccess, Deref, structs
<1>9. CurrentTaskSound'
  BY <1>6 DEF IInv, CurrentTaskSound, structs
<1>10. QueuedAreRunnable' /\ TasksExistCoversQueue'
  BY <1>1, <1>6 DEF IInv, QueuedAreRunnable, TasksExistCoversQueue, structs
<1> QED
  BY <1>5, <1>6, <1>7, <1>8, <1>9, <1>10 DEF IInv

\* task_exit up to the removal from the queue.
LEMMA ExitMarkIInv ==
    ASSUME IInv, ExitMark
    PROVE  IInv'
<1> USE ThreadsDistinct, MaxPidNat DEF ExitMark, Calls
<1>1. current_task \in live /\ current_task \in Task /\ Queued' = Queued
  BY DEF IInv, TypeOK, CurrentTaskSound, Queued, queue
<1>2. TypeOK'
  <2>1. wild' \in BOOLEAN
    BY Zenon DEF Deref
  <2>2. state' \in [Task -> States] /\ subject' \in Task
    BY <1>1 DEF IInv, TypeOK, States
  <2> QED
    BY <2>1, <2>2 DEF IInv, TypeOK, Labels, flags, queue
<1>3. RingInv'
  <2>1. ~Scanning'
    BY DEF Scanning
  <2>2. 0..MaxQueued \subseteq 0..MaxQueued'
    BY BoundKept DEF IInv
  <2> QED
    BY <2>1, <2>2, RingKept
<1>4. PidInv' /\ LockInv' /\ TasksExistCoversQueue'
  BY DEF IInv, PidInv, LockInv, TasksExistCoversQueue, Scanning, flags, queue
<1>5. SubjectInv' /\ NoWildAccess' /\ CurrentTaskSound'
  BY <1>1 DEF IInv, SubjectInv, NoWildAccess, CurrentTaskSound, TypeOK, Deref
<1>6. QueuedAreRunnable'
  BY <1>1 DEF IInv, QueuedAreRunnable, TypeOK, Queued
<1> QED
  BY <1>2, <1>3, <1>4, <1>5, <1>6 DEF IInv

\* Unlink of a queued struct takes that one out of the queue and nothing else.
LEMMA UnlinkQueued ==
    ASSUME IInv, NEW t \in Queued, Unlink(t), next_pid' = next_pid,
           pc' \notin {"create", "find", "kill"}
    PROVE  /\ next' \in Links /\ prev' \in Links /\ runqueue' \in Task \cup {NULL}
           /\ RingInv' /\ Queued' = Queued \ {t}
           /\ wild' = wild
<1> USE ThreadsDistinct, MaxPidNat
<1>1. t \in Task /\ next \in Links /\ prev \in Links /\ wild \in BOOLEAN
  BY DEF Queued, IInv, TypeOK, Links
<1>2. next[t] \in Queued /\ prev[t] \in Queued /\ Queued \subseteq live
  BY QueueFacts
<1>3. next' \in Links /\ prev' \in Links /\ runqueue' \in Task \cup {NULL}
  BY <1>1, <1>2 DEF Unlink, Spliced, Links, Queued, IInv, TypeOK
<1>4. wild' = wild
  <2>1. (IF next[t] = t THEN {t} ELSE {t, prev[t], next[t]}) \subseteq live
    BY <1>2
  <2> QED
    BY <1>1, <2>1, Zenon DEF Unlink, Deref
<1>5. PICK n \in 0..MaxQueued : \E s \in [1..n -> Task] : Ring(n, s)
  BY DEF IInv, RingInv
<1>6. PICK s \in [1..n -> Task] : Ring(n, s)
  BY <1>5
<1>7. next_pid \in Int /\ n \in Nat /\ n <= next_pid - 1
  BY <1>5 DEF IInv, TypeOK, MaxQueued
<1>8. RingOf(n, s, runqueue, next, prev)
  BY <1>6 DEF Ring
<1>9. RingFacts(n, s, runqueue, next, prev)
  BY <1>1, <1>7, <1>8, RingLinked
<1>10. PICK k \in 1..n : s[k] = t
  BY <1>9, SMTT(30) DEF RingFacts, Queued
<1>11. PICK r : /\ r = Without(n, s, k)
                /\ n - 1 \in Nat /\ r \in [1..(n - 1) -> Task]
                /\ \A i \in 1..(n - 1) : r[i] # t
                /\ RingOf(n - 1, r, runqueue', next', prev')
  <2>1. UnlinkResult(n, s, runqueue, next, prev, k, t)
    BY <1>1, <1>7, <1>8, <1>10, UnlinkRing
  <2> QED
    BY <2>1, ZenonT(30) DEF Unlink, UnlinkResult
<1>12. RingFacts(n - 1, r, runqueue', next', prev')
  BY <1>3, <1>11, RingLinked
<1>13. RingInv'
  <2>1. MaxQueued' = next_pid - 1
    BY DEF MaxQueued
  <2>2. n - 1 \in 0..MaxQueued'
    BY <2>1, <1>7, <1>11
  <2>3. Ring(n - 1, r)'
    BY <1>11 DEF Ring
  <2>4. ScanProgress(n - 1, r)'
    BY DEF ScanProgress, Scanning
  <2> QED
    BY <1>11, <2>2, <2>3, <2>4 DEF RingInv
<1>14. \A u \in Task : (\E i \in 1..(n - 1) : r[i] = u) <=> u # t /\ \E i \in 1..n : s[i] = u
  <2>1. \A i \in 1..(n - 1) : r[i] = IF i < k THEN s[i] ELSE s[i + 1]
    BY <1>11 DEF Without
  <2>2. ASSUME NEW u \in Task, NEW i \in 1..(n - 1), r[i] = u
        PROVE  u # t /\ \E j \in 1..n : s[j] = u
    <3>1. i \in 1..n /\ i + 1 \in 1..n
      BY <1>7
    <3> QED
      BY <2>1, <2>2, <3>1, <1>11
  <2>3. ASSUME NEW u \in Task, u # t, NEW i \in 1..n, s[i] = u
        PROVE  \E j \in 1..(n - 1) : r[j] = u
    <3>1. CASE i < k
      <4>1. i \in 1..(n - 1)
        BY <3>1
      <4> QED
        BY <4>1, <3>1, <2>1, <2>3
    <3>2. CASE i = k
      BY <3>2, <2>3, <1>10
    <3>3. CASE i > k
      <4>1. i - 1 \in 1..(n - 1) /\ ~(i - 1 < k) /\ (i - 1) + 1 = i
        BY <3>3
      <4> QED
        BY <4>1, <2>1, <2>3, SMTT(30)
    <3> QED
      BY <3>1, <3>2, <3>3
  <2> QED
    BY <2>2, <2>3
<1>15. Queued' = Queued \ {t}
  BY <1>9, <1>12, <1>14, SMTT(30) DEF RingFacts, Queued
<1> QED
  BY <1>3, <1>4, <1>13, <1>15

\* The removal step of task_exit.  A second task_exit of the same zombie finds
\* its links cleared: it stores through NULL and leaves the queue alone.
LEMMA ExitRemoveIInv ==
    ASSUME IInv, ExitRemove
    PROVE  IInv'
<1> USE ThreadsDistinct, MaxPidNat DEF ExitRemove, remove_task_from_runqueue, StillTasks
<1>1. /\ subject = current_task /\ subject \in Task /\ subject \in live
      /\ state[subject] = "ZOMBIE" /\ current_task # NULL
  BY DEF IInv, SubjectInv, TypeOK, CurrentTaskSound
<1>2. /\ next' \in Links /\ prev' \in Links /\ runqueue' \in Task \cup {NULL}
      /\ RingInv' /\ Queued' = Queued \ {subject}
  <2>1. CASE runqueue = NULL \/ subject \notin Queued
    <3>1. subject \notin Queued /\ UNCHANGED queue
      <4>1. CASE runqueue = NULL
        <5>1. Queued = {}
          <6>1. PICK n \in 0..MaxQueued : \E s \in [1..n -> Task] : Ring(n, s)
            BY DEF IInv, RingInv
          <6>2. PICK s \in [1..n -> Task] : Ring(n, s)
            BY <6>1
          <6>3. n \in Nat /\ next \in Links /\ prev \in Links
            BY <6>1, SMTT(30) DEF IInv, TypeOK, MaxQueued, Links
          <6>4. RingFacts(n, s, runqueue, next, prev)
            BY <6>2, <6>3, RingLinked, ZenonT(30) DEF Ring
          <6> QED
            BY <6>4, <4>1 DEF RingFacts, Queued
        <5> QED
          BY <5>1, <4>1 DEF queue
      <4>2. CASE runqueue # NULL
        <5>1. subject \notin Queued /\ next[subject] = NULL /\ prev[subject] = NULL
          BY <2>1, <4>2, <1>1, QueueFacts, ZenonT(30)
        <5>2. runqueue # subject
          BY <5>1, <4>2, QueueFacts, ZenonT(30)
        <5>3. next \in Links /\ prev \in Links
          BY SMTT(30) DEF IInv, TypeOK, Links
        <5> QED
          BY <5>1, <5>2, <5>3, <4>2, <1>1, SMTT(30) DEF Unlink, Spliced, queue, Links
      <4> QED
        BY <4>1, <4>2, ZenonT(30)
    <3>2. ~Scanning' /\ 0..MaxQueued \subseteq 0..MaxQueued'
      BY BoundKept, ZenonT(30) DEF Scanning, IInv
    <3>3. RingInv'
      BY <3>1, <3>2, RingKept, ZenonT(30)
    <3> QED
      BY <3>1, <3>3, SMTT(30) DEF queue, Queued, IInv, TypeOK, Links
  <2>2. CASE runqueue # NULL /\ subject \in Queued
    BY <2>2, UnlinkQueued, Zenon
  <2> QED
    BY <2>1, <2>2
<1>3. tasks_exist' \in BOOLEAN /\ wild' \in BOOLEAN
  BY Zenon DEF Unlink, Deref, IInv, TypeOK
<1>4. TypeOK'
  BY <1>2, <1>3, ZenonT(30) DEF IInv, TypeOK, Links, Labels, structs
<1>5. PidInv' /\ LockInv' /\ SubjectInv'
  BY Zenon DEF IInv, PidInv, LockInv, SubjectInv, Scanning, structs
<1>6. NoWildAccess' /\ CurrentTaskSound'
  <2>1. /\ state' = state /\ live' = live /\ current_task' = current_task
        /\ thread' = thread /\ pc = "exit"
    BY Zenon DEF structs
  <2>2. NoWildAccess'
    BY <1>1, <2>1, Zenon DEF NoWildAccess
  <2>3. CurrentTaskSound'
    BY <1>1, <2>1, Zenon DEF IInv, CurrentTaskSound
  <2> QED
    BY <2>2, <2>3, ZenonT(30)
<1>7. QueuedAreRunnable'
  BY <1>2, ZenonT(30) DEF IInv, QueuedAreRunnable, structs
<1>8. TasksExistCoversQueue'
  BY Zenon DEF IInv, TasksExistCoversQueue, Unlink
<1> QED
  BY <1>2, <1>4, <1>5, <1>6, <1>7, <1>8, Zenon DEF IInv

\* The unlinking step of kill_task: its target is not the current task.
LEMMA KillUnlinkIInv ==
    ASSUME IInv, KillUnlink
    PROVE  IInv'
<1> USE ThreadsDistinct, MaxPidNat DEF KillUnlink, MayKill, LiveUntilReaped
<1>1. subject \in Queued /\ subject \in live /\ subject \in Task /\ runqueue # NULL
  BY QueueFacts DEF Scanning, Queued
<1>2. /\ next' \in Links /\ prev' \in Links /\ runqueue' \in Task \cup {NULL}
      /\ RingInv' /\ Queued' = Queued \ {subject}
      /\ wild' = wild
  BY <1>1, UnlinkQueued
<1>3. TypeOK'
  <2>1. state' \in [Task -> States]
    BY <1>1 DEF IInv, TypeOK, States
  <2> QED
    BY <1>2, <2>1, ZenonT(30) DEF IInv, TypeOK, Links, Labels, flags
<1>4. PidInv' /\ LockInv' /\ SubjectInv'
  BY <1>1, <1>2 DEF IInv, PidInv, LockInv, SubjectInv, Scanning
<1>5. NoWildAccess' /\ CurrentTaskSound'
  BY <1>1, <1>2, SMTT(30) DEF IInv, NoWildAccess, CurrentTaskSound, TypeOK
<1>6. QueuedAreRunnable'
  BY <1>1, <1>2 DEF IInv, QueuedAreRunnable, TypeOK, Queued
<1>7. TasksExistCoversQueue'
  BY <1>1 DEF IInv, TasksExistCoversQueue, flags
<1> QED
  BY <1>2, <1>3, <1>4, <1>5, <1>6, <1>7 DEF IInv

\* kill_task frees its target: it is neither queued nor the current task.
LEMMA KillFreeIInv ==
    ASSUME IInv, KillFree
    PROVE  IInv'
<1> USE ThreadsDistinct, MaxPidNat DEF KillFree, Return
<1>1. subject \in live \ Queued /\ subject # current_task /\ Queued' = Queued
  BY DEF IInv, SubjectInv, Queued, queue
<1>2. wild' = wild
  <2>1. {subject} \subseteq live /\ wild \in BOOLEAN
    BY <1>1 DEF IInv, TypeOK
  <2> QED
    BY <2>1, Zenon DEF Deref
<1>3. TypeOK'
  BY <1>2 DEF IInv, TypeOK, Labels, flags, queue
<1>4. RingInv'
  <2>1. ~Scanning' /\ 0..MaxQueued \subseteq 0..MaxQueued'
    BY BoundKept, SMTT(30) DEF Scanning, IInv
  <2> QED
    BY <2>1, RingKept
<1>5. PidInv' /\ SubjectInv' /\ LockInv' /\ TasksExistCoversQueue' /\ NoWildAccess'
  BY <1>2, ZenonT(30) DEF IInv, PidInv, SubjectInv, LockInv, TasksExistCoversQueue, NoWildAccess,
              Scanning, flags, queue
<1>6. CurrentTaskSound' /\ QueuedAreRunnable'
  BY <1>1, ZenonT(30) DEF IInv, CurrentTaskSound, QueuedAreRunnable
<1> QED
  BY <1>3, <1>4, <1>5, <1>6 DEF IInv

\* schedule moves current_task along the queue.  A zombie is not on it, so a
\* zombie is never left behind with wild set.
LEMMA ScheduleIInv ==
    ASSUME IInv, schedule
    PROVE  IInv'
<1> USE ThreadsDistinct, MaxPidNat DEF schedule, Return
<1>1. /\ Queued' = Queued
      /\ current_task # NULL => current_task \in live
      /\ current_task \in Task \cup {NULL}
  BY DEF IInv, TypeOK, CurrentTaskSound, Queued, queue
<1>2. wild' = wild
  <2>1. /\ (IF runqueue = NULL \/ current_task = NULL THEN {} ELSE {current_task}) \subseteq live
        /\ wild \in BOOLEAN
    BY <1>1, SMTT(30) DEF IInv, TypeOK
  <2> QED
    BY <2>1, Zenon DEF Deref
<1>3. \/ /\ pc' = "client" /\ current_task' = current_task /\ subject' = subject
      \/ /\ pc' = "switch" /\ subject' = current_task
         /\ current_task' \in Queued
         /\ current_task # NULL => state[current_task] # "ZOMBIE"
  <2>1. CASE ~(runqueue # NULL /\ Successor \notin {NULL, current_task})
    BY <2>1
  <2>2. CASE runqueue # NULL /\ Successor \notin {NULL, current_task}
    <3>1. CASE current_task = NULL
      BY <2>2, <3>1, QueueFacts DEF Successor
    <3>2. CASE current_task # NULL
      <4>1. current_task \in Queued
        BY <1>1, <2>2, <3>2, ZenonT(30) DEF Successor, Queued
      <4>2. state[current_task] = "RUNNING"
        BY <4>1 DEF IInv, QueuedAreRunnable
      <4> QED
        BY <2>2, <3>2, <4>1, <4>2, QueueFacts, SMTT(30) DEF Successor
    <3> QED
      BY <3>1, <3>2, SMTT(30)
  <2> QED
    BY <2>1, <2>2
<1>4. TypeOK'
  BY <1>1, <1>2, <1>3, ZenonT(30) DEF IInv, TypeOK, Labels, flags, queue, structs, Queued
<1>5. RingInv'
  <2>1. ~Scanning' /\ 0..MaxQueued \subseteq 0..MaxQueued'
    BY <1>3, BoundKept DEF Scanning, IInv
  <2> QED
    BY <2>1, RingKept
<1>6. Queued \subseteq live
  BY QueueFacts
<1>7. PidInv' /\ LockInv' /\ TasksExistCoversQueue'
  BY <1>3, ZenonT(30) DEF IInv, PidInv, LockInv, TasksExistCoversQueue, Scanning, flags, queue, structs
<1>8. SubjectInv'
  BY <1>1, <1>3, <1>6, ZenonT(30) DEF IInv, SubjectInv, structs, Queued
<1>9. NoWildAccess'
  BY <1>1, <1>2, <1>3, ZenonT(30) DEF IInv, NoWildAccess, structs
<1>10. CurrentTaskSound'
  BY <1>1, <1>3, <1>6, ZenonT(30) DEF IInv, CurrentTaskSound, structs
<1>11. QueuedAreRunnable'
  BY <1>1, <1>3 DEF IInv, QueuedAreRunnable, structs
<1> QED
  BY <1>4, <1>5, <1>7, <1>8, <1>9, <1>10, <1>11 DEF IInv

\* switch_to: the CPU goes where current_task points, or is lost.
LEMMA SwitchToIInv ==
    ASSUME IInv, SwitchTo
    PROVE  IInv'
<1> USE ThreadsDistinct, MaxPidNat DEF SwitchTo, Return
<1>1. /\ current_task \in live /\ current_task \in Task /\ subject \in live \cup {NULL}
      /\ Queued' = Queued
  BY DEF IInv, TypeOK, SubjectInv, CurrentTaskSound, Queued, queue
<1>2. wild' = wild
  <2>1. {current_task} \cup ({subject} \ {NULL}) \subseteq live /\ wild \in BOOLEAN
    BY <1>1, SMTT(30) DEF IInv, TypeOK
  <2> QED
    BY <2>1, Zenon DEF Deref
<1>3. TypeOK'
  BY <1>1, <1>2 DEF IInv, TypeOK, Labels, flags, queue, structs
<1>4. RingInv'
  <2>1. ~Scanning' /\ 0..MaxQueued \subseteq 0..MaxQueued'
    BY BoundKept, SMTT(30) DEF Scanning, IInv
  <2> QED
    BY <2>1, RingKept
<1>5. PidInv' /\ SubjectInv' /\ LockInv' /\ TasksExistCoversQueue' /\ NoWildAccess'
  BY <1>2, ZenonT(30) DEF IInv, PidInv, SubjectInv, LockInv, TasksExistCoversQueue, NoWildAccess,
              Scanning, flags, queue, structs
<1>6. CurrentTaskSound' /\ QueuedAreRunnable'
  BY <1>1, Zenon DEF IInv, CurrentTaskSound, QueuedAreRunnable, structs
<1> QED
  BY <1>3, <1>4, <1>5, <1>6, SMTT(30) DEF IInv

\* A walk starts at the head with the queue locked.
LEMMA LookupIInv ==
    ASSUME IInv, NEW p \in 0..MaxPid, NEW op \in {"find", "kill"}, Lookup(p, op)
    PROVE  IInv'
<1> USE ThreadsDistinct, MaxPidNat DEF Lookup, First, Calls
<1>1. Queued' = Queued
  BY ZenonT(30) DEF Queued, queue
<1>2. TypeOK'
  BY DEF IInv, TypeOK, Labels, flags, queue, structs
<1>3. RingInv'
  <2>1. PICK n \in 0..MaxQueued : \E s \in [1..n -> Task] : Ring(n, s)
    BY DEF IInv, RingInv
  <2>2. PICK s \in [1..n -> Task] : Ring(n, s)
    BY <2>1, SMTT(30)
  <2>3. Ring(n, s)' /\ n # 0 /\ subject' = s[1]
    BY <2>2, ZenonT(30) DEF Ring, RingOf, queue
  <2>4. ScanProgress(n, s)'
    <3>1. 1 \in 1..n
      BY <2>1, <2>3 DEF IInv, TypeOK, MaxQueued
    <3> QED
      BY <2>3, <3>1 DEF ScanProgress
  <2>5. MaxQueued' = MaxQueued
    BY SMTT(30) DEF MaxQueued
  <2> QED
    BY <2>3, <2>4, <2>5 DEF RingInv
<1>4. PidInv' /\ SubjectInv' /\ LockInv' /\ TasksExistCoversQueue' /\ NoWildAccess'
  BY ZenonT(30) DEF IInv, PidInv, SubjectInv, LockInv, TasksExistCoversQueue, NoWildAccess,
         Scanning, flags, queue, structs
<1>5. CurrentTaskSound' /\ QueuedAreRunnable'
  BY <1>1, Zenon DEF IInv, CurrentTaskSound, QueuedAreRunnable, structs
<1> QED
  BY <1>2, <1>3, <1>4, <1>5 DEF IInv

\* A step of the walk.  It ends at the last member of the listing, when every
\* member has been compared.
LEMMA ScanNextIInv ==
    ASSUME IInv, ScanNext
    PROVE  /\ IInv'
           /\ pc' = "client" => \A t \in Queued : pid[t] # wanted
<1> USE ThreadsDistinct, MaxPidNat DEF ScanNext, Return
<1>1. /\ subject \in Queued /\ subject \in live /\ subject \in Task /\ runqueue # NULL
      /\ next[subject] \in Queued /\ Queued' = Queued
  BY QueueFacts, ZenonT(30) DEF Queued, queue
<1>2. wild' = wild
  <2>1. {subject} \subseteq live /\ wild \in BOOLEAN
    BY <1>1 DEF IInv, TypeOK
  <2> QED
    BY <2>1, Zenon DEF Deref
<1>3. pc' \in {"client", pc}
  OBVIOUS
<1>4. TypeOK'
  BY <1>1, <1>2, <1>3 DEF IInv, TypeOK, Labels, flags, queue, structs, Queued
<1>5. PICK n \in 0..MaxQueued : \E s \in [1..n -> Task] : Ring(n, s) /\ ScanProgress(n, s)
  BY DEF IInv, RingInv
<1>6. PICK s \in [1..n -> Task] : Ring(n, s) /\ ScanProgress(n, s)
  BY <1>5
<1>7. n \in Nat /\ next \in Links /\ prev \in Links
  BY <1>5, SMTT(30) DEF IInv, TypeOK, MaxQueued, Links
<1>8. RingFacts(n, s, runqueue, next, prev)
  BY <1>6, <1>7, RingLinked, ZenonT(30) DEF Ring
<1>9. PICK k \in 1..n : subject = s[k] /\ \A j \in 1..(k - 1) : pid[s[j]] # wanted
  BY <1>6, Zenon DEF ScanProgress
<1>10. \A j \in 1..k : pid[s[j]] # wanted
  BY <1>9, SMTT(30) DEF Hit
<1>11. /\ next[subject] = s[IF k = n THEN 1 ELSE k + 1]
       /\ runqueue = s[1]
       /\ \A i, j \in 1..n : s[i] = s[j] => i = j
  BY <1>6, <1>7, <1>9 DEF Ring, RingOf
<1>12. next[subject] = runqueue <=> k = n
  BY <1>7, <1>11
<1>13. ASSUME pc' = "client"
       PROVE  \A t \in Queued : pid[t] # wanted
  <2>1. k = n
    BY <1>12, <1>13 DEF Scanning
  <2> QED
    BY <2>1, <1>8, <1>10, ZenonT(30) DEF RingFacts, Queued
<1>14. RingInv'
  <2>1. Ring(n, s)'
    BY <1>6 DEF Ring, queue
  <2>2. MaxQueued' = MaxQueued
    BY DEF MaxQueued, Scanning
  <2>3. ScanProgress(n, s)'
    <3>1. CASE k = n
      BY <3>1, <1>12 DEF ScanProgress, Scanning
    <3>2. CASE k # n
      <4>1. /\ k + 1 \in 1..n /\ subject' = s[k + 1]
            /\ \A j \in 1..((k + 1) - 1) : pid[s[j]] # wanted
        BY <3>2, <1>7, <1>10, <1>11, SMTT(30)
      <4> QED
        BY <4>1, SMTT(30) DEF ScanProgress, structs
    <3> QED
      BY <3>1, <3>2
  <2> QED
    BY <2>1, <2>2, <2>3, SMTT(30) DEF RingInv
<1>15. PidInv' /\ SubjectInv' /\ LockInv' /\ TasksExistCoversQueue' /\ NoWildAccess'
  BY <1>2, ZenonT(30) DEF IInv, PidInv, SubjectInv, LockInv, TasksExistCoversQueue, NoWildAccess,
              Scanning, flags, queue, structs
<1>16. CurrentTaskSound' /\ QueuedAreRunnable'
  BY <1>1, <1>3, Zenon DEF IInv, CurrentTaskSound, QueuedAreRunnable, structs, Scanning
<1> QED
  BY <1>4, <1>13, <1>14, <1>15, <1>16, SMTT(30) DEF IInv

\* The walk has found its task and nothing is to be done.
LEMMA ScanEndsIInv ==
    ASSUME IInv, ScanEnds
    PROVE  IInv'
<1> USE ThreadsDistinct, MaxPidNat DEF ScanEnds, Unlocked, Return
<1>1. subject \in Queued /\ subject \in live /\ Queued' = Queued
  BY QueueFacts, ZenonT(30) DEF Queued, queue
<1>2. wild' = wild
  <2>1. {subject} \subseteq live /\ wild \in BOOLEAN
    BY <1>1 DEF IInv, TypeOK
  <2> QED
    BY <2>1, Zenon DEF Deref
<1>3. TypeOK'
  BY <1>2, ZenonT(30) DEF IInv, TypeOK, Labels, flags, queue, structs
<1>4. RingInv'
  <2>1. ~Scanning' /\ 0..MaxQueued \subseteq 0..MaxQueued'
    BY BoundKept, SMTT(30) DEF Scanning, IInv
  <2> QED
    BY <2>1, RingKept
<1>5. PidInv' /\ SubjectInv' /\ LockInv' /\ TasksExistCoversQueue' /\ NoWildAccess'
  BY <1>2, ZenonT(30) DEF IInv, PidInv, SubjectInv, LockInv, TasksExistCoversQueue, NoWildAccess,
              Scanning, flags, queue, structs
<1>6. CurrentTaskSound' /\ QueuedAreRunnable'
  BY <1>1, Zenon DEF IInv, CurrentTaskSound, QueuedAreRunnable, structs, Scanning
<1> QED
  BY <1>3, <1>4, <1>5, <1>6, SMTT(30) DEF IInv

-----------------------------------------------------------------------------
\* Every step of the scheduler preserves the inductive invariant.
LEMMA NextIInv == IInv /\ [Next]_vars => IInv'
<1> SUFFICES ASSUME IInv, [Next]_vars PROVE IInv'
  OBVIOUS
<1>1. ASSUME NEW t \in Task, CreateStruct(t) PROVE IInv'
  BY <1>1, CreateStructIInv
<1>2. CASE ExitMark
  BY <1>2, ExitMarkIInv
<1>3. CASE CallSchedule \/ YieldTest \/ YieldClear \/ Sti \/ scheduler_tick
  BY <1>3, FlagStepsIInv
<1>4. ASSUME NEW p \in 0..MaxPid, NEW op \in {"find", "kill"}, Lookup(p, op) PROVE IInv'
  BY <1>4, LookupIInv
<1>5. CASE CreateNoStack
  BY <1>5, CreateNoStackIInv
<1>6. CASE CreateEnqueue
  BY <1>6, CreateEnqueueIInv
<1>7. CASE ExitRemove
  BY <1>7, ExitRemoveIInv
<1>8. CASE schedule
  BY <1>8, ScheduleIInv
<1>9. CASE SwitchTo
  BY <1>9, SwitchToIInv
<1>10. CASE ScanNext
  BY <1>10, ScanNextIInv
<1>11. CASE ScanEnds
  BY <1>11, ScanEndsIInv
<1>12. CASE KillUnlink
  BY <1>12, KillUnlinkIInv
<1>13. CASE KillFree
  BY <1>13, KillFreeIInv
<1>14. CASE UNCHANGED vars
  <2>1. MaxQueued' = MaxQueued /\ Queued' = Queued /\ Scanning' = Scanning
    BY <1>14, SMTT(30) DEF vars, MaxQueued, Queued, Scanning
  <2>2. TypeOK' /\ RingInv'
    BY <1>14, <2>1, ZenonT(30) DEF vars, IInv, TypeOK, RingInv, Ring, ScanProgress
  <2>3. PidInv' /\ SubjectInv' /\ LockInv' /\ NoWildAccess'
    BY <1>14, <2>1, Zenon DEF vars, IInv, PidInv, SubjectInv, LockInv, NoWildAccess
  <2>4. CurrentTaskSound' /\ QueuedAreRunnable' /\ TasksExistCoversQueue'
    BY <1>14, <2>1, Zenon DEF vars, IInv, CurrentTaskSound, QueuedAreRunnable, TasksExistCoversQueue
  <2> QED
    BY <2>2, <2>3, <2>4 DEF IInv
<1> QED
  BY <1>1, <1>2, <1>3, <1>4, <1>5, <1>6, <1>7, <1>8, <1>9, <1>10, <1>11, <1>12,
     <1>13, <1>14 DEF Next, Continue

\* The inductive invariant holds in every state of every behaviour.
THEOREM Invariance == Spec => []IInv
  BY InitIInv, NextIInv, PTL DEF Spec

\* Type correctness.
THEOREM TypeCorrect == Spec => []TypeOK
<1>1. IInv => TypeOK
  BY DEF IInv
<1> QED
  BY <1>1, Invariance, PTL

\* task.c keeps the run queue one well-formed cycle, for any number of tasks
\* and any sequence of creates, exits, kills and ticks.
THEOREM QueueStaysRing == Spec => []RunqueueIsRing
<1>1. IInv => RunqueueIsRing
  BY DEF IInv, RingInv, RunqueueIsRing
<1> QED
  BY <1>1, Invariance, PTL

\* A pid names at most one queued task.
THEOREM PidsStayUnique == Spec => []PidsUnique
<1>1. IInv => PidsUnique
  BY QueueFacts DEF IInv, PidInv, PidsUnique
<1> QED
  BY <1>1, Invariance, PTL

\* The scheduler is memory safe as long as no task makes calls after task_exit.
THEOREM MemorySafety == Spec => [](NoWildAccess /\ QueuedAreRunnable)
<1>1. IInv => NoWildAccess /\ QueuedAreRunnable
  BY DEF IInv
<1> QED
  BY <1>1, Invariance, PTL

\* current_task is always the running, allocated task.
THEOREM CurrentStaysSound == Spec => []CurrentTaskSound
<1>1. IInv => CurrentTaskSound
  BY DEF IInv
<1> QED
  BY <1>1, Invariance, PTL

\* The timer never takes the early return of scheduler_tick by mistake.
THEOREM TickNeverMisled == Spec => []TasksExistCoversQueue
<1>1. IInv => TasksExistCoversQueue
  BY DEF IInv
<1> QED
  BY <1>1, Invariance, PTL

\* A failed lookup is right: no queued task has the pid.
THEOREM LookupIsComplete == Spec => LookupComplete
<1>1. IInv /\ [Next]_vars => [ScanNext /\ pc' = "client" => \A t \in Queued : pid[t] # wanted]_vars
  BY ScanNextIInv
<1> QED
  BY <1>1, Invariance, PTL DEF Spec, LookupComplete

-----------------------------------------------------------------------------
(* The queue implements RoundRobin.  A ring has one listing, so the listings *)
(* that the lemmas above exhibit are the queue as a sequence.               *)

\* Induction over the natural numbers: the least number without a property
\* has a predecessor with it.
LEMMA Induction ==
    ASSUME NEW T, 0 \in T, \A n \in Nat : n \in T => n + 1 \in T
    PROVE  Nat \subseteq T
<1> SUFFICES ASSUME NEW S, S = {n \in Nat : n \notin T}, S # {} PROVE FALSE
  BY Zenon
<1>1. PICK m \in S : \A n \in S : ~(<<n, m>> \in OpToRel(<, Nat))
  BY WFMin, NatLessThanWellFounded, Zenon
<1>2. m \in Nat /\ m \notin T /\ m # 0 /\ m - 1 \in Nat
  OBVIOUS
<1>3. m - 1 \notin T
  <2>1. m - 1 + 1 = m
    BY <1>2
  <2> QED
    BY <1>2, <2>1
<1>4. m - 1 \in S /\ m - 1 < m
  BY <1>2, <1>3
<1>5. <<m - 1, m>> \in OpToRel(<, Nat)
  BY <1>2, <1>4, Zenon DEF OpToRel
<1> QED
  BY <1>1, <1>4, <1>5, Zenon

\* The links and the head determine the listing.
LEMMA RingUnique ==
    ASSUME NEW n \in Nat, NEW s \in [1..n -> Task], NEW m \in Nat, NEW r \in [1..m -> Task],
           NEW hd, NEW nx, NEW pv,
           RingOf(n, s, hd, nx, pv), RingOf(m, r, hd, nx, pv)
    PROVE  n = m /\ s = r
<1> USE ThreadsDistinct
<1> DEFINE T == {i \in Nat : i + 1 <= n /\ i + 1 <= m => s[i + 1] = r[i + 1]}
<1>1. n = 0 <=> m = 0
  BY DEF RingOf
<1>2. 0 \in T
  BY DEF RingOf
<1>3. ASSUME NEW i \in Nat, i \in T PROVE i + 1 \in T
  <2> SUFFICES ASSUME i + 2 <= n, i + 2 <= m PROVE s[i + 2] = r[i + 2]
    OBVIOUS
  <2>1. i + 1 \in 1..n /\ i + 1 # n /\ i + 1 \in 1..m /\ i + 1 # m /\ (i + 1) + 1 = i + 2
    OBVIOUS
  <2>2. s[i + 1] = r[i + 1]
    BY <1>3, <2>1
  <2>3. nx[s[i + 1]] = s[i + 2] /\ nx[r[i + 1]] = r[i + 2]
    BY <2>1 DEF RingOf
  <2> QED
    BY <2>2, <2>3
<1>4. Nat \subseteq T
  <2> HIDE DEF T
  <2> QED
    BY <1>2, <1>3, Induction
<1>5. \A i \in 1..n : i <= m => s[i] = r[i]
  <2> SUFFICES ASSUME NEW i \in 1..n, i <= m PROVE s[i] = r[i]
    OBVIOUS
  <2>1. i - 1 \in T /\ (i - 1) + 1 = i
    BY <1>4
  <2> QED
    BY <2>1
<1> HIDE DEF T
<1>6. ~(n < m)
  <2> SUFFICES ASSUME n < m PROVE FALSE
    OBVIOUS
  <2>1. n \in 1..n /\ n \in 1..m /\ n + 1 \in 1..m /\ 1 \in 1..m /\ n # m /\ 1 \in 1..n
    BY <1>1, SMTT(30)
  <2>2. nx[s[n]] = s[1] /\ nx[r[n]] = r[n + 1]
    BY <2>1 DEF RingOf
  <2>3. s[n] = r[n] /\ s[1] = r[1]
    BY <1>5, <2>1, SMTT(30)
  <2>4. r[n + 1] = r[1]
    BY <2>2, <2>3, SMTT(30)
  <2>5. n + 1 = 1
    BY <2>1, <2>4 DEF RingOf
  <2> QED
    BY <2>1, <2>5
<1>7. ~(m < n)
  <2> SUFFICES ASSUME m < n PROVE FALSE
    OBVIOUS
  <2>1. m \in 1..n /\ m \in 1..m /\ m + 1 \in 1..n /\ 1 \in 1..m /\ n # m /\ 1 \in 1..n
    BY <1>1
  <2>2. nx[r[m]] = r[1] /\ nx[s[m]] = s[m + 1]
    BY <2>1 DEF RingOf
  <2>3. s[m] = r[m] /\ s[1] = r[1]
    BY <1>5, <2>1
  <2>4. s[m + 1] = s[1]
    BY <2>2, <2>3, SMTT(30)
  <2>5. m + 1 = 1
    BY <2>1, <2>4 DEF RingOf
  <2> QED
    BY <2>1, <2>5
<1>8. n = m
  BY <1>6, <1>7
<1> QED
  BY <1>5, <1>8

\* The listing of at most q members, as a sequence.
ListOf(q, hd, nx, pv) ==
    CHOOSE s \in UNION {[1..n -> Task] : n \in 0..q} : RingOf(Len(s), s, hd, nx, pv)

\* It is the one that is known.
LEMMA ListIs ==
    ASSUME NEW q, NEW n \in 0..q, n \in Nat, NEW s \in [1..n -> Task],
           NEW hd, NEW nx, NEW pv, RingOf(n, s, hd, nx, pv)
    PROVE  ListOf(q, hd, nx, pv) = s
<1> DEFINE L == UNION {[1..k -> Task] : k \in 0..q}
<1>1. ASSUME NEW k \in Nat, NEW r \in [1..k -> Task] PROVE Len(r) = k
  OBVIOUS
<1>2. s \in L /\ RingOf(Len(s), s, hd, nx, pv)
  <2>1. Len(s) = n
    BY <1>1
  <2>2. s \in L
    BY ZenonT(30)
  <2> QED
    BY <2>1, <2>2
<1>3. ASSUME NEW r \in L, RingOf(Len(r), r, hd, nx, pv) PROVE r = s
  <2>1. PICK k \in 0..q : r \in [1..k -> Task]
    OBVIOUS
  <2>2. k \in Nat
    BY <2>1
  <2>3. Len(r) = k
    BY <1>1, <2>1, <2>2
  <2> QED
    BY <1>3, <2>1, <2>2, <2>3, RingUnique, Zenon
<1> HIDE DEF L
<1>4. (CHOOSE r \in L : RingOf(Len(r), r, hd, nx, pv)) = s
  BY <1>2, <1>3, Zenon
<1> QED
  BY <1>4 DEF ListOf, L

\* s is the queue with head hd: a sequence, and its ring.
Lists(s, hd, nx, pv) ==
    /\ Len(s) \in Nat /\ s \in [1..Len(s) -> Task]
    /\ RingOf(Len(s), s, hd, nx, pv)

\* A queue has one listing ...
LEMMA ListsUnique ==
    ASSUME NEW s, NEW r, NEW hd, NEW nx, NEW pv,
           Lists(s, hd, nx, pv), Lists(r, hd, nx, pv)
    PROVE  s = r
  BY RingUnique, Zenon DEF Lists

\* ... and any ring is one.
LEMMA RingLists ==
    ASSUME NEW n \in Nat, NEW s \in [1..n -> Task], NEW hd, NEW nx, NEW pv,
           RingOf(n, s, hd, nx, pv)
    PROVE  Lists(s, hd, nx, pv) /\ Len(s) = n
<1>1. Len(s) = n
  OBVIOUS
<1> QED
  BY <1>1, Zenon DEF Lists

OrderIsListing == Lists(Order, runqueue, next, prev)

\* Order is the listing of the queue ...
LEMMA OrderLists == IInv => OrderIsListing
<1> SUFFICES ASSUME IInv PROVE OrderIsListing
  OBVIOUS
<1>1. PICK n \in 0..MaxQueued : \E s \in [1..n -> Task] : Ring(n, s)
  BY DEF IInv, RingInv
<1>2. PICK s \in [1..n -> Task] : Ring(n, s)
  BY <1>1
<1>3. n \in Nat
  BY <1>1
<1>4. RingOf(n, s, runqueue, next, prev)
  BY <1>2 DEF Ring
<1>5. Order = ListOf(MaxQueued, runqueue, next, prev)
  BY Zenon DEF Order, ListOf, Ring
<1>6. Order = s
  BY <1>3, <1>4, <1>5, ListIs
<1> QED
  BY <1>3, <1>4, <1>6, RingLists DEF OrderIsListing

\* ... and so it is after a step.
LEMMA OrderListsNext == IInv' => OrderIsListing'
  BY OrderLists, PTL

\* The four things a step may do to the queue s and the current task c.
Arrival(s, c, r, d) ==
    \E t \in Task : /\ \A i \in 1..Len(s) : s[i] # t
                    /\ r = Prepended(Len(s), s, t) /\ d = c
Departure(s, c, r, d) ==
    \E k \in 1..Len(s) : r = Without(Len(s), s, k) /\ d = c
OpeningTurn(s, c, r, d) ==
    /\ c = NULL /\ Len(s) # 0
    /\ r = s /\ d = s[1]
LaterTurn(s, c, r, d) ==
    \E k \in 1..Len(s) : /\ c = s[k]
                         /\ r = s /\ d = s[IF k = Len(s) THEN 1 ELSE k + 1]
Move(s, c, r, d) ==
    \/ Arrival(s, c, r, d) \/ Departure(s, c, r, d)
    \/ OpeningTurn(s, c, r, d) \/ LaterTurn(s, c, r, d)
    \/ r = s /\ d = c

\* add_task_to_runqueue is an arrival.
LEMMA EnqueueMoves ==
    ASSUME IInv, IInv', CreateEnqueue
    PROVE  Arrival(Order, current_task, Order', current_task')
<1>1. /\ subject \in Task /\ next[subject] = NULL
  BY Zenon DEF CreateEnqueue, IInv, SubjectInv, TypeOK, Queued
<1>2. /\ runqueue' = subject /\ current_task' = current_task
      /\ next' = FrontNext(runqueue, next, prev, subject)
      /\ prev' = FrontPrev(runqueue, prev, subject)
  BY SMTT(30) DEF CreateEnqueue, add_task_to_runqueue, FrontNext, FrontPrev
<1>3. next \in Links /\ prev \in Links
  BY DEF IInv, TypeOK, Links
<1>4. Lists(Order, runqueue, next, prev) /\ Lists(Order', runqueue', next', prev')
  BY OrderLists, OrderListsNext, Zenon DEF OrderIsListing
<1>5. PICK s, n : s = Order /\ n = Len(s)
  BY Zenon
<1>6. n \in Nat /\ s \in [1..n -> Task] /\ RingOf(n, s, runqueue, next, prev)
  BY <1>4, <1>5, Zenon DEF Lists
<1>7. \A i \in 1..n : s[i] # subject
  <2>1. RingFacts(n, s, runqueue, next, prev)
    BY <1>3, <1>6, RingLinked, Zenon
  <2> QED
    BY <1>1, <2>1, Zenon DEF RingFacts
<1>8. /\ Prepended(n, s, subject) \in [1..(n + 1) -> Task]
      /\ RingOf(n + 1, Prepended(n, s, subject), runqueue', next', prev')
  BY <1>1, <1>2, <1>3, <1>6, <1>7, PrependRing, Zenon
<1>9. n + 1 \in Nat
  BY <1>6
<1>10. Lists(Prepended(n, s, subject), runqueue', next', prev')
  BY <1>8, <1>9, RingLists
<1>11. Order' = Prepended(n, s, subject)
  BY <1>4, <1>10, ListsUnique
<1> QED
  BY <1>1, <1>2, <1>5, <1>7, <1>11, Zenon DEF Arrival

\* Unlink of a queued struct is a departure.
LEMMA UnlinkMoves ==
    ASSUME IInv, IInv', NEW t \in Queued, Unlink(t), current_task' = current_task
    PROVE  Departure(Order, current_task, Order', current_task')
<1>1. t \in Task /\ next[t] # NULL
  BY SMTT(30) DEF Queued
<1>2. next \in Links /\ prev \in Links
  BY DEF IInv, TypeOK, Links
<1>3. Lists(Order, runqueue, next, prev) /\ Lists(Order', runqueue', next', prev')
  BY OrderLists, OrderListsNext, Zenon DEF OrderIsListing
<1>4. PICK s, n : s = Order /\ n = Len(s)
  BY Zenon
<1>5. n \in Nat /\ s \in [1..n -> Task] /\ RingOf(n, s, runqueue, next, prev)
  BY <1>3, <1>4, Zenon DEF Lists
<1>6. PICK k \in 1..n : s[k] = t
  <2>1. RingFacts(n, s, runqueue, next, prev)
    BY <1>2, <1>5, RingLinked, Zenon
  <2> QED
    BY <1>1, <2>1, Zenon DEF RingFacts
<1>7. UnlinkResult(n, s, runqueue, next, prev, k, t)
  BY <1>1, <1>2, <1>5, <1>6, UnlinkRing
<1>8. /\ n - 1 \in Nat /\ Without(n, s, k) \in [1..(n - 1) -> Task]
      /\ RingOf(n - 1, Without(n, s, k), runqueue', next', prev')
  BY <1>7, ZenonT(30) DEF Unlink, UnlinkResult
<1>9. Lists(Without(n, s, k), runqueue', next', prev')
  BY <1>8, RingLists
<1>10. Order' = Without(n, s, k)
  BY <1>3, <1>9, ListsUnique
<1> QED
  BY <1>4, <1>6, <1>10, Zenon DEF Departure

\* A step that leaves the queue alone leaves its listing alone.
LEMMA OrderKept ==
    ASSUME IInv, IInv', UNCHANGED queue
    PROVE  Order' = Order
<1>1. Lists(Order, runqueue, next, prev) /\ Lists(Order', runqueue', next', prev')
  BY OrderLists, OrderListsNext, Zenon DEF OrderIsListing
<1>2. Lists(Order', runqueue, next, prev)
  BY <1>1, Zenon DEF queue
<1> QED
  BY <1>1, <1>2, ListsUnique

\* schedule gives the CPU to the head, or to the task behind the current one.
LEMMA ScheduleMoves ==
    ASSUME IInv, IInv', schedule
    PROVE  Move(Order, current_task, Order', current_task')
<1>1. UNCHANGED queue
  BY DEF schedule
<1>2. Order' = Order
  BY <1>1, OrderKept
<1>3. CASE current_task' = current_task
  BY <1>2, <1>3, Zenon DEF Move
<1>4. CASE current_task' # current_task
  <2>1. /\ runqueue # NULL /\ Successor # NULL
        /\ current_task' = Successor
    BY <1>4 DEF schedule, Successor
  <2>2. Lists(Order, runqueue, next, prev)
    BY OrderLists, Zenon DEF OrderIsListing
  <2>3. PICK s, n : s = Order /\ n = Len(s)
    BY Zenon
  <2>4. n \in Nat /\ s \in [1..n -> Task] /\ RingOf(n, s, runqueue, next, prev)
    BY <2>2, <2>3, ZenonT(30) DEF Lists
  <2>5. next \in Links /\ prev \in Links /\ current_task \in Task \cup {NULL}
    BY DEF IInv, TypeOK, Links
  <2>6. CASE current_task = NULL
    <3>1. n # 0 /\ runqueue = s[1]
      BY <2>1, <2>4 DEF RingOf
    <3> QED
      BY <1>2, <2>1, <2>3, <2>6, <3>1, ZenonT(30) DEF Move, OpeningTurn, Successor
  <2>7. CASE current_task # NULL
    <3>1. current_task \in Task /\ next[current_task] # NULL /\ current_task' = next[current_task]
      BY <2>1, <2>5, <2>7 DEF Successor
    <3>2. PICK k \in 1..n : s[k] = current_task
      <4>1. RingFacts(n, s, runqueue, next, prev)
        BY <2>4, <2>5, RingLinked, Zenon
      <4> QED
        BY <3>1, <4>1, Zenon DEF RingFacts
    <3>3. next[s[k]] = s[IF k = n THEN 1 ELSE k + 1]
      BY <2>4, <3>2, Zenon DEF RingOf
    <3>4. LaterTurn(Order, current_task, Order', current_task')
      BY <1>2, <2>3, <3>1, <3>2, <3>3, Zenon DEF LaterTurn
    <3> QED
      BY <3>4, Zenon DEF Move
  <2> QED
    BY <2>6, <2>7, SMTT(30)
<1> QED
  BY <1>3, <1>4

\* The removal step of task_exit takes the task out of the line, or finds that
\* it is no longer in it.
LEMMA ExitMoves ==
    ASSUME IInv, IInv', ExitRemove
    PROVE  Move(Order, current_task, Order', current_task')
<1> USE DEF ExitRemove, remove_task_from_runqueue
<1>1. current_task' = current_task /\ subject \in Task
  BY DEF IInv, SubjectInv, TypeOK
<1>2. CASE runqueue # NULL /\ subject \in Queued
  <2>1. Unlink(subject)
    BY <1>2
  <2> QED
    BY <1>1, <1>2, <2>1, UnlinkMoves, Zenon DEF Move
<1>3. CASE runqueue = NULL
  <2>1. UNCHANGED queue
    BY <1>3 DEF queue
  <2> QED
    BY <1>1, <2>1, OrderKept, Zenon DEF Move
<1>4. CASE runqueue # NULL /\ subject \notin Queued
  <2>1. next[subject] = NULL /\ prev[subject] = NULL /\ runqueue # subject
    BY <1>1, <1>4, QueueFacts, ZenonT(30)
  <2>2. next \in Links /\ prev \in Links
    BY SMTT(30) DEF IInv, TypeOK, Links
  <2>3. Unlink(subject)
    BY <1>4, SMTT(30)
  <2>4. UNCHANGED queue
    BY ThreadsDistinct, <1>1, <2>1, <2>2, <2>3, SMTT(30) DEF Unlink, Spliced, queue, Links
  <2> QED
    BY <1>1, <2>4, OrderKept, Zenon DEF Move
<1> QED
  BY <1>2, <1>3, <1>4, ZenonT(30)

\* Every step makes one of the four moves, or none.
LEMMA StepMoves ==
    ASSUME IInv, IInv', [Next]_vars
    PROVE  Move(Order, current_task, Order', current_task')
<1>1. CASE UNCHANGED <<queue, current_task>>
  <2>1. Order' = Order /\ current_task' = current_task
    BY <1>1, OrderKept
  <2> QED
    BY <2>1, Zenon DEF Move
<1>2. ASSUME NEW t \in Task, CreateStruct(t) PROVE UNCHANGED <<queue, current_task>>
  <2>1. t \notin Queued
    BY <1>2, QueueFacts DEF CreateStruct
  <2>2. next[t] = NULL /\ prev[t] = NULL
    BY <2>1, QueueFacts, SMTT(30)
  <2>3. next \in Links /\ prev \in Links
    BY DEF IInv, TypeOK, Links
  <2> QED
    BY <1>2, <2>2, <2>3 DEF CreateStruct, queue, Links
<1>3. CASE ExitMark \/ CallSchedule \/ YieldTest \/ YieldClear \/ Sti \/ scheduler_tick
  BY <1>1, <1>3, Zenon DEF ExitMark, CallSchedule, YieldTest, YieldClear, Sti, scheduler_tick
<1>4. ASSUME NEW p \in 0..MaxPid, NEW op \in {"find", "kill"}, Lookup(p, op)
      PROVE  UNCHANGED <<queue, current_task>>
  BY <1>4, Zenon DEF Lookup
<1>5. CASE CreateNoStack \/ SwitchTo \/ ScanNext \/ ScanEnds \/ KillFree
  BY <1>1, <1>5, Zenon DEF CreateNoStack, SwitchTo, ScanNext, ScanEnds, KillFree
<1>6. CASE CreateEnqueue
  BY <1>6, EnqueueMoves, Zenon DEF Move
<1>7. CASE ExitRemove
  BY <1>7, ExitMoves
<1>8. CASE schedule
  BY <1>8, ScheduleMoves
<1>9. CASE KillUnlink
  <2>1. subject \in Queued /\ Unlink(subject) /\ current_task' = current_task
    BY <1>9, QueueFacts, Zenon DEF KillUnlink, Scanning
  <2> QED
    BY <2>1, UnlinkMoves, Zenon DEF Move
<1>10. CASE UNCHANGED vars
  BY <1>1, <1>10, Zenon DEF vars, queue
<1> QED
  BY <1>1, <1>2, <1>3, <1>4, <1>5, <1>6, <1>7, <1>8, <1>9, <1>10 DEF Next, Continue

-----------------------------------------------------------------------------
\* A listing without its links: no struct is in it twice.
Listing(s) ==
    /\ Len(s) \in Nat /\ s \in [1..Len(s) -> Task]
    /\ \A i, j \in 1..Len(s) : s[i] = s[j] => i = j

PlaceIn(s, t) == CHOOSE i \in 1..Len(s) : s[i] = t

\* A struct has the one place at which it is listed.
LEMMA PlaceIs ==
    ASSUME NEW s, Listing(s), NEW k \in 1..Len(s), NEW t, s[k] = t
    PROVE  PlaceIn(s, t) = k
<1>1. \A i \in 1..Len(s) : s[i] = t => i = k
  BY Zenon DEF Listing
<1> QED
  BY <1>1, Zenon DEF PlaceIn

\* Order is a listing ...
LEMMA OrderListing == IInv => Listing(Order)
  BY OrderLists, Zenon DEF OrderIsListing, Lists, RingOf, Listing

\* ... and so it is after a step.
LEMMA OrderListingNext == IInv' => Listing(Order')
  BY OrderListsNext, Zenon DEF OrderIsListing, Lists, RingOf, Listing

\* Putting t in front is what concatenation does.
LEMMA PrependedIs ==
    ASSUME NEW s, Listing(s), NEW t \in Task
    PROVE  Prepended(Len(s), s, t) = <<t>> \o s
<1>1. s \in Seq(Task) /\ <<t>> \in Seq(Task) /\ Len(<<t>>) = 1 /\ <<t>>[1] = t
  <2>1. Len(s) \in Nat /\ s \in [1..Len(s) -> Task]
    BY Zenon DEF Listing
  <2>2. s \in Seq(Task)
    BY <2>1
  <2>3. <<t>> \in Seq(Task) /\ Len(<<t>>) = 1 /\ <<t>>[1] = t
    OBVIOUS
  <2> QED
    BY <2>2, <2>3, Zenon
<1>2. PICK n \in Nat : n = Len(s)
  BY Zenon DEF Listing
<1>3. PICK q : q = <<t>> \o s
  BY Zenon
<1>4. q \in Seq(Task) /\ Len(q) = n + 1
  BY <1>1, <1>2, <1>3
<1>5. q \in [1..(n + 1) -> Task]
  BY <1>4
<1>6. \A i \in 1..(n + 1) : q[i] = IF i = 1 THEN t ELSE s[i - 1]
  BY <1>1, <1>2, <1>3
<1>7. q = [i \in 1..(n + 1) |-> IF i = 1 THEN t ELSE s[i - 1]]
  BY <1>5, <1>6
<1> QED
  BY <1>2, <1>3, <1>7, Zenon DEF Prepended

\* The empty queue is the empty sequence.
LEMMA EmptyListing ==
    ASSUME NEW s, Listing(s)
    PROVE  Len(s) = 0 <=> s = <<>>
  BY DEF Listing

\* Each move is a step of RoundRobin.
LEMMA MovesRefine ==
    ASSUME Listing(Order), Move(Order, current_task, Order', current_task')
    PROVE  [Line!Next]_<<Order, current_task>>
<1>1. /\ \A k \in 1..Len(Order) : Line!Place(Order[k]) = k
      /\ \A k \in 1..Len(Order) : Order[k] \in Line!Waiting /\ Order[k] \in Task
      /\ \A t : t \in Line!Waiting <=> \E k \in 1..Len(Order) : Order[k] = t
  <2>1. \A k \in 1..Len(Order) : Line!Place(Order[k]) = PlaceIn(Order, Order[k])
    BY Zenon DEF Line!Place, Line!Places, PlaceIn
  <2>2. \A k \in 1..Len(Order) : PlaceIn(Order, Order[k]) = k
    BY PlaceIs, Zenon
  <2>3. \A k \in 1..Len(Order) : Order[k] \in Line!Waiting /\ Order[k] \in Task
    BY Zenon DEF Line!Waiting, Line!Places, Listing
  <2>4. \A t : t \in Line!Waiting <=> \E k \in 1..Len(Order) : Order[k] = t
    BY Zenon DEF Line!Waiting, Line!Places
  <2> QED
    BY <2>1, <2>2, <2>3, <2>4, Zenon
<1>2. CASE Arrival(Order, current_task, Order', current_task')
  <2>1. PICK t \in Task : /\ \A i \in 1..Len(Order) : Order[i] # t
                          /\ Order' = Prepended(Len(Order), Order, t)
                          /\ current_task' = current_task
    BY <1>2, Zenon DEF Arrival
  <2>2. Order' = <<t>> \o Order
    BY <2>1, PrependedIs
  <2>3. Line!Arrive(t)
    BY <1>1, <2>1, <2>2, Zenon DEF Line!Arrive
  <2> QED
    BY <2>3, Zenon DEF Line!Next
<1>3. CASE Departure(Order, current_task, Order', current_task')
  <2>1. PICK k \in 1..Len(Order) : /\ Order' = Without(Len(Order), Order, k)
                                   /\ current_task' = current_task
    BY <1>3, Zenon DEF Departure
  <2>2. Line!Leave(Order[k])
    BY <1>1, <2>1, Zenon DEF Line!Leave, Without
  <2> QED
    BY <1>1, <2>2, Zenon DEF Line!Next
<1>4. CASE OpeningTurn(Order, current_task, Order', current_task')
  <2>1. Line!FirstTurn
    BY <1>4, EmptyListing, Zenon DEF Line!FirstTurn, OpeningTurn
  <2> QED
    BY <2>1, Zenon DEF Line!Next
<1>5. CASE LaterTurn(Order, current_task, Order', current_task')
  <2>1. PICK k \in 1..Len(Order) :
            /\ current_task = Order[k] /\ Order' = Order
            /\ current_task' = Order[IF k = Len(Order) THEN 1 ELSE k + 1]
    BY <1>5, Zenon DEF LaterTurn
  <2>2. Line!NextTurn
    BY <1>1, <2>1, Zenon DEF Line!NextTurn, Line!Behind
  <2> QED
    BY <2>2, Zenon DEF Line!Next
<1>6. CASE Order' = Order /\ current_task' = current_task
  BY <1>6, Zenon
<1> QED
  BY <1>2, <1>3, <1>4, <1>5, <1>6, Zenon DEF Move

\* The scheduler implements RoundRobin: the list surgery of task_create,
\* task_exit and kill_task keeps every other task in its place in the order, and
\* schedule gives the CPU to the next task in it.
THEOREM SchedulerIsRoundRobin == Spec => ImplementsRoundRobin
<1>1. Init => Order = <<>> /\ current_task = NULL
  <2> SUFFICES ASSUME Init PROVE Order = <<>> /\ current_task = NULL
    OBVIOUS
  <2>1. IInv
    BY InitIInv
  <2>2. Lists(Order, runqueue, next, prev) /\ Listing(Order)
    BY <2>1, OrderLists, OrderListing, Zenon DEF OrderIsListing
  <2>3. runqueue = NULL /\ current_task = NULL
    BY SMT DEF Init
  <2>4. PICK s, n : s = Order /\ n = Len(s)
    BY Zenon
  <2>5. /\ n \in Nat /\ s \in [1..n -> Task]
        /\ NULL = IF n = 0 THEN NULL ELSE s[1]
    BY <2>2, <2>3, <2>4, Zenon DEF Lists, RingOf
  <2>6. n = 0
    BY <2>5, ThreadsDistinct, SMT
  <2> QED
    BY <2>2, <2>3, <2>4, <2>6, EmptyListing, Zenon
<1>2. IInv /\ IInv' /\ [Next]_vars => [Line!Next]_<<Order, current_task>>
  BY StepMoves, MovesRefine, OrderListing, Zenon
<1> QED
  BY <1>1, <1>2, Invariance, PTL DEF Spec, ImplementsRoundRobin, Line!Spec

-----------------------------------------------------------------------------
(* How many turns a task is away from the CPU, before and after each move.  *)

\* Line!Ahead for the queue s and the current task c; and, in numbers, the way
\* from place p to place k round a ring of n.
AheadIn(s, c, t) ==
    IF c = NULL THEN PlaceIn(s, t)
    ELSE IF PlaceIn(s, t) >= PlaceIn(s, c) THEN PlaceIn(s, t) - PlaceIn(s, c)
    ELSE PlaceIn(s, t) - PlaceIn(s, c) + Len(s)
Gap(n, p, k) == IF k >= p THEN k - p ELSE k - p + n

\* Before the first turn the task at place k is k turns away.
LEMMA AheadBefore ==
    ASSUME NEW s, Listing(s), NEW k \in 1..Len(s)
    PROVE  AheadIn(s, NULL, s[k]) = k
  BY PlaceIs, Zenon DEF AheadIn

\* Later it is as many turns away as there are places on the way.
LEMMA AheadGap ==
    ASSUME NEW s, Listing(s), NEW k \in 1..Len(s), NEW p \in 1..Len(s)
    PROVE  AheadIn(s, s[p], s[k]) = Gap(Len(s), p, k)
<1>1. PlaceIn(s, s[k]) = k /\ PlaceIn(s, s[p]) = p
  BY PlaceIs, Zenon
<1>2. s[p] # NULL
  <2>1. s[p] \in Task
    BY Zenon DEF Listing
  <2> QED
    BY <2>1, ThreadsDistinct, SMT
<1> QED
  BY <1>1, <1>2, Zenon DEF AheadIn, Gap

\* t is somewhere in the listing.
Listed(s, t) == \E i \in 1..Len(s) : s[i] = t

\* What NobodyIsPutBack says of one task t.
NotPutBack(s, c, r, d, t) ==
    /\ d # c => AheadIn(r, d, t) = AheadIn(s, c, t) - 1
    /\ Len(r) < Len(s) => AheadIn(r, d, t) <= AheadIn(s, c, t)
    /\ AheadIn(r, d, t) <= AheadIn(s, c, t) + 1

\* The first turn: place k is k turns away, and then k - 1.
LEMMA OpeningCounts ==
    ASSUME NEW s, NEW c, NEW r, NEW d, NEW t, Listing(s),
           OpeningTurn(s, c, r, d), Listed(s, t)
    PROVE  NotPutBack(s, c, r, d, t)
<1>1. PICK k \in 1..Len(s) : s[k] = t
  BY Zenon DEF Listed
<1>2. PICK n \in Nat : n = Len(s) /\ n # 0
  BY Zenon DEF Listing, OpeningTurn
<1>3. 1 \in 1..Len(s) /\ k \in 1..n
  BY <1>2
<1>4. r = s /\ c = NULL /\ d = s[1]
  BY Zenon DEF OpeningTurn
<1>5. AheadIn(s, c, t) = k
  BY <1>1, <1>4, AheadBefore, Zenon
<1>6. AheadIn(r, d, t) = Gap(n, 1, k)
  BY <1>1, <1>2, <1>3, <1>4, AheadGap, Zenon
<1>7. Gap(n, 1, k) = k - 1
  BY <1>3 DEF Gap
<1>8. AheadIn(r, d, t) = AheadIn(s, c, t) - 1 /\ AheadIn(s, c, t) \in Int
  BY <1>3, <1>5, <1>6, <1>7
<1>9. ~(Len(r) < Len(s))
  BY <1>2, <1>4
<1> QED
  BY <1>8, <1>9 DEF NotPutBack

\* Every later turn: everybody but the task that had the CPU is one nearer.
LEMMA LaterCounts ==
    ASSUME NEW s, NEW c, NEW r, NEW d, NEW t, Listing(s),
           LaterTurn(s, c, r, d), Listed(s, t), t # c
    PROVE  NotPutBack(s, c, r, d, t)
<1>1. PICK k \in 1..Len(s) : s[k] = t
  BY Zenon DEF Listed
<1>2. PICK n \in Nat : n = Len(s)
  BY Zenon DEF Listing
<1>3. PICK p \in 1..Len(s) : c = s[p] /\ r = s /\ d = s[IF p = Len(s) THEN 1 ELSE p + 1]
  BY Zenon DEF LaterTurn
<1>4. PICK q : q = IF p = n THEN 1 ELSE p + 1
  BY Zenon
<1>5. k \in 1..n /\ p \in 1..n /\ q \in 1..n /\ k # p
  BY <1>1, <1>2, <1>3, <1>4
<1>6. AheadIn(s, c, t) = Gap(n, p, k)
  BY <1>1, <1>2, <1>3, AheadGap, Zenon
<1>7. AheadIn(r, d, t) = Gap(n, q, k)
  BY <1>1, <1>2, <1>3, <1>4, <1>5, AheadGap, Zenon
<1>8. Gap(n, q, k) = Gap(n, p, k) - 1 /\ Gap(n, p, k) \in Int
  BY <1>4, <1>5 DEF Gap
<1>9. ~(Len(r) < Len(s))
  BY <1>2, <1>3
<1> QED
  BY <1>6, <1>7, <1>8, <1>9 DEF NotPutBack

\* A task that arrives may go in between: one place more.
LEMMA ArrivalCounts ==
    ASSUME NEW s, NEW c, NEW r, NEW d, NEW t, Listing(s), Listing(r),
           Arrival(s, c, r, d), Listed(s, t), c = NULL \/ Listed(s, c)
    PROVE  NotPutBack(s, c, r, d, t)
<1>1. PICK k \in 1..Len(s) : s[k] = t
  BY Zenon DEF Listed
<1>2. PICK n \in Nat : n = Len(s)
  BY Zenon DEF Listing
<1>3. PICK u \in Task : r = Prepended(n, s, u) /\ d = c
  BY <1>2, Zenon DEF Arrival
<1>4. Len(r) = n + 1
  BY <1>2, <1>3 DEF Prepended
<1>5. \A i \in 1..n : i + 1 \in 1..(n + 1) /\ r[i + 1] = s[i]
  BY <1>2, <1>3 DEF Prepended
<1>6. ~(Len(r) < Len(s))
  BY <1>2, <1>4
<1>7. k \in 1..n /\ k + 1 \in 1..Len(r) /\ r[k + 1] = t
  BY <1>1, <1>2, <1>4, <1>5
<1>8. CASE c = NULL
  <2>1. AheadIn(s, c, t) = k
    BY <1>1, <1>8, AheadBefore, Zenon
  <2>2. AheadIn(r, d, t) = k + 1
    BY <1>3, <1>7, <1>8, AheadBefore, Zenon
  <2> QED
    BY <1>3, <1>6, <1>7, <2>1, <2>2 DEF NotPutBack
<1>9. CASE Listed(s, c)
  <2>1. PICK p \in 1..Len(s) : s[p] = c
    BY <1>9, Zenon DEF Listed
  <2>2. p \in 1..n /\ p + 1 \in 1..Len(r) /\ r[p + 1] = c
    BY <1>2, <1>4, <1>5, <2>1
  <2>3. AheadIn(s, c, t) = Gap(n, p, k)
    BY <1>1, <1>2, <2>1, AheadGap, Zenon
  <2>4. AheadIn(r, d, t) = Gap(n + 1, p + 1, k + 1)
    BY <1>3, <1>4, <1>7, <2>2, AheadGap, Zenon
  <2>5. Gap(n + 1, p + 1, k + 1) <= Gap(n, p, k) + 1
    BY <1>7, <2>2 DEF Gap
  <2> QED
    BY <1>3, <1>6, <2>3, <2>4, <2>5 DEF NotPutBack
<1> QED
  BY <1>8, <1>9

\* A task that leaves puts nobody back.
LEMMA DepartureCounts ==
    ASSUME NEW s, NEW c, NEW r, NEW d, NEW t, Listing(s), Listing(r),
           Departure(s, c, r, d), Listed(r, t), c = NULL \/ Listed(r, c)
    PROVE  NotPutBack(s, c, r, d, t)
<1>1. PICK n \in Nat : n = Len(s)
  BY Zenon DEF Listing
<1>2. PICK q \in 1..n : r = Without(n, s, q) /\ d = c
  BY <1>1, Zenon DEF Departure
<1>3. Len(r) = n - 1
  BY <1>2 DEF Without
<1>4. \A j \in 1..(n - 1) : r[j] = s[IF j < q THEN j ELSE j + 1]
  BY <1>2 DEF Without
<1>5. PICK j \in 1..Len(r) : r[j] = t
  BY Zenon DEF Listed
<1>6. PICK k : k = IF j < q THEN j ELSE j + 1
  BY Zenon
<1>7. j \in 1..(n - 1) /\ k \in 1..n /\ s[k] = t
  BY <1>3, <1>4, <1>5, <1>6
<1>8. k \in 1..Len(s)
  BY <1>1, <1>7
<1>9. CASE c = NULL
  <2>1. AheadIn(s, c, t) = k
    BY <1>7, <1>8, <1>9, AheadBefore, Zenon
  <2>2. AheadIn(r, d, t) = j
    BY <1>2, <1>5, <1>9, AheadBefore, Zenon
  <2>3. j <= k /\ j \in Int /\ k \in Int
    BY <1>6, <1>7
  <2> QED
    BY <1>2, <2>1, <2>2, <2>3 DEF NotPutBack
<1>10. CASE Listed(r, c)
  <2>1. PICK i \in 1..Len(r) : r[i] = c
    BY <1>10, Zenon DEF Listed
  <2>2. PICK p : p = IF i < q THEN i ELSE i + 1
    BY Zenon
  <2>3. i \in 1..(n - 1) /\ p \in 1..n /\ s[p] = c
    BY <1>3, <1>4, <2>1, <2>2
  <2>4. p \in 1..Len(s)
    BY <1>1, <2>3
  <2>5. AheadIn(s, c, t) = Gap(n, p, k)
    BY <1>1, <1>7, <1>8, <2>3, <2>4, AheadGap, Zenon
  <2>6. AheadIn(r, d, t) = Gap(n - 1, i, j)
    BY <1>2, <1>3, <1>5, <2>1, AheadGap, Zenon
  <2>7. /\ Gap(n - 1, i, j) <= Gap(n, p, k)
        /\ Gap(n - 1, i, j) \in Int /\ Gap(n, p, k) \in Int
    BY <1>2, <1>6, <1>7, <2>2, <2>3 DEF Gap
  <2> QED
    BY <1>2, <2>5, <2>6, <2>7 DEF NotPutBack
<1> QED
  BY <1>9, <1>10

\* No move puts a waiting task back by more than an arrival does.
LEMMA MovesCount ==
    ASSUME NEW s, NEW c, NEW r, NEW d, NEW t, Listing(s), Listing(r),
           Move(s, c, r, d), Listed(s, t), Listed(r, t), t # c,
           c = NULL \/ Listed(s, c), d = NULL \/ Listed(r, d)
    PROVE  NotPutBack(s, c, r, d, t)
<1>1. CASE Arrival(s, c, r, d)
  BY <1>1, ArrivalCounts, Zenon
<1>2. CASE Departure(s, c, r, d)
  <2>1. d = c
    BY <1>2, Zenon DEF Departure
  <2> QED
    BY <1>2, <2>1, DepartureCounts, Zenon
<1>3. CASE OpeningTurn(s, c, r, d)
  BY <1>3, OpeningCounts, Zenon
<1>4. CASE LaterTurn(s, c, r, d)
  BY <1>4, LaterCounts, Zenon
<1>5. CASE r = s /\ d = c
  <2>1. PICK k \in 1..Len(s) : s[k] = t
    BY Zenon DEF Listed
  <2>2. PICK n \in Nat : n = Len(s)
    BY Zenon DEF Listing
  <2>3. AheadIn(s, c, t) \in Int
    <3>1. CASE c = NULL
      <4>1. AheadIn(s, c, t) = k
        BY <2>1, <3>1, AheadBefore, Zenon
      <4> QED
        BY <2>2, <4>1
    <3>2. CASE Listed(s, c)
      <4>1. PICK p \in 1..Len(s) : s[p] = c
        BY <3>2, Zenon DEF Listed
      <4>2. AheadIn(s, c, t) = Gap(n, p, k)
        BY <2>1, <2>2, <4>1, AheadGap, Zenon
      <4> QED
        BY <2>2, <4>2 DEF Gap
    <3> QED
      BY <3>1, <3>2
  <2>4. PICK a \in Int : a = AheadIn(s, c, t) /\ a = AheadIn(r, d, t)
    BY <1>5, <2>3, Zenon
  <2>5. ~(Len(r) < Len(s))
    BY <1>5, <2>2
  <2> QED
    BY <1>5, <2>4, <2>5 DEF NotPutBack
<1> QED
  BY <1>1, <1>2, <1>3, <1>4, <1>5, Zenon DEF Move

\* Fairness of the round robin: while the CPU is with a task in line, each turn
\* brings every waiting task one place nearer, an exit or a kill puts nobody
\* back, and a create puts nobody back by more than one place.
THEOREM TurnsAreFair == Spec => TurnsComeNearer
<1>1. IInv /\ IInv' /\ [Next]_vars =>
         [Line!GoesRound /\ Line!GoesRound' => Line!NobodyIsPutBack]_<<Order, current_task>>
  <2> SUFFICES ASSUME IInv, IInv', [Next]_vars, Line!GoesRound, Line!GoesRound'
               PROVE  Line!NobodyIsPutBack
    BY Zenon
  <2>1. Listing(Order) /\ Listing(Order') /\ Move(Order, current_task, Order', current_task')
    BY OrderListing, OrderListingNext, StepMoves, Zenon
  <2>2. /\ \A t : t \in Line!Waiting <=> Listed(Order, t)
        /\ \A t : t \in Line!Waiting' <=> Listed(Order', t)
    BY Zenon DEF Line!Waiting, Line!Places, Listed
  <2>3. /\ current_task = NULL \/ Listed(Order, current_task)
        /\ current_task' = NULL \/ Listed(Order', current_task')
    BY <2>2, Zenon DEF Line!GoesRound
  <2>4. /\ \A t : Line!Ahead(t) = AheadIn(Order, current_task, t)
        /\ \A t : Line!Ahead(t)' = AheadIn(Order', current_task', t)
    BY Zenon DEF Line!Ahead, Line!Place, Line!Places, AheadIn, PlaceIn
  <2>5. ASSUME NEW t \in (Line!Waiting \cap Line!Waiting') \ {current_task}
        PROVE  NotPutBack(Order, current_task, Order', current_task', t)
    <3>1. Listed(Order, t) /\ Listed(Order', t) /\ t # current_task
      BY <2>2, <2>5, Zenon
    <3> QED
      BY <2>1, <2>3, <3>1, MovesCount, Zenon
  <2> QED
    BY <2>4, <2>5, Zenon DEF Line!NobodyIsPutBack, NotPutBack
<1> QED
  BY <1>1, Invariance, PTL DEF Spec, TurnsComeNearer, Line!EveryTurnCounts

-----------------------------------------------------------------------------
(* How many steps a call still takes by itself.  A walk passes each of the  *)
(* tasks from the one it is at to the last in line.                         *)

LeftIn(p, s, u) ==
    IF p \in {"find", "kill"} THEN 2 + Len(s) - PlaceIn(s, u)
    ELSE IF p = "client" THEN 0
    ELSE IF p \in {"create", "reap", "switch"} THEN 1
    ELSE IF p = "schedule" THEN 2
    ELSE 3
StepsLeft == LeftIn(pc, Order, subject)

\* No call is further from its return than the queue is long, but for the steps
\* around the walk.
CallIsShort == StepsLeft \in 0..(Len(Order) + 3)

\* Every step that is taken within a call of task.c brings it nearer to its
\* return, or is a timer interrupt, which leaves it where it is.
CallsShorten ==
    [][pc # "client" => \/ StepsLeft' \in Nat /\ StepsLeft' < StepsLeft
                        \/ scheduler_tick /\ StepsLeft' = StepsLeft]_vars

\* A walk is at a place in line.
LEMMA WalkPlace ==
    ASSUME IInv, Scanning
    PROVE  \E k \in 1..Len(Order) : /\ Order[k] = subject
                                    /\ StepsLeft = 2 + Len(Order) - k
<1>1. subject \in Task /\ next[subject] # NULL
  BY QueueFacts, Zenon DEF Queued
<1>2. next \in Links /\ prev \in Links
  BY DEF IInv, TypeOK, Links
<1>3. /\ Lists(Order, runqueue, next, prev) /\ Listing(Order)
  BY OrderLists, OrderListing, Zenon DEF OrderIsListing
<1>4. RingFacts(Len(Order), Order, runqueue, next, prev)
  BY <1>2, <1>3, RingLinked, Zenon DEF Lists
<1>5. PICK k \in 1..Len(Order) : Order[k] = subject
  BY <1>1, <1>4, Zenon DEF RingFacts
<1>6. PlaceIn(Order, subject) = k
  BY <1>3, <1>5, PlaceIs, Zenon
<1>7. StepsLeft = 2 + Len(Order) - k
  BY <1>6, Zenon DEF StepsLeft, LeftIn, Scanning
<1> QED
  BY <1>5, <1>7, Zenon

\* The loop of find_task_by_pid and kill_task goes one place further.
LEMMA WalkShortens ==
    ASSUME IInv, IInv', ScanNext
    PROVE  StepsLeft' \in Nat /\ StepsLeft' < StepsLeft
<1>1. Scanning /\ UNCHANGED queue /\ subject' = next[subject]
  BY Zenon DEF ScanNext
<1>2. Order' = Order
  BY <1>1, OrderKept, Zenon
<1>3. PICK k \in 1..Len(Order) : Order[k] = subject /\ StepsLeft = 2 + Len(Order) - k
  BY <1>1, WalkPlace, Zenon
<1>4. PICK n \in Nat : n = Len(Order)
  BY OrderListing, Zenon DEF Listing
<1>5. CASE pc' = "client"
  <2>1. StepsLeft' = 0
    BY <1>5 DEF StepsLeft, LeftIn
  <2> QED
    BY <1>3, <1>4, <2>1
<1>6. CASE pc' # "client"
  <2>1. pc' = pc /\ next[subject] # runqueue
    BY <1>6 DEF ScanNext, Return
  <2>2. RingOf(n, Order, runqueue, next, prev)
    BY <1>4, OrderLists, Zenon DEF OrderIsListing, Lists
  <2>3. k \in 1..n /\ n # 0
    BY <1>3, <1>4
  <2>4. runqueue = Order[1] /\ next[subject] = Order[IF k = n THEN 1 ELSE k + 1]
    BY <1>3, <2>2, <2>3, Zenon DEF RingOf
  <2>5. k # n /\ next[subject] = Order[k + 1]
    BY <2>1, <2>4, Zenon
  <2>6. k + 1 \in 1..Len(Order)
    BY <1>4, <2>3, <2>5
  <2>7. PlaceIn(Order, subject') = k + 1
    BY <1>1, <2>5, <2>6, OrderListing, PlaceIs, Zenon
  <2>8. StepsLeft' = 2 + Len(Order') - PlaceIn(Order', subject')
    BY <1>1, <2>1, Zenon DEF StepsLeft, LeftIn, Scanning
  <2>9. StepsLeft' = 2 + n - (k + 1) /\ StepsLeft = 2 + n - k
    BY <1>2, <1>3, <1>4, <2>7, <2>8, Zenon
  <2> QED
    BY <2>3, <2>5, <2>9
<1> QED
  BY <1>5, <1>6

\* So do the steps without a loop.
LEMMA CallShortens ==
    ASSUME IInv, IInv', [Next]_vars, ~UNCHANGED vars, pc # "client"
    PROVE  \/ StepsLeft' \in Nat /\ StepsLeft' < StepsLeft
           \/ scheduler_tick /\ StepsLeft' = StepsLeft
<1>1. CASE scheduler_tick
  <2>1. UNCHANGED queue /\ pc' = pc /\ subject' = subject
    BY <1>1, Zenon DEF scheduler_tick, call
  <2>2. Order' = Order
    BY <2>1, OrderKept, Zenon
  <2> QED
    BY <1>1, <2>1, <2>2, Zenon DEF StepsLeft
<1>2. CASE ScanNext
  BY <1>2, WalkShortens, Zenon
<1>3. CASE ScanEnds \/ KillUnlink
  <2>1. Scanning /\ pc' \in {"client", "reap"}
    BY <1>3 DEF ScanEnds, KillUnlink, Scanning, Return
  <2>2. PICK k \in 1..Len(Order) : Order[k] = subject /\ StepsLeft = 2 + Len(Order) - k
    BY <2>1, WalkPlace, Zenon
  <2>3. PICK n \in Nat : n = Len(Order)
    BY OrderListing, Zenon DEF Listing
  <2>4. StepsLeft' \in {0, 1}
    BY <2>1 DEF StepsLeft, LeftIn
  <2> QED
    BY <2>2, <2>3, <2>4
<1>4. CASE CreateNoStack \/ CreateEnqueue \/ SwitchTo \/ KillFree
  <2>1. pc \in {"create", "reap", "switch"} /\ pc' = "client"
    BY <1>4 DEF CreateNoStack, CreateEnqueue, SwitchTo, KillFree, Return
  <2> QED
    BY <2>1 DEF StepsLeft, LeftIn
<1>5. CASE ExitRemove \/ YieldClear
  <2>1. pc \in {"exit", "yield"} /\ pc' = "schedule"
    BY <1>5 DEF ExitRemove, YieldClear
  <2> QED
    BY <2>1 DEF StepsLeft, LeftIn
<1>6. CASE schedule
  <2>1. pc = "schedule" /\ pc' \in {"client", "switch"}
    BY <1>6 DEF schedule, Return
  <2> QED
    BY <2>1 DEF StepsLeft, LeftIn
<1>7. /\ \A t \in Task : ~CreateStruct(t)
      /\ ~ExitMark /\ ~CallSchedule /\ ~YieldTest /\ ~Sti
      /\ \A p \in 0..MaxPid, op \in {"find", "kill"} : ~Lookup(p, op)
  BY Zenon DEF CreateStruct, ExitMark, CallSchedule, YieldTest, Sti, Lookup, Calls
<1> QED
  BY <1>1, <1>2, <1>3, <1>4, <1>5, <1>6, <1>7, Zenon DEF Next, Continue

\* Every call of task.c is over after a number of its own steps that the length
\* of the queue bounds: no search goes round for ever and no path leads back.
THEOREM CallsAreFinite == Spec => []CallIsShort /\ CallsShorten
<1>1. IInv => CallIsShort
  <2> SUFFICES ASSUME IInv PROVE CallIsShort
    OBVIOUS
  <2>1. PICK n \in Nat : n = Len(Order)
    BY OrderListing, Zenon DEF Listing
  <2>2. CASE Scanning
    BY <2>1, <2>2, WalkPlace DEF CallIsShort
  <2>3. CASE ~Scanning
    <3>1. StepsLeft \in {0, 1, 2, 3}
      BY <2>3 DEF StepsLeft, LeftIn, Scanning
    <3> QED
      BY <2>1, <3>1 DEF CallIsShort
  <2> QED
    BY <2>2, <2>3
<1>2. IInv /\ IInv' /\ [Next]_vars =>
         [pc # "client" => \/ StepsLeft' \in Nat /\ StepsLeft' < StepsLeft
                           \/ scheduler_tick /\ StepsLeft' = StepsLeft]_vars
  BY CallShortens, Zenon
<1> QED
  BY <1>1, <1>2, Invariance, PTL DEF Spec, CallsShorten
=============================================================================
