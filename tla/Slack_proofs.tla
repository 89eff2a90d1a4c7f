---------------------------- MODULE Slack_proofs ----------------------------
(***************************************************************************)
(* Proofs about the Slack frontend and the thread pool, for every number   *)
(* of workers, sessions and channels.                                      *)
(***************************************************************************)
EXTENDS Slack, LoopTheorems

-----------------------------------------------------------------------------
(* The thread pool. *)

Pools == [freeThreads : Seq(Workers), requestQueue : Seq(JobSet),
          worker : [Workers -> JobSet \cup {NoJob}], posted : Seq(Workers)]

Entries(q) == {q[i] : i \in DOMAIN q}
Distinct(q) == \A i, k \in DOMAIN q : q[i] = q[k] => i = k

\* Each worker is free or has a job, and is listed once.
Exact(p) ==
    /\ p \in Pools
    /\ Entries(p.freeThreads) = {w \in Workers : p.worker[w] = NoJob}
    /\ Distinct(p.freeThreads) /\ Distinct(p.posted)
    /\ Entries(p.posted) \cap Entries(p.freeThreads) = {}

PoolInv(p) == Exact(p) /\ (p.requestQueue # <<>> => p.freeThreads = <<>>)

\* The jobs of a pool, waiting or with a worker.
JobsIn(p) == Entries(p.requestQueue) \cup {p.worker[w] : w \in {v \in Workers : p.worker[v] # NoJob}}

\* What the main loop may do to a pool before it releases a worker.
PoolGrows(p, q) ==
    /\ JobsIn(p) \subseteq JobsIn(q)
    /\ q.posted = p.posted
    /\ \A w \in Workers : p.worker[w] # NoJob => q.worker[w] = p.worker[w]

\* Facts about sequences that the lemmas below use.
LEMMA TailOf ==
    ASSUME NEW S, NEW q \in Seq(S), q # <<>>
    PROVE  /\ Head(q) \in S /\ Tail(q) \in Seq(S)
           /\ Entries(q) = {Head(q)} \cup Entries(Tail(q))
           /\ Distinct(q) => Distinct(Tail(q)) /\ Head(q) \notin Entries(Tail(q))
<1>1. /\ DOMAIN q = 1 .. Len(q) /\ Len(q) \in Nat /\ Len(q) > 0
      /\ Tail(q) \in Seq(S) /\ DOMAIN Tail(q) = 1 .. Len(q) - 1
      /\ \A i \in 1 .. Len(q) - 1 : Tail(q)[i] = q[i + 1]
      /\ Head(q) = q[1] /\ 1 \in DOMAIN q /\ q[1] \in S
  OBVIOUS
<1>2. Entries(q) \subseteq {Head(q)} \cup Entries(Tail(q))
  <2> SUFFICES ASSUME NEW i \in DOMAIN q, i # 1 PROVE q[i] \in Entries(Tail(q))
    BY <1>1 DEF Entries
  <2>1. i - 1 \in DOMAIN Tail(q) /\ Tail(q)[i - 1] = q[i]
    BY <1>1
  <2> QED BY <2>1 DEF Entries
<1>3. {Head(q)} \cup Entries(Tail(q)) \subseteq Entries(q)
  BY <1>1 DEF Entries
<1>4. Distinct(q) => Distinct(Tail(q)) /\ Head(q) \notin Entries(Tail(q))
  BY SMTT(30), <1>1 DEF Distinct, Entries
<1> QED BY <1>1, <1>2, <1>3, <1>4

\* Append to a queue, its entries and whether they are distinct.
LEMMA AppendTo ==
    ASSUME NEW S, NEW q \in Seq(S), NEW x \in S
    PROVE  /\ Append(q, x) \in Seq(S) /\ Append(q, x) # <<>>
           /\ Entries(Append(q, x)) = Entries(q) \cup {x}
           /\ Distinct(q) /\ x \notin Entries(q) => Distinct(Append(q, x))
<1>1. /\ DOMAIN q = 1 .. Len(q) /\ Len(q) \in Nat
      /\ Append(q, x) \in Seq(S) /\ DOMAIN Append(q, x) = 1 .. Len(q) + 1
      /\ \A i \in 1 .. Len(q) : Append(q, x)[i] = q[i]
      /\ Append(q, x)[Len(q) + 1] = x
  OBVIOUS
<1>2. Entries(Append(q, x)) = Entries(q) \cup {x}
  BY <1>1 DEF Entries
<1>3. Distinct(q) /\ x \notin Entries(q) => Distinct(Append(q, x))
  BY <1>1 DEF Distinct, Entries
<1>4. Append(q, x) # <<>>
  BY <1>1
<1> QED BY <1>1, <1>2, <1>3, <1>4

\* The first n entries of a sequence and the others.
LEMMA Drop ==
    ASSUME NEW S, NEW q \in Seq(S), NEW n \in 0 .. Len(q)
    PROVE  LET r == SubSeq(q, n + 1, Len(q)) IN
           /\ r \in Seq(S) /\ Len(r) = Len(q) - n
           /\ Entries(q) = {q[i] : i \in 1 .. n} \cup Entries(r)
           /\ Distinct(q) => Distinct(r) /\ Entries(r) = Entries(q) \ {q[i] : i \in 1 .. n}
           /\ n = Len(q) => r = <<>>
<1> DEFINE r == SubSeq(q, n + 1, Len(q))
<1>1. /\ DOMAIN q = 1 .. Len(q) /\ Len(q) \in Nat /\ n \in Nat /\ n <= Len(q)
      /\ \A i \in DOMAIN q : q[i] \in S
  OBVIOUS
<1> DEFINE m == Len(q) - n
<1>2. /\ r \in Seq(S) /\ Len(r) = m /\ DOMAIN r = 1 .. m
      /\ \A i \in 1 .. m : r[i] = q[n + i]
      /\ m \in Nat /\ \A i \in 1 .. m : n + i \in DOMAIN q /\ n + i \notin 1 .. n
  <2>1. m \in Nat /\ \A i \in 1 .. m : n + i \in DOMAIN q /\ n + i \notin 1 .. n
    BY <1>1
  <2>2. r = [i \in 1 .. m |-> q[n + i]]
    BY <1>1, <2>1
  <2> HIDE DEF m, r
  <2>3. r \in [1 .. m -> S]
    BY <1>1, <2>1, <2>2
  <2>4. r \in Seq(S) /\ DOMAIN r = 1 .. m /\ Len(r) = m
    BY <2>1, <2>3
  <2> QED BY <2>1, <2>2, <2>4
<1> HIDE DEF r
<1>3. Entries(q) \subseteq {q[i] : i \in 1 .. n} \cup Entries(r)
  <2> SUFFICES ASSUME NEW i \in DOMAIN q, i \notin 1 .. n PROVE q[i] \in Entries(r)
    BY <1>1 DEF Entries
  <2>1. i - n \in 1 .. m /\ n + (i - n) = i
    BY <1>1
  <2> HIDE DEF m
  <2>2. i - n \in DOMAIN r /\ r[i - n] = q[i]
    BY <1>2, <2>1
  <2> QED BY <2>2 DEF Entries
<1> HIDE DEF m
<1>4. Entries(r) \subseteq Entries(q)
  BY <1>2 DEF Entries
<1>5. ASSUME Distinct(q) PROVE Distinct(r) /\ Entries(r) \cap {q[i] : i \in 1 .. n} = {}
  <2>1. ASSUME NEW i \in DOMAIN r, NEW k \in DOMAIN r, r[i] = r[k] PROVE i = k
    <3>1. n + i = n + k
      BY <1>2, <1>5, <2>1 DEF Distinct
    <3> QED BY <1>2, <3>1
  <2>2. ASSUME NEW i \in DOMAIN r, NEW k \in 1 .. n, r[i] = q[k] PROVE FALSE
    <3>1. k \in DOMAIN q
      BY <1>1
    <3> QED BY <1>2, <1>5, <2>2, <3>1 DEF Distinct
  <2> QED BY <2>1, <2>2 DEF Distinct, Entries
<1>6. {q[i] : i \in 1 .. n} \subseteq Entries(q)
  BY <1>1 DEF Entries
<1>7. n = Len(q) => r = <<>>
  BY <1>1, <1>2 DEF m
<1> QED BY <1>2, <1>3, <1>4, <1>5, <1>6, <1>7 DEF r, m

\* The parts of a pool.
LEMMA PoolParts ==
    ASSUME NEW p \in Pools
    PROVE  /\ p.freeThreads \in Seq(Workers) /\ p.requestQueue \in Seq(JobSet)
           /\ p.worker \in [Workers -> JobSet \cup {NoJob}] /\ p.posted \in Seq(Workers)
  BY DEF Pools

\* runAsThread: the job is with a worker, or waits because none is free.
LEMMA RunAsThread ==
    ASSUME NEW p, PoolInv(p), NEW j \in JobSet
    PROVE  LET t == runAsThread(p, j) IN
           PoolInv(t) /\ PoolGrows(p, t) /\ JobsIn(t) = JobsIn(p) \cup {j}
<1> DEFINE t == runAsThread(p, j)
           w == Head(p.freeThreads)
<1>1. /\ p \in Pools /\ j # NoJob
      /\ p.freeThreads \in Seq(Workers) /\ p.requestQueue \in Seq(JobSet)
      /\ p.worker \in [Workers -> JobSet \cup {NoJob}] /\ p.posted \in Seq(Workers)
  BY PoolParts, SlackAssumption DEF PoolInv, Exact
<1>2. CASE p.freeThreads # <<>>
  <2>1. t = [p EXCEPT !.freeThreads = Tail(@), !.worker[w] = j]
    BY <1>2 DEF runAsThread
  <2>2. /\ w \in Workers /\ Tail(p.freeThreads) \in Seq(Workers)
        /\ Entries(p.freeThreads) = {w} \cup Entries(Tail(p.freeThreads))
        /\ Distinct(Tail(p.freeThreads)) /\ w \notin Entries(Tail(p.freeThreads))
    BY <1>1, <1>2, TailOf DEF PoolInv, Exact
  <2> HIDE DEF w
  <2>3. /\ t.freeThreads = Tail(p.freeThreads) /\ t.requestQueue = p.requestQueue
        /\ t.worker = [p.worker EXCEPT ![w] = j] /\ t.posted = p.posted
    BY <1>1, <2>1 DEF Pools
  <2>4. t \in Pools
    <3>1. [p.worker EXCEPT ![w] = j] \in [Workers -> JobSet \cup {NoJob}]
      BY <1>1
    <3> QED BY <1>1, <2>1, <2>2, <3>1 DEF Pools
  <2> HIDE DEF t
  <2>5. /\ t.worker[w] = j /\ p.worker[w] = NoJob
        /\ \A v \in Workers : v # w => t.worker[v] = p.worker[v]
    BY <1>1, <2>2, <2>3 DEF PoolInv, Exact
  <2>6. Entries(t.freeThreads) = {v \in Workers : t.worker[v] = NoJob}
    BY <1>1, <2>2, <2>3, <2>5 DEF PoolInv, Exact
  <2>7. PoolInv(t)
    BY <1>2, <2>2, <2>3, <2>4, <2>6 DEF PoolInv, Exact
  <2>8. PoolGrows(p, t) /\ JobsIn(t) = JobsIn(p) \cup {j}
    BY <1>1, <2>2, <2>3, <2>5 DEF PoolGrows, JobsIn
  <2> QED BY <2>7, <2>8 DEF t
<1>3. CASE p.freeThreads = <<>>
  <2>1. t = [p EXCEPT !.requestQueue = Append(@, j)]
    BY <1>3 DEF runAsThread
  <2>2. /\ t.freeThreads = <<>> /\ t.requestQueue = Append(p.requestQueue, j)
        /\ t.worker = p.worker /\ t.posted = p.posted
    BY <1>1, <1>3, <2>1 DEF Pools
  <2>3. t \in Pools
    <3>1. Append(p.requestQueue, j) \in Seq(JobSet)
      BY <1>1, AppendTo
    <3> QED BY <1>1, <2>1, <3>1 DEF Pools
  <2>4. Entries(t.requestQueue) = Entries(p.requestQueue) \cup {j}
    BY <1>1, <2>2, AppendTo
  <2> HIDE DEF t
  <2>5. PoolInv(t)
    BY <1>3, <2>2, <2>3 DEF PoolInv, Exact
  <2>6. PoolGrows(p, t) /\ JobsIn(t) = JobsIn(p) \cup {j}
    BY <2>2, <2>4 DEF PoolGrows, JobsIn
  <2> QED BY <2>5, <2>6 DEF t
<1> QED BY <1>2, <1>3

\* workerBody: a worker that has run its job is posted once.
LEMMA WorkerBodyInv ==
    ASSUME NEW p, PoolInv(p), NEW w \in Running(p)
    PROVE  LET t == workerBody(p, w) IN PoolInv(t) /\ JobsIn(t) = JobsIn(p)
<1> DEFINE t == workerBody(p, w)
<1>1. p \in Pools /\ p.posted \in Seq(Workers) /\ w \in Workers /\ w \notin Entries(p.posted)
      /\ p.worker[w] # NoJob
  BY PoolParts DEF PoolInv, Exact, Running, Range, Entries
<1>2. t = [p EXCEPT !.posted = Append(@, w)]
  BY DEF workerBody
<1>3. /\ Append(p.posted, w) \in Seq(Workers)
      /\ Entries(Append(p.posted, w)) = Entries(p.posted) \cup {w}
      /\ Distinct(Append(p.posted, w))
  BY <1>1, AppendTo DEF PoolInv, Exact
<1>4. /\ t \in Pools /\ t.freeThreads = p.freeThreads /\ t.requestQueue = p.requestQueue
      /\ t.worker = p.worker /\ t.posted = Append(p.posted, w)
  BY <1>1, <1>2, <1>3 DEF Pools
<1> HIDE DEF t
<1>5. w \notin Entries(t.freeThreads)
  BY <1>1, <1>4 DEF PoolInv, Exact
<1>6. PoolInv(t)
  BY <1>3, <1>4, <1>5 DEF PoolInv, Exact
<1>7. JobsIn(t) = JobsIn(p)
  BY <1>4 DEF JobsIn
<1> QED BY <1>6, <1>7 DEF t

\* scheduleFromQueue: afterwards no request waits or no worker is free.
LEMMA ScheduleInv ==
    ASSUME NEW p, Exact(p)
    PROVE  LET t == scheduleFromQueue(p) IN PoolInv(t) /\ JobsIn(t) = JobsIn(p)
<1> DEFINE n == Min({Len(p.requestQueue), Len(p.freeThreads)})
           q == p.requestQueue
           f == p.freeThreads
           t == scheduleFromQueue(p)
           given(w) == CHOOSE i \in 1 .. n : f[i] = w
           g == [w \in Workers |-> IF \E i \in 1 .. n : f[i] = w
                                   THEN q[given(w)] ELSE p.worker[w]]
           q2 == SubSeq(q, n + 1, Len(q))
           f2 == SubSeq(f, n + 1, Len(f))
<1>1. /\ p \in Pools /\ q \in Seq(JobSet) /\ f \in Seq(Workers)
      /\ p.worker \in [Workers -> JobSet \cup {NoJob}] /\ p.posted \in Seq(Workers)
      /\ Distinct(f) /\ Distinct(p.posted) /\ NoJob \notin JobSet
      /\ Entries(f) = {w \in Workers : p.worker[w] = NoJob}
      /\ Entries(p.posted) \cap Entries(f) = {}
  BY PoolParts, SlackAssumption DEF Exact
<1>2. n \in 0 .. Len(q) /\ n \in 0 .. Len(f) /\ (n = Len(q) \/ n = Len(f))
  <2>1. Len(q) \in Nat /\ Len(f) \in Nat
    BY <1>1
  <2>2. IsFiniteSet({Len(q), Len(f)})
    <3>1. IsFiniteSet({Len(q)})
      BY FS_Singleton
    <3>2. IsFiniteSet({Len(q)} \cup {Len(f)})
      BY <3>1, FS_AddElement
    <3>3. {Len(q)} \cup {Len(f)} = {Len(q), Len(f)}
      OBVIOUS
    <3> QED BY <3>2, <3>3
  <2> DEFINE both == {Len(q), Len(f)}
  <2> HIDE DEF both
  <2>4. both # {} /\ both \subseteq Int
    BY <2>1 DEF both
  <2>5. Min(both) \in both /\ \A x \in both : Min(both) <= x
    BY <2>2, <2>4, MinExists DEF both
  <2>3. n \in {Len(q), Len(f)} /\ \A x \in {Len(q), Len(f)} : n <= x
    BY <2>5 DEF both
  <2> QED BY <2>1, <2>3
<1>3. t = [p EXCEPT !.requestQueue = q2, !.freeThreads = f2, !.worker = g]
  BY <1>1 DEF scheduleFromQueue, Pools
<1> HIDE DEF n
<1>4. /\ q2 \in Seq(JobSet) /\ Entries(q) = {q[i] : i \in 1 .. n} \cup Entries(q2)
      /\ n = Len(q) => q2 = <<>>
  BY <1>1, <1>2, Drop
<1>5. /\ f2 \in Seq(Workers) /\ Distinct(f2)
      /\ Entries(f2) = Entries(f) \ {f[i] : i \in 1 .. n}
      /\ n = Len(f) => f2 = <<>>
  <2> HIDE DEF f
  <2> QED BY <1>1, <1>2, Drop
<1> HIDE DEF q2, f2
<1>6. /\ DOMAIN q = 1 .. Len(q) /\ DOMAIN f = 1 .. Len(f) /\ Len(q) \in Nat /\ Len(f) \in Nat
      /\ \A i \in 1 .. n : i \in DOMAIN q /\ i \in DOMAIN f /\ q[i] \in JobSet /\ f[i] \in Workers
  BY <1>1, <1>2
<1>7. \A i \in 1 .. n : given(f[i]) = i
  BY <1>1, <1>6 DEF Distinct
<1>8. /\ \A i \in 1 .. n : g[f[i]] = q[i]
      /\ \A w \in Workers : w \notin {f[i] : i \in 1 .. n} => g[w] = p.worker[w]
      /\ g \in [Workers -> JobSet \cup {NoJob}]
  <2>1. \A i \in 1 .. n : g[f[i]] = q[i]
    <3> HIDE DEF given
    <3> QED BY <1>6, <1>7
  <2>2. \A w \in Workers : w \notin {f[i] : i \in 1 .. n} => g[w] = p.worker[w]
    OBVIOUS
  <2>3. \A w \in Workers : g[w] \in JobSet \cup {NoJob}
    <3> SUFFICES ASSUME NEW w \in Workers PROVE g[w] \in JobSet \cup {NoJob}
      OBVIOUS
    <3>1. CASE w \in {f[i] : i \in 1 .. n}
      BY <1>6, <2>1, <3>1
    <3>2. CASE w \notin {f[i] : i \in 1 .. n}
      BY <1>1, <2>2, <3>2
    <3> QED BY <3>1, <3>2
  <2> QED BY <2>1, <2>2, <2>3
<1>9. /\ t.requestQueue = q2 /\ t.freeThreads = f2 /\ t.worker = g /\ t.posted = p.posted
      /\ t \in Pools
  <2> HIDE DEF g
  <2> QED BY <1>1, <1>3, <1>4, <1>5, <1>8 DEF Pools
<1> HIDE DEF t, g, q, f
<1>10. Entries(f2) = {w \in Workers : g[w] = NoJob}
  BY <1>1, <1>5, <1>6, <1>8
<1>11. PoolInv(t)
  BY <1>1, <1>2, <1>4, <1>5, <1>9, <1>10 DEF PoolInv, Exact
<1>12. JobsIn(t) \subseteq JobsIn(p)
  BY SMTT(30), <1>1, <1>4, <1>6, <1>8, <1>9 DEF JobsIn, q
<1>13. JobsIn(p) \subseteq JobsIn(t)
  <2>1. ASSUME NEW j \in Entries(q) PROVE j \in JobsIn(t)
    <3>1. CASE j \in Entries(q2)
      BY <1>9, <3>1 DEF JobsIn
    <3>2. ASSUME NEW i \in 1 .. n, j = q[i] PROVE j \in JobsIn(t)
      <4>1. t.worker[f[i]] = j /\ j # NoJob /\ f[i] \in Workers
        BY <1>1, <1>6, <1>8, <1>9, <3>2
      <4> QED BY <4>1 DEF JobsIn
    <3> QED BY <1>4, <2>1, <3>1, <3>2
  <2>2. ASSUME NEW w \in Workers, p.worker[w] # NoJob PROVE p.worker[w] \in JobsIn(t)
    <3>1. w \notin {f[i] : i \in 1 .. n}
      BY <1>1, <1>6, <2>2 DEF Entries
    <3>2. t.worker[w] = p.worker[w]
      BY <1>8, <1>9, <3>1
    <3> QED BY <2>2, <3>2 DEF JobsIn
  <2> QED BY <2>1, <2>2 DEF JobsIn, q
<1> QED BY <1>11, <1>12, <1>13 DEF t

\* cleandUp: the worker's job is gone, the others are kept.
LEMMA CleandUpInv ==
    ASSUME NEW p, PoolInv(p), p.posted # <<>>
    PROVE  LET w == Head(p.posted)
               t == cleandUp(p, w)
           IN  /\ w \in Workers /\ p.worker[w] \in JobSet
               /\ PoolInv(t) /\ JobsIn(p) \ {p.worker[w]} \subseteq JobsIn(t)
<1> DEFINE w == Head(p.posted)
           a == [p EXCEPT !.posted = Tail(@)]
           r == releaseThread(a, w)
<1>1. /\ p \in Pools /\ p.freeThreads \in Seq(Workers)
      /\ p.worker \in [Workers -> JobSet \cup {NoJob}] /\ p.posted \in Seq(Workers)
      /\ NoJob \notin JobSet
  BY PoolParts, SlackAssumption DEF PoolInv, Exact
<1>2. /\ w \in Workers /\ Tail(p.posted) \in Seq(Workers)
      /\ Entries(p.posted) = {w} \cup Entries(Tail(p.posted))
      /\ Distinct(Tail(p.posted)) /\ w \notin Entries(Tail(p.posted))
  BY <1>1, TailOf DEF PoolInv, Exact
<1> HIDE DEF w
<1>3. w \notin Entries(p.freeThreads) /\ p.worker[w] # NoJob /\ p.worker[w] \in JobSet
  BY <1>1, <1>2 DEF PoolInv, Exact
<1>4. /\ a \in Pools /\ a.freeThreads = p.freeThreads /\ a.requestQueue = p.requestQueue
      /\ a.worker = p.worker /\ a.posted = Tail(p.posted)
  BY <1>1, <1>2 DEF Pools
<1> HIDE DEF a
<1>5. r = [a EXCEPT !.worker[w] = NoJob, !.freeThreads = Append(@, w)]
  BY DEF releaseThread
<1>6. /\ Append(p.freeThreads, w) \in Seq(Workers) /\ Distinct(Append(p.freeThreads, w))
      /\ Entries(Append(p.freeThreads, w)) = Entries(p.freeThreads) \cup {w}
  BY <1>1, <1>2, <1>3, AppendTo DEF PoolInv, Exact
<1>7. /\ r.freeThreads = Append(p.freeThreads, w) /\ r.requestQueue = p.requestQueue
      /\ r.worker = [p.worker EXCEPT ![w] = NoJob] /\ r.posted = Tail(p.posted)
      /\ r \in Pools
  <2>1. [p.worker EXCEPT ![w] = NoJob] \in [Workers -> JobSet \cup {NoJob}]
    BY <1>1
  <2>2. /\ r.freeThreads = Append(p.freeThreads, w) /\ r.requestQueue = p.requestQueue
        /\ r.worker = [p.worker EXCEPT ![w] = NoJob] /\ r.posted = Tail(p.posted)
    BY <1>4, <1>5 DEF Pools
  <2>3. r \in Pools
    BY <1>4, <1>5, <1>6, <2>1 DEF Pools
  <2> QED BY <2>2, <2>3
<1> HIDE DEF r
<1>8. r.worker[w] = NoJob /\ \A v \in Workers : v # w => r.worker[v] = p.worker[v]
  BY <1>1, <1>2, <1>7
<1>9. Entries(r.freeThreads) = {v \in Workers : r.worker[v] = NoJob}
  BY <1>2, <1>6, <1>7, <1>8 DEF PoolInv, Exact
<1>10. Exact(r)
  BY <1>2, <1>6, <1>7, <1>9 DEF PoolInv, Exact
<1>11. JobsIn(p) \ {p.worker[w]} \subseteq JobsIn(r)
  BY <1>7, <1>8 DEF JobsIn
<1>12. cleandUp(p, w) = scheduleFromQueue(r)
  BY DEF cleandUp, a, r
<1>13. PoolInv(cleandUp(p, w)) /\ JobsIn(cleandUp(p, w)) = JobsIn(r)
  BY <1>10, <1>12, ScheduleInv
<1> QED BY <1>2, <1>3, <1>11, <1>13 DEF w

-----------------------------------------------------------------------------
(* The invariant. *)

St == [registered : BOOLEAN, auths : SUBSET States, pool : Pools,
       sessions : [Sessions -> SessionObjects \cup {Null}], created : 0 .. MaxSessions,
       temp : Sessions \cup {Null}, user : Sessions \cup {Null},
       ub : {Null, "null_session", "freed_callback"}, faults : Nat]

\* A job of the queue a of the session s is in the pool.
InPoolOf(p, s, a) == \E j \in JobsIn(p) : j.s = s /\ j.api = a

\* The queue q holds its own jobs, a job waits for the pause timer or for
\* another one, and m_req stands for a job in the pool.
QueueInv(p, q, s, a) ==
    /\ \A i \in DOMAIN q.queue : q.queue[i].s = s /\ q.queue[i].api = a
    /\ q.queue # <<>> => q.timer \/ q.req # NoJob
    /\ q.req # NoJob => InPoolOf(p, s, a)

WsInv(ws) == ws.wanted /\ ws.conn \in {"none", "lost"} => ws.timer \/ ws.query > 0

SessionInv(p, x, s) ==
    /\ \A a \in Apis : QueueInv(p, x.apis[a], s, a)
    /\ WsInv(x.ws)
    /\ x.member \subseteq x.known

\* The channel ch is joined, refused, or on its way.
IsChain(j, s, ch) == j.s = s /\ j.channel = ch /\ j.call \in {"list", "create", "invite"}

Chained(p, x, s, ch) ==
    \/ ch \in x.joined \cup x.failed
    \/ \E j \in JobsIn(p) \cup Entries(x.apis["team"].queue) : IsChain(j, s, ch)

\* Who has which session: a registered team without a User has a temporary one.
Owned(st) ==
    /\ \A s \in Sessions : s > st.created => st.sessions[s] = Null
    /\ st.temp # Null => st.sessions[st.temp] # Null
    /\ st.user # Null => st.sessions[st.user] # Null /\ st.user # st.temp
    /\ \A s \in Sessions : st.sessions[s] # Null => (st.sessions[s].hasUser <=> st.user = s)
    /\ st.registered /\ st.user = Null => st.temp # Null
    /\ st.ub # "null_session"

Good(st) ==
    /\ st \in St
    /\ PoolInv(st.pool)
    /\ \A s \in Sessions : st.sessions[s] # Null => SessionInv(st.pool, st.sessions[s], s)
    /\ Owned(st)

\* What the operators on the whole state keep: sessions live on, and channels
\* that are on their way stay so.
Grows(st, t) ==
    /\ Good(t)
    /\ PoolGrows(st.pool, t.pool)
    /\ t.registered = st.registered /\ t.created = st.created /\ t.ub = st.ub
    /\ \A s \in Sessions : t.sessions[s] = Null <=> st.sessions[s] = Null
    /\ \A s \in Sessions : st.sessions[s] # Null =>
          /\ t.sessions[s].started = st.sessions[s].started
          /\ st.sessions[s].joined \subseteq t.sessions[s].joined
          /\ \A ch \in Channels : Chained(st.pool, st.sessions[s], s, ch) =>
                                     Chained(t.pool, t.sessions[s], s, ch)

\* The channels of every session that has started are chained.
Joins(st) ==
    st.ub = Null => \A s \in Sessions : st.sessions[s] # Null =>
        \A ch \in Channels : st.sessions[s].started => Chained(st.pool, st.sessions[s], s, ch)

Inv == Good(Now) /\ Joins(Now)

\* PoolGrows and Grows are reflexive and transitive.
LEMMA PoolGrowsRefl == \A p : PoolGrows(p, p)
  BY DEF PoolGrows

\* PoolGrows composes.
LEMMA PoolGrowsTrans ==
    ASSUME NEW p, NEW q, NEW r, PoolGrows(p, q), PoolGrows(q, r)
    PROVE  PoolGrows(p, r)
<1>1. \A w \in Workers : p.worker[w] # NoJob => r.worker[w] = p.worker[w]
  BY DEF PoolGrows
<1> QED BY <1>1 DEF PoolGrows

\* An operator that changes nothing grows the state.
LEMMA GrowsRefl ==
    ASSUME NEW st, Good(st)
    PROVE  Grows(st, st)
  BY PoolGrowsRefl DEF Grows

\* Grows composes, so a handler grows the state when each call it makes does.
LEMMA GrowsTrans ==
    ASSUME NEW st, NEW t, NEW u, Grows(st, t), Grows(t, u)
    PROVE  Grows(st, u)
<1>1. PoolGrows(st.pool, u.pool)
  BY PoolGrowsTrans DEF Grows
<1> QED BY <1>1 DEF Grows

\* The parts of a state.
LEMMA StParts ==
    ASSUME NEW st \in St
    PROVE  /\ st.registered \in BOOLEAN /\ st.auths \subseteq States /\ st.pool \in Pools
           /\ st.sessions \in [Sessions -> SessionObjects \cup {Null}]
           /\ st.created \in 0 .. MaxSessions
           /\ st.temp \in Sessions \cup {Null} /\ st.user \in Sessions \cup {Null}
           /\ st.ub \in {Null, "null_session", "freed_callback"} /\ st.faults \in Nat
  BY DEF St

\* The parts of a session.
LEMMA SessionParts ==
    ASSUME NEW x \in SessionObjects
    PROVE  /\ x.apis \in [Apis -> Requests] /\ x.started \in BOOLEAN /\ x.ws \in WebSocket
           /\ x.known \subseteq Channels /\ x.member \subseteq Channels
           /\ x.joined \subseteq Channels /\ x.failed \subseteq Channels
           /\ x.hasUser \in BOOLEAN /\ x.disconnected \in BOOLEAN /\ x.buddiesTimer \in BOOLEAN
           /\ x # Null
  BY SlackAssumption DEF SessionObjects

\* More jobs in the pool do no harm.
LEMMA SessionInvGrows ==
    ASSUME NEW p, NEW q, JobsIn(p) \subseteq JobsIn(q), NEW x, NEW s, SessionInv(p, x, s)
    PROVE  /\ SessionInv(q, x, s)
           /\ \A ch : Chained(p, x, s, ch) => Chained(q, x, s, ch)
  BY DEF SessionInv, QueueInv, InPoolOf, Chained

\* st with another pool and another state of the session s.
With(st, p, s, y) == [st EXCEPT !.pool = p, !.sessions = [st.sessions EXCEPT ![s] = y]]

\* What With(st, p, s, y) leaves alone, and its type.
LEMMA WithParts ==
    ASSUME NEW st \in St, NEW p \in Pools, NEW s \in Sessions, NEW y \in SessionObjects \cup {Null}
    PROVE  LET t == With(st, p, s, y) IN
           /\ t \in St /\ t.pool = p /\ t.sessions[s] = y
           /\ \A z \in Sessions : z # s => t.sessions[z] = st.sessions[z]
           /\ t.registered = st.registered /\ t.auths = st.auths /\ t.created = st.created
           /\ t.temp = st.temp /\ t.user = st.user /\ t.ub = st.ub /\ t.faults = st.faults
<1> DEFINE ss == [st.sessions EXCEPT ![s] = y]
           t == With(st, p, s, y)
<1>1. /\ ss \in [Sessions -> SessionObjects \cup {Null}] /\ ss[s] = y
      /\ \A z \in Sessions : z # s => ss[z] = st.sessions[z]
  BY StParts
<1>2. t = [st EXCEPT !.pool = p, !.sessions = ss]
  BY DEF With
<1> HIDE DEF ss
<1>3. /\ t \in St /\ t.pool = p /\ t.sessions = ss
      /\ t.registered = st.registered /\ t.auths = st.auths /\ t.created = st.created
      /\ t.temp = st.temp /\ t.user = st.user /\ t.ub = st.ub /\ t.faults = st.faults
  BY <1>1, <1>2 DEF St
<1> QED BY <1>1, <1>3

\* A live session changes and the pool grows.
LEMMA WithGood ==
    ASSUME NEW st, Good(st), NEW s \in Sessions, st.sessions[s] # Null,
           NEW p, PoolInv(p), PoolGrows(st.pool, p),
           NEW y \in SessionObjects, SessionInv(p, y, s),
           y.hasUser = st.sessions[s].hasUser
    PROVE  Good(With(st, p, s, y))
<1> DEFINE t == With(st, p, s, y)
<1>1. st \in St /\ p \in Pools /\ y # Null
  BY SessionParts DEF Good, PoolInv, Exact
<1>2. /\ t \in St /\ t.pool = p /\ t.sessions[s] = y
      /\ \A z \in Sessions : z # s => t.sessions[z] = st.sessions[z]
      /\ t.registered = st.registered /\ t.created = st.created
      /\ t.temp = st.temp /\ t.user = st.user /\ t.ub = st.ub
  BY <1>1, WithParts
<1> HIDE DEF t
<1>3. ASSUME NEW z \in Sessions, t.sessions[z] # Null PROVE SessionInv(t.pool, t.sessions[z], z)
  <2>1. CASE z = s
    BY <1>2, <2>1
  <2>2. CASE z # s
    BY <1>2, <1>3, <2>2, SessionInvGrows DEF Good, PoolGrows
  <2> QED BY <2>1, <2>2
<1>4. /\ \A z \in Sessions : t.sessions[z] = Null <=> st.sessions[z] = Null
      /\ \A z \in Sessions : st.sessions[z] # Null => t.sessions[z].hasUser = st.sessions[z].hasUser
  BY <1>1, <1>2
<1>5. st.temp \in Sessions \cup {Null} /\ st.user \in Sessions \cup {Null}
  BY <1>1, StParts
<1>6. Owned(t)
  BY <1>2, <1>4, <1>5 DEF Good, Owned
<1> QED BY <1>2, <1>3, <1>6 DEF Good, t

\* Replacing the pool and one session by grown ones grows the state.
LEMMA WithGrows ==
    ASSUME NEW st, Good(st), NEW s \in Sessions, st.sessions[s] # Null,
           NEW p, PoolInv(p), PoolGrows(st.pool, p),
           NEW y \in SessionObjects, SessionInv(p, y, s),
           y.hasUser = st.sessions[s].hasUser, y.started = st.sessions[s].started,
           st.sessions[s].joined \subseteq y.joined,
           \A ch \in Channels : Chained(st.pool, st.sessions[s], s, ch) => Chained(p, y, s, ch)
    PROVE  LET t == With(st, p, s, y) IN
           /\ Grows(st, t) /\ t.pool = p /\ t.sessions[s] = y
           /\ \A z \in Sessions : z # s => t.sessions[z] = st.sessions[z]
           /\ t.temp = st.temp /\ t.user = st.user
<1> DEFINE t == With(st, p, s, y)
<1>1. st \in St /\ p \in Pools /\ y # Null
  BY SessionParts DEF Good, PoolInv, Exact
<1>2. /\ t.pool = p /\ t.sessions[s] = y
      /\ \A z \in Sessions : z # s => t.sessions[z] = st.sessions[z]
      /\ t.registered = st.registered /\ t.created = st.created
      /\ t.temp = st.temp /\ t.user = st.user /\ t.ub = st.ub
  BY <1>1, WithParts
<1>3. Good(t)
  BY WithGood
<1> HIDE DEF t
<1>4. ASSUME NEW z \in Sessions, st.sessions[z] # Null
      PROVE  /\ t.sessions[z].started = st.sessions[z].started
             /\ st.sessions[z].joined \subseteq t.sessions[z].joined
             /\ \A ch \in Channels : Chained(st.pool, st.sessions[z], z, ch) =>
                                        Chained(t.pool, t.sessions[z], z, ch)
  <2>1. CASE z = s
    BY <1>2, <2>1
  <2>2. CASE z # s
    BY <1>2, <1>4, <2>2, SessionInvGrows DEF Good, PoolGrows
  <2> QED BY <2>1, <2>2
<1>5. Grows(st, t)
  BY <1>1, <1>2, <1>3, <1>4 DEF Grows
<1> QED BY <1>2, <1>5 DEF t

-----------------------------------------------------------------------------
(* HTTPRequestQueue. *)

\* The pool after the request j was executed, if there is one.
PoolWith(p, j) == IF j = NoJob THEN p ELSE runAsThread(p, j)

\* ThreadPool::runAsThread, when there is a job to run.
LEMMA PoolWithInv ==
    ASSUME NEW p, PoolInv(p), NEW j \in JobSet \cup {NoJob}
    PROVE  /\ PoolInv(PoolWith(p, j)) /\ PoolGrows(p, PoolWith(p, j))
           /\ j # NoJob => j \in JobsIn(PoolWith(p, j))
<1>1. CASE j = NoJob
  BY <1>1, PoolGrowsRefl DEF PoolWith
<1>2. CASE j # NoJob
  BY <1>2, RunAsThread DEF PoolWith
<1> QED BY <1>1, <1>2

\* sendNextRequest: what it sends is in the pool.
LEMMA SendNext ==
    ASSUME NEW p, PoolInv(p), NEW s, NEW a, NEW q \in Requests,
           \A i \in DOMAIN q.queue : q.queue[i].s = s /\ q.queue[i].api = a,
           q.req # NoJob => InPoolOf(p, s, a)
    PROVE  LET r == sendNextRequest(q)
               p2 == PoolWith(p, r.run)
           IN  /\ r.q \in Requests /\ r.run \in JobSet \cup {NoJob}
               /\ PoolInv(p2) /\ PoolGrows(p, p2) /\ QueueInv(p2, r.q, s, a)
               /\ Entries(q.queue) \subseteq Entries(r.q.queue) \cup JobsIn(p2)
<1> DEFINE r == sendNextRequest(q)
           p2 == PoolWith(p, r.run)
<1>1. /\ q.queue \in Seq(JobSet) /\ q.req \in JobSet \cup {NoJob} /\ q.timer \in BOOLEAN
      /\ NoJob \notin JobSet
  BY SlackAssumption DEF Requests
<1>2. CASE q.queue = <<>>
  <2> DEFINE n == [q EXCEPT !.req = NoJob, !.timer = FALSE]
  <2>1. r = [q |-> n, run |-> NoJob]
    BY <1>2 DEF sendNextRequest, Idle
  <2>2. n \in Requests /\ n.queue = q.queue /\ n.req = NoJob
    BY <1>1 DEF Requests
  <2> HIDE DEF n
  <2>3. r.q = n /\ r.run = NoJob /\ p2 = p
    BY <2>1 DEF PoolWith
  <2> HIDE DEF r, p2
  <2>4. Entries(q.queue) = Entries(n.queue)
    BY <2>2
  <2> QED BY <1>2, <2>2, <2>3, <2>4, PoolGrowsRefl DEF QueueInv, r, p2
<1>3. CASE q.queue # <<>> /\ q.req # NoJob
  <2>1. r = [q |-> q, run |-> NoJob]
    BY <1>3 DEF sendNextRequest, Idle
  <2>2. r.q = q /\ r.run = NoJob /\ p2 = p
    BY <2>1 DEF PoolWith
  <2> HIDE DEF r, p2
  <2> QED BY <1>3, <2>2, PoolGrowsRefl DEF QueueInv, r, p2
<1>4. CASE q.queue # <<>> /\ q.req = NoJob
  <2> DEFINE n == [q EXCEPT !.req = Head(q.queue), !.queue = Tail(@)]
             j == Head(q.queue)
  <2>1. r = [q |-> n, run |-> j]
    BY <1>4 DEF sendNextRequest
  <2>2. /\ j \in JobSet /\ Tail(q.queue) \in Seq(JobSet)
        /\ Entries(q.queue) = {j} \cup Entries(Tail(q.queue))
    BY <1>1, <1>4, TailOf
  <2>3. n \in Requests /\ n.queue = Tail(q.queue) /\ n.req = j
    BY <1>1, <2>2 DEF Requests
  <2>4. r.q = n /\ r.run = j
    BY <2>1
  <2>5. j.s = s /\ j.api = a
        /\ \A i \in DOMAIN n.queue : n.queue[i].s = s /\ n.queue[i].api = a
    BY <1>1, <1>4, <2>2, <2>3 DEF Entries
  <2> HIDE DEF n, j, r
  <2>6. PoolInv(p2) /\ PoolGrows(p, p2) /\ j \in JobsIn(p2)
    BY <1>1, <2>2, <2>4, PoolWithInv
  <2>7. InPoolOf(p2, s, a)
    BY <2>5, <2>6 DEF InPoolOf
  <2> HIDE DEF p2
  <2>8. QueueInv(p2, n, s, a)
    BY <1>1, <2>2, <2>3, <2>5, <2>7 DEF QueueInv
  <2> QED BY <2>2, <2>3, <2>4, <2>6, <2>8 DEF r, p2
<1> QED BY <1>2, <1>3, <1>4

\* queueRequest: the request is in the queue or in the pool.
LEMMA QueueRequestInv ==
    ASSUME NEW p, PoolInv(p), NEW s, NEW a, NEW q \in Requests, QueueInv(p, q, s, a),
           NEW j \in JobSet, j.s = s, j.api = a
    PROVE  LET r == queueRequest(q, j)
               p2 == PoolWith(p, r.run)
           IN  /\ r.q \in Requests /\ r.run \in JobSet \cup {NoJob}
               /\ PoolInv(p2) /\ PoolGrows(p, p2) /\ QueueInv(p2, r.q, s, a)
               /\ Entries(q.queue) \cup {j} \subseteq Entries(r.q.queue) \cup JobsIn(p2)
<1> DEFINE n == [q EXCEPT !.queue = Append(@, j)]
           r == queueRequest(q, j)
           p2 == PoolWith(p, r.run)
<1>1. /\ q.queue \in Seq(JobSet) /\ q.req \in JobSet \cup {NoJob} /\ q.timer \in BOOLEAN
  BY DEF Requests
<1>2. /\ Append(q.queue, j) \in Seq(JobSet)
      /\ Entries(Append(q.queue, j)) = Entries(q.queue) \cup {j}
  BY <1>1, AppendTo
<1>3. n \in Requests /\ n.queue = Append(q.queue, j) /\ n.req = q.req /\ n.timer = q.timer
  BY <1>1, <1>2 DEF Requests
<1>4. \A i \in DOMAIN n.queue : n.queue[i].s = s /\ n.queue[i].api = a
  <2>1. \A k \in Entries(q.queue) \cup {j} : k.s = s /\ k.api = a
    BY DEF QueueInv, Entries
  <2> HIDE DEF n
  <2> QED BY <1>2, <1>3, <2>1 DEF Entries
<1>5. q.req # NoJob => InPoolOf(p, s, a)
  BY DEF QueueInv
<1>6. r = IF q.req = NoJob THEN sendNextRequest(n) ELSE [q |-> n, run |-> NoJob]
  BY DEF queueRequest, Idle
<1> HIDE DEF n, r
<1>7. CASE q.req = NoJob
  <2>1. n \in Requests /\ (n.req # NoJob => InPoolOf(p, s, a))
    BY <1>3, <1>5
  <2>2. r = sendNextRequest(n)
    BY <1>6, <1>7
  <2>3. /\ sendNextRequest(n).q \in Requests
        /\ sendNextRequest(n).run \in JobSet \cup {NoJob}
        /\ PoolInv(PoolWith(p, sendNextRequest(n).run))
        /\ PoolGrows(p, PoolWith(p, sendNextRequest(n).run))
        /\ QueueInv(PoolWith(p, sendNextRequest(n).run), sendNextRequest(n).q, s, a)
        /\ Entries(n.queue) \subseteq Entries(sendNextRequest(n).q.queue)
                                      \cup JobsIn(PoolWith(p, sendNextRequest(n).run))
    <3>1. PoolInv(p)
      OBVIOUS
    <3> QED BY ONLY <1>4, <2>1, <3>1, SendNext
  <2>4. /\ r.q \in Requests /\ r.run \in JobSet \cup {NoJob}
        /\ PoolInv(p2) /\ PoolGrows(p, p2) /\ QueueInv(p2, r.q, s, a)
        /\ Entries(n.queue) \subseteq Entries(r.q.queue) \cup JobsIn(p2)
    BY <2>2, <2>3
  <2> HIDE DEF p2
  <2> QED BY <1>2, <1>3, <2>4 DEF r, p2
<1>8. CASE q.req # NoJob
  <2>1. r.q = n /\ r.run = NoJob /\ p2 = p
    BY <1>6, <1>8 DEF PoolWith
  <2> HIDE DEF p2
  <2>2. QueueInv(p, n, s, a)
    BY <1>3, <1>4, <1>5, <1>8 DEF QueueInv
  <2> QED BY <1>2, <1>3, <2>1, <2>2, PoolGrowsRefl DEF r, p2
<1> QED BY <1>7, <1>8

-----------------------------------------------------------------------------
(* The operators on the whole state. *)

\* Only what no part of the invariant looks at has changed.
LEMMA FrameGrows ==
    ASSUME NEW st, Good(st), NEW t \in St, t.pool = st.pool, t.sessions = st.sessions,
           t.created = st.created, t.temp = st.temp, t.user = st.user,
           t.registered = st.registered, t.ub = st.ub
    PROVE  Grows(st, t)
<1>1. Owned(t)
  BY DEF Good, Owned
<1>2. Good(t)
  BY <1>1 DEF Good
<1> QED BY <1>2, PoolGrowsRefl DEF Grows

\* A session changes and the pool does not.
Put(st, s, y) == [st EXCEPT !.sessions[s] = y]

\* Put replaces a session and keeps the pool.
LEMMA JustSession ==
    ASSUME NEW st \in St, NEW s, NEW y
    PROVE  Put(st, s, y) = With(st, st.pool, s, y)
<1> DEFINE ss == [st.sessions EXCEPT ![s] = y]
<1>1. Put(st, s, y) = [st EXCEPT !.sessions = ss]
  BY DEF Put
<1>2. With(st, st.pool, s, y) = [st EXCEPT !.pool = st.pool, !.sessions = ss]
  BY DEF With
<1> HIDE DEF ss
<1>3. [st EXCEPT !.sessions = ss] = [st EXCEPT !.pool = st.pool, !.sessions = ss]
  BY DEF St
<1> QED BY <1>1, <1>2, <1>3

\* execute(): the pool gets the request.
LEMMA ExecuteWith ==
    ASSUME NEW st \in St, NEW s, NEW y, NEW j
    PROVE  Execute(Put(st, s, y), j) = With(st, PoolWith(st.pool, j), s, y)
<1> DEFINE ss == [st.sessions EXCEPT ![s] = y]
           u == [st EXCEPT !.sessions = ss]
           p2 == runAsThread(st.pool, j)
<1>1. Put(st, s, y) = u
  BY DEF Put
<1>2. CASE j = NoJob
  BY <1>2, JustSession DEF Execute, PoolWith
<1>3. CASE j # NoJob
  <2>1. With(st, PoolWith(st.pool, j), s, y) = [st EXCEPT !.pool = p2, !.sessions = ss]
    BY <1>3 DEF With, PoolWith
  <2> HIDE DEF ss
  <2>2. u.pool = st.pool
    BY DEF St
  <2>3. Execute(u, j) = [u EXCEPT !.pool = p2]
    BY <1>3, <2>2 DEF Execute
  <2> HIDE DEF p2
  <2>4. [u EXCEPT !.pool = p2] = [st EXCEPT !.pool = p2, !.sessions = ss]
    BY DEF St
  <2> QED BY <1>1, <2>1, <2>3, <2>4
<1> QED BY <1>2, <1>3

\* A queue of a session and the pool change: no request gets lost.
WithQueue(x, a, q) == [x EXCEPT !.apis[a] = q]

\* A queue may be replaced by one that has its jobs or has put them in the
\* pool.
LEMMA QueueStep ==
    ASSUME NEW st, Good(st), NEW s \in Sessions, st.sessions[s] # Null, NEW a \in Apis,
           NEW q \in Requests, NEW p, PoolInv(p), PoolGrows(st.pool, p), QueueInv(p, q, s, a),
           Entries(st.sessions[s].apis[a].queue) \subseteq Entries(q.queue) \cup JobsIn(p)
    PROVE  LET t == With(st, p, s, WithQueue(st.sessions[s], a, q)) IN
           /\ Grows(st, t) /\ t.temp = st.temp /\ t.user = st.user
           /\ t.pool = p /\ t.sessions[s].apis[a] = q
<1> DEFINE x == st.sessions[s]
           as == [x.apis EXCEPT ![a] = q]
           y == [x EXCEPT !.apis = as]
           t == With(st, p, s, y)
<1>1. st \in St /\ x \in SessionObjects /\ SessionInv(st.pool, x, s)
  BY StParts DEF Good
<1>2. WithQueue(x, a, q) = y
  BY DEF WithQueue
<1>3. as \in [Apis -> Requests] /\ as[a] = q /\ \A b \in Apis : b # a => as[b] = x.apis[b]
  BY <1>1, SessionParts
<1> HIDE DEF as, x
<1>4. /\ y \in SessionObjects /\ y.apis = as /\ y.ws = x.ws /\ y.member = x.member
      /\ y.known = x.known /\ y.joined = x.joined /\ y.failed = x.failed
      /\ y.hasUser = x.hasUser /\ y.started = x.started
  BY <1>1, <1>3 DEF SessionObjects
<1> HIDE DEF y
<1>5. SessionInv(p, y, s)
  <2>1. SessionInv(p, x, s)
    BY <1>1, SessionInvGrows DEF PoolGrows
  <2>2. ASSUME NEW b \in Apis PROVE QueueInv(p, y.apis[b], s, b)
    BY <1>3, <1>4, <2>1 DEF SessionInv
  <2> QED BY <1>4, <2>1, <2>2 DEF SessionInv
<1>6. \A c \in Channels : Chained(st.pool, x, s, c) => Chained(p, y, s, c)
  <2>1. JobsIn(st.pool) \cup Entries(x.apis["team"].queue)
          \subseteq JobsIn(p) \cup Entries(y.apis["team"].queue)
    <3>1. "team" \in Apis /\ JobsIn(st.pool) \subseteq JobsIn(p)
      BY DEF Apis, PoolGrows
    <3>2. Entries(x.apis["team"].queue) \subseteq JobsIn(p) \cup Entries(y.apis["team"].queue)
      <4>1. CASE a = "team"
        BY <1>3, <1>4, <4>1 DEF x
      <4>2. CASE a # "team"
        BY <1>3, <1>4, <3>1, <4>2
      <4> QED BY <4>1, <4>2
    <3> QED BY <3>1, <3>2
  <2> QED BY <1>4, <2>1 DEF Chained
<1>7. /\ Grows(st, t) /\ t.pool = p /\ t.sessions[s] = y
      /\ t.temp = st.temp /\ t.user = st.user
  BY <1>4, <1>5, <1>6, WithGrows DEF x
<1> HIDE DEF t
<1> QED BY <1>2, <1>3, <1>4, <1>7 DEF t, x

\* A request is queued: it is in the queue of the session or in the pool.
LEMMA QueueRequestGrows ==
    ASSUME NEW st, Good(st), NEW s \in Sessions, st.sessions[s] # Null, NEW a \in Apis,
           NEW call, NEW ch, Job(s, a, call, ch) \in JobSet
    PROVE  LET t == QueueRequest(st, s, a, call, ch) IN
           /\ Grows(st, t) /\ t.temp = st.temp /\ t.user = st.user
           /\ Job(s, a, call, ch) \in JobsIn(t.pool) \cup Entries(t.sessions[s].apis[a].queue)
<1> DEFINE x == st.sessions[s]
           j == Job(s, a, call, ch)
           q == x.apis[a]
           r == queueRequest(q, j)
           p2 == PoolWith(st.pool, r.run)
           y == WithQueue(x, a, r.q)
           w == With(st, p2, s, y)
           t == QueueRequest(st, s, a, call, ch)
<1>1. st \in St /\ PoolInv(st.pool) /\ x \in SessionObjects /\ SessionInv(st.pool, x, s)
  BY StParts DEF Good
<1>2. q \in Requests /\ QueueInv(st.pool, q, s, a) /\ j.s = s /\ j.api = a
  BY <1>1, SessionParts DEF SessionInv, Job
<1>3. j \in JobSet
  OBVIOUS
<1>4. t = w
  <2>1. t = Execute([st EXCEPT !.sessions[s].apis[a] = r.q], r.run)
    BY DEF QueueRequest
  <2>2. [st EXCEPT !.sessions[s].apis[a] = r.q] = Put(st, s, y)
    BY DEF Put, WithQueue
  <2> HIDE DEF y
  <2> QED BY <1>1, <2>1, <2>2, ExecuteWith
<1> HIDE DEF j
<1>5. /\ r.q \in Requests /\ r.run \in JobSet \cup {NoJob}
      /\ PoolInv(p2) /\ PoolGrows(st.pool, p2) /\ QueueInv(p2, r.q, s, a)
      /\ Entries(q.queue) \cup {j} \subseteq Entries(r.q.queue) \cup JobsIn(p2)
  BY ZenonT(60), <1>1, <1>2, <1>3, QueueRequestInv
<1> HIDE DEF r, p2, t
<1>6. Entries(q.queue) \subseteq Entries(r.q.queue) \cup JobsIn(p2)
  BY <1>5
<1>7. /\ Grows(st, w) /\ w.temp = st.temp /\ w.user = st.user
      /\ w.pool = p2 /\ w.sessions[s].apis[a] = r.q
  BY <1>5, <1>6, QueueStep
<1> HIDE DEF w
<1>8. j \in JobsIn(t.pool) \cup Entries(t.sessions[s].apis[a].queue)
  BY <1>4, <1>5, <1>7
<1> QED BY <1>4, <1>7, <1>8 DEF t, j

\* A live session changes, but for its queues, its User and what it has joined.
LEMMA SessionGrows ==
    ASSUME NEW st, Good(st), NEW s \in Sessions, st.sessions[s] # Null,
           NEW y \in SessionObjects, y.apis = st.sessions[s].apis, WsInv(y.ws),
           y.member \subseteq y.known, st.sessions[s].joined \subseteq y.joined,
           st.sessions[s].failed \subseteq y.failed,
           y.hasUser = st.sessions[s].hasUser, y.started = st.sessions[s].started
    PROVE  LET t == Put(st, s, y) IN
           /\ Grows(st, t) /\ t.pool = st.pool /\ t.sessions[s] = y
           /\ t.temp = st.temp /\ t.user = st.user
<1> DEFINE t == Put(st, s, y)
           w == With(st, st.pool, s, y)
<1>1. st \in St /\ PoolInv(st.pool) /\ SessionInv(st.pool, st.sessions[s], s)
  BY DEF Good
<1>2. t = w
  BY <1>1, JustSession
<1>3. SessionInv(st.pool, y, s)
  BY <1>1 DEF SessionInv
<1>4. \A ch \in Channels : Chained(st.pool, st.sessions[s], s, ch) => Chained(st.pool, y, s, ch)
  BY DEF Chained
<1>5. /\ Grows(st, w) /\ w.pool = st.pool /\ w.sessions[s] = y
      /\ w.temp = st.temp /\ w.user = st.user
  BY <1>1, <1>3, <1>4, PoolGrowsRefl, WithGrows
<1> HIDE DEF w, t
<1> QED BY <1>2, <1>5 DEF t

\* A room behind a channel is entered.
LEMMA EnterGrows ==
    ASSUME NEW st, Good(st), NEW s \in Sessions, st.sessions[s] # Null, NEW ch \in Channels
    PROVE  LET t == Enter(st, s, ch) IN
           /\ Grows(st, t) /\ ch \in t.sessions[s].joined /\ t.temp = st.temp /\ t.user = st.user
<1> DEFINE x == st.sessions[s]
           j == x.joined \cup {ch}
           b == x.buddiesTimer \/ ch \in RoomChannels
           y == [x EXCEPT !.joined = j, !.buddiesTimer = b]
           t == Put(st, s, y)
<1>1. st \in St /\ x \in SessionObjects /\ SessionInv(st.pool, x, s)
  BY StParts DEF Good
<1>2. Enter(st, s, ch) = t
  <2>1. x.joined = st.sessions[s].joined /\ st.sessions \in [Sessions -> SessionObjects \cup {Null}]
    BY <1>1, StParts
  <2> DEFINE y1 == [x EXCEPT !.joined = j]
             u == Put(st, s, y1)
  <2>2. u.sessions[s] = y1
    BY <1>1, <2>1 DEF St, Put
  <2>3. y1.buddiesTimer = x.buddiesTimer
    BY <1>1 DEF SessionObjects
  <2>4. Enter(st, s, ch) = [u EXCEPT !.sessions[s].buddiesTimer = @ \/ ch \in RoomChannels]
    BY DEF Enter, Put
  <2>5. Enter(st, s, ch) = Put(u, s, [y1 EXCEPT !.buddiesTimer = b])
    <3> HIDE DEF y1, u
    <3> QED BY <2>2, <2>3, <2>4 DEF Put
  <2>6. [y1 EXCEPT !.buddiesTimer = b] = y
    OBVIOUS
  <2>7. Put(u, s, y) = t
    <3> HIDE DEF y, y1
    <3> QED BY <1>1, <2>1 DEF St, Put
  <2> HIDE DEF y1, u, y, t
  <2> QED BY <2>5, <2>6, <2>7
<1>3. j \subseteq Channels /\ b \in BOOLEAN
  BY <1>1, SessionParts
<1> HIDE DEF j, b, x
<1>4. /\ y \in SessionObjects /\ y.apis = x.apis /\ y.ws = x.ws /\ y.member = x.member
      /\ y.known = x.known /\ y.joined = j /\ y.failed = x.failed
      /\ y.hasUser = x.hasUser /\ y.started = x.started
  BY <1>1, <1>3 DEF SessionObjects
<1> HIDE DEF y
<1>5. x.joined \subseteq j /\ ch \in j
  BY DEF j
<1>6. WsInv(y.ws) /\ y.member \subseteq y.known
  BY <1>1, <1>4 DEF SessionInv
<1>7. Grows(st, t) /\ t.sessions[s] = y /\ t.temp = st.temp /\ t.user = st.user
  BY <1>4, <1>5, <1>6, SessionGrows DEF x
<1> HIDE DEF t
<1> QED BY <1>2, <1>4, <1>5, <1>7

\* The requests that the code makes are jobs.
LEMMA JobTypes ==
    ASSUME NEW s \in Sessions, NEW a \in Apis \cup {"rtm"}
    PROVE  /\ \A c \in {"list", "create", "invite"}, ch \in Channels : Job(s, a, c, ch) \in JobSet
           /\ \A c \in {"start", "post"}, ch \in Channels \cup {Null} : Job(s, a, c, ch) \in JobSet
  BY DEF Job, JobSet

\* A request of the chain for ch is queued.
LEMMA ChainRequest ==
    ASSUME NEW st, Good(st), NEW s \in Sessions, st.sessions[s] # Null, NEW ch \in Channels,
           NEW call \in {"list", "create", "invite"}
    PROVE  LET t == QueueRequest(st, s, "team", call, ch) IN
           /\ Grows(st, t) /\ t.temp = st.temp /\ t.user = st.user
           /\ \E k \in JobsIn(t.pool) \cup Entries(t.sessions[s].apis["team"].queue) :
                 IsChain(k, s, ch) /\ k.call = call
<1> DEFINE t == QueueRequest(st, s, "team", call, ch)
           j == Job(s, "team", call, ch)
<1>1. "team" \in Apis /\ j \in JobSet
  BY JobTypes DEF Apis
<1>2. /\ Grows(st, t) /\ t.temp = st.temp /\ t.user = st.user
      /\ j \in JobsIn(t.pool) \cup Entries(t.sessions[s].apis["team"].queue)
  BY <1>1, QueueRequestGrows
<1>3. IsChain(j, s, ch) /\ j.call = call
  BY DEF IsChain, Job
<1> HIDE DEF t, j
<1> QED BY <1>2, <1>3 DEF t

\* A channel of a User's session.
LEMMA AgainGrows ==
    ASSUME NEW st, Good(st), NEW s \in Sessions, st.sessions[s] # Null, NEW ch \in Channels
    PROVE  LET t == CreateChannelAgain(st, s, ch) IN
           Grows(st, t) /\ t.temp = st.temp /\ t.user = st.user
<1> DEFINE t == CreateChannelAgain(st, s, ch)
           x == st.sessions[s]
<1>1. CASE ch \in x.known /\ ch \in x.member
  <2>1. t = Enter(st, s, ch)
    BY <1>1 DEF CreateChannelAgain
  <2> QED BY <2>1, EnterGrows
<1>2. CASE ch \in x.known /\ ch \notin x.member
  <2>1. t = QueueRequest(st, s, "team", "invite", ch)
    BY <1>2 DEF CreateChannelAgain
  <2> QED BY <2>1, ChainRequest
<1>3. CASE ch \notin x.known
  <2>1. t = QueueRequest(st, s, "team", "list", ch)
    BY <1>3 DEF CreateChannelAgain
  <2> QED BY <2>1, ChainRequest
<1> QED BY <1>1, <1>2, <1>3

\* The configured channels, the main one and those of the rooms.
LEMMA ConfiguredLists ==
    /\ Configured \in Seq(Channels)
    /\ \A ch \in Channels : \E i \in 1 .. Len(Configured) : Configured[i] = ch
<1> DEFINE q == SetToSeq(RoomChannels)
           n == Cardinality(RoomChannels)
<1>1. IsFiniteSet(RoomChannels)
  BY SlackAssumption
<1>2. n \in Nat /\ q \in [1 .. n -> RoomChannels] /\ Range(q) = RoomChannels
  BY <1>1, SetToSeqLists
<1>3. \A ch \in RoomChannels : \E i \in 1 .. n : q[i] = ch
  BY <1>2 DEF Range
<1>4. Configured = <<MainChannel>> \o q
  BY DEF Configured
<1> HIDE DEF q, n
<1>5. q \in Seq(Channels) /\ Len(q) = n
  <2>1. q \in [1 .. n -> Channels]
    BY <1>2 DEF Channels
  <2> QED BY <1>2, <2>1
<1> DEFINE m == <<MainChannel>>
<1>6. m \in Seq(Channels) /\ Len(m) = 1 /\ m[1] = MainChannel
  BY DEF Channels
<1> HIDE DEF m
<1>7. /\ Configured \in Seq(Channels) /\ Len(Configured) = 1 + n /\ Configured[1] = MainChannel
      /\ \A i \in 1 .. n : Configured[i + 1] = q[i]
  <2>1. Configured = m \o q
    BY <1>4 DEF m
  <2>2. /\ m \o q \in Seq(Channels) /\ Len(m \o q) = 1 + n
        /\ \A i \in 1 .. 1 + n : (m \o q)[i] = IF i <= 1 THEN m[i] ELSE q[i - 1]
    BY SMTT(60), <1>2, <1>5, <1>6, ConcatProperties
  <2>3. \A i \in 1 .. n : i + 1 \in 1 .. 1 + n /\ ~(i + 1 <= 1) /\ (i + 1) - 1 = i
    BY <1>2
  <2>4. 1 \in 1 .. 1 + n
    BY <1>2
  <2> DEFINE c == m \o q
  <2>5. /\ c \in Seq(Channels) /\ Len(c) = 1 + n /\ c[1] = MainChannel
        /\ \A i \in 1 .. 1 + n : c[i] = IF i <= 1 THEN m[i] ELSE q[i - 1]
    BY <1>6, <2>2, <2>4
  <2> HIDE DEF c
  <2>6. \A i \in 1 .. n : c[i + 1] = q[i]
    BY <2>3, <2>5
  <2> QED BY <2>1, <2>5, <2>6 DEF c
<1>8. ASSUME NEW ch \in RoomChannels PROVE \E i \in 1 .. Len(Configured) : Configured[i] = ch
  <2>1. PICK i \in 1 .. n : q[i] = ch
    BY <1>3
  <2>2. i + 1 \in 1 .. 1 + n
    BY <1>2
  <2> QED BY <1>7, <2>1, <2>2
<1>9. 1 \in 1 .. Len(Configured)
  BY <1>2, <1>7
<1> QED BY <1>7, <1>8, <1>9 DEF Channels

\* The loop of HandleConnected over the configured channels.
LEMMA AgainLoop ==
    ASSUME NEW st, Good(st), NEW s \in Sessions, st.sessions[s] # Null
    PROVE  LET t == FoldLeft(LAMBDA t, ch : CreateChannelAgain(t, s, ch), st, Configured) IN
           Grows(st, t) /\ t.temp = st.temp /\ t.user = st.user
<1> DEFINE q == Configured
           n == Len(q)
           A == {t \in St : Grows(st, t) /\ t.temp = st.temp /\ t.user = st.user}
           F == [x \in A \X (1 .. n) |-> CreateChannelAgain(x[1], s, q[x[2]])]
           Loop(h) == [S \in SUBSET DOMAIN q |->
                         IF S = {} THEN st
                         ELSE CreateChannelAgain(h[S \ {Max(S)}], s, q[Max(S)])]
           fold == FoldLeft(LAMBDA t, ch : CreateChannelAgain(t, s, ch), st, q)
<1>1. n \in Nat /\ DOMAIN q = 1 .. n /\ \A i \in 1 .. n : q[i] \in Channels
  BY ConfiguredLists
<1> HIDE DEF n, q
<1>2. fold = (CHOOSE h : h = Loop(h))[DOMAIN q]
  BY DEF FoldLeft, MapThenFoldSet
<1>3. st \in A
  BY GrowsRefl DEF Good
<1>4. ASSUME NEW t \in A, NEW i \in 1 .. n
      PROVE  CreateChannelAgain(t, s, q[i]) \in A
  <2> DEFINE u == CreateChannelAgain(t, s, q[i])
  <2>1. Good(t) /\ t.sessions[s] # Null /\ q[i] \in Channels /\ Grows(st, t)
    BY <1>1 DEF Grows
  <2>2. Grows(t, u) /\ u.temp = t.temp /\ u.user = t.user
    BY <2>1, AgainGrows
  <2> HIDE DEF u
  <2>3. Grows(st, u) /\ u \in St
    BY <2>1, <2>2, GrowsTrans DEF Grows, Good
  <2> QED BY <2>2, <2>3 DEF u
<1>5. F \in [A \X (1 .. n) -> A]
  BY <1>4
<1>6. \A t \in A, i \in 1 .. n : F[<<t, i>>] = CreateChannelAgain(t, s, q[i])
  OBVIOUS
<1> HIDE DEF F, A, fold
<1>7. \E h \in [SUBSET (1 .. n) -> A] : h = Loop(h)
  <2>1. PICK h \in [SUBSET (1 .. n) -> A] : IsLoop(h, n, st, F)
    BY <1>1, <1>3, <1>5, LoopExists
  <2>2. ASSUME NEW S \in SUBSET (1 .. n), S # {}
        PROVE  Max(S) \in 1 .. n /\ S \ {Max(S)} \in SUBSET (1 .. n)
    BY <1>1, <2>2, MaxOfIndices
  <2>3. ASSUME NEW S \in SUBSET (1 .. n)
        PROVE  h[S] = IF S = {} THEN st ELSE CreateChannelAgain(h[S \ {Max(S)}], s, q[Max(S)])
    BY <1>6, <2>1, <2>2 DEF IsLoop
  <2> QED BY <1>1, <2>3
<1> DEFINE h == CHOOSE h : h = Loop(h)
<1>8. h = Loop(h)
  <2> HIDE DEF Loop
  <2> QED BY <1>7
<1> HIDE DEF h
<1>9. h[{}] \in A
  BY <1>1, <1>3, <1>8
<1>10. ASSUME NEW S \in SUBSET (1 .. n), S # {}, h[S \ {Max(S)}] \in A PROVE h[S] \in A
  <2>1. Max(S) \in 1 .. n
    BY <1>1, <1>10, MaxOfIndices
  <2>2. h[S] = CreateChannelAgain(h[S \ {Max(S)}], s, q[Max(S)])
    BY <1>1, <1>8, <1>10
  <2> QED BY <1>4, <1>10, <2>1, <2>2
<1>11. h[1 .. n] \in A
  <2> HIDE DEF Loop
  <2>1. \A S \in SUBSET (1 .. n) : h[S] \in A
    BY <1>1, <1>9, <1>10, LoopInvariant
  <2> QED BY <2>1
<1>12. fold \in A
  BY <1>1, <1>2, <1>11 DEF h
<1> QED BY <1>12 DEF A, fold, q

\* SlackSession::handleConnected: the loop over the configured channels.
LEMMA HandleConnectedGrows ==
    ASSUME NEW st, Good(st), NEW s \in Sessions, st.sessions[s] # Null
    PROVE  LET t == HandleConnected(st, s) IN
           Grows(st, t) /\ t.temp = st.temp /\ t.user = st.user
<1> DEFINE u == FoldLeft(LAMBDA t, ch : CreateChannelAgain(t, s, ch), st, Configured)
           t == HandleConnected(st, s)
<1>1. CASE ~st.sessions[s].disconnected
  <2>1. t = st
    BY <1>1 DEF HandleConnected
  <2> QED BY <2>1, GrowsRefl
<1>2. CASE st.sessions[s].disconnected
  <2>1. t = [u EXCEPT !.sessions[s].disconnected = FALSE]
    BY <1>2 DEF HandleConnected
  <2>2. Grows(st, u) /\ u.temp = st.temp /\ u.user = st.user
    BY AgainLoop
  <2> HIDE DEF u
  <2> DEFINE x == u.sessions[s]
             y == [x EXCEPT !.disconnected = FALSE]
             v == Put(u, s, y)
  <2>3. t = v
    BY <2>1 DEF Put
  <2>4. Good(u) /\ u.sessions[s] # Null /\ x \in SessionObjects /\ SessionInv(u.pool, x, s)
    BY <2>2, StParts DEF Grows, Good
  <2> HIDE DEF t
  <2>5. /\ y \in SessionObjects /\ y.apis = x.apis /\ y.ws = x.ws /\ y.member = x.member
        /\ y.known = x.known /\ y.joined = x.joined /\ y.failed = x.failed
        /\ y.hasUser = x.hasUser /\ y.started = x.started
    <3> HIDE DEF x
    <3> QED BY <2>4 DEF SessionObjects
  <2> HIDE DEF y
  <2>6. WsInv(y.ws) /\ y.member \subseteq y.known /\ x.joined \subseteq y.joined
        /\ x.failed \subseteq y.failed
    BY <2>4, <2>5 DEF SessionInv
  <2>7. Grows(u, v) /\ v.temp = u.temp /\ v.user = u.user
    BY <2>4, <2>5, <2>6, SessionGrows
  <2> HIDE DEF v
  <2>8. Grows(st, v)
    BY <2>2, <2>7, GrowsTrans
  <2> QED BY <2>2, <2>3, <2>7, <2>8 DEF t
<1> QED BY <1>1, <1>2

\* The User takes the temporary session.
LEMMA TakeGrows ==
    ASSUME NEW st, Good(st), st.user = Null, st.temp # Null
    PROVE  LET s == st.temp
               t == [st EXCEPT !.user = s, !.temp = Null, !.sessions[s].hasUser = TRUE]
           IN  Grows(st, t) /\ s \in Sessions /\ t.sessions[s] # Null
<1> DEFINE s == st.temp
           x == st.sessions[s]
           y == [x EXCEPT !.hasUser = TRUE]
           ss == [st.sessions EXCEPT ![s] = y]
           t == [st EXCEPT !.user = s, !.temp = Null, !.sessions[s].hasUser = TRUE]
<1>1. st \in St /\ s \in Sessions /\ x # Null
  BY StParts DEF Good, Owned
<1> HIDE DEF s
<1>2. x \in SessionObjects /\ SessionInv(st.pool, x, s)
      /\ st.sessions \in [Sessions -> SessionObjects \cup {Null}]
  BY <1>1, StParts DEF Good
<1>3. t = [st EXCEPT !.user = s, !.temp = Null, !.sessions = ss]
  BY <1>1 DEF St
<1> HIDE DEF x
<1>4. /\ y \in SessionObjects /\ y.apis = x.apis /\ y.ws = x.ws /\ y.member = x.member
      /\ y.known = x.known /\ y.joined = x.joined /\ y.failed = x.failed
      /\ y.hasUser = TRUE /\ y.started = x.started
  BY <1>2 DEF SessionObjects
<1> HIDE DEF y
<1>5. y # Null
  BY <1>4, SessionParts
<1>6. /\ ss \in [Sessions -> SessionObjects \cup {Null}] /\ ss[s] = y
      /\ \A z \in Sessions : z # s => ss[z] = st.sessions[z]
  BY <1>1, <1>2, <1>4
<1> HIDE DEF ss
<1>7. /\ t \in St /\ t.pool = st.pool /\ t.sessions = ss /\ t.user = s /\ t.temp = Null
      /\ t.registered = st.registered /\ t.created = st.created /\ t.ub = st.ub
  BY <1>1, <1>3, <1>6 DEF St
<1> HIDE DEF t
<1>8. SessionInv(st.pool, y, s)
  BY <1>2, <1>4 DEF SessionInv
<1>9. \A ch \in Channels : Chained(st.pool, x, s, ch) => Chained(st.pool, y, s, ch)
  BY <1>4 DEF Chained
<1>10. \A z \in Sessions : ss[z] = Null <=> st.sessions[z] = Null
  BY <1>1, <1>5, <1>6 DEF x
<1>11. Null \notin Sessions
  BY SlackAssumption
<1>12. Owned(t)
  <2>1. \A z \in Sessions : t.sessions[z] # Null => (t.sessions[z].hasUser <=> t.user = z)
    BY <1>4, <1>6, <1>7, <1>10, <1>11 DEF Good, Owned
  <2>2. \A z \in Sessions : z > t.created => t.sessions[z] = Null
    BY <1>7, <1>10 DEF Good, Owned
  <2>3. t.user # Null /\ t.sessions[t.user] # Null /\ t.user # t.temp /\ t.temp = Null
    BY <1>1, <1>5, <1>6, <1>7, <1>11
  <2>4. t.ub # "null_session"
    BY <1>7 DEF Good, Owned
  <2> QED BY <2>1, <2>2, <2>3, <2>4 DEF Owned
<1>13. Good(t)
  <2>1. ASSUME NEW z \in Sessions, t.sessions[z] # Null PROVE SessionInv(t.pool, t.sessions[z], z)
    BY <1>6, <1>7, <1>8, <1>10, <2>1 DEF Good
  <2>2. PoolInv(t.pool)
    BY <1>7 DEF Good
  <2> QED BY <1>7, <1>12, <2>1, <2>2 DEF Good
<1>14. ASSUME NEW z \in Sessions, st.sessions[z] # Null
       PROVE  /\ t.sessions[z].started = st.sessions[z].started
              /\ st.sessions[z].joined \subseteq t.sessions[z].joined
              /\ \A ch \in Channels : Chained(st.pool, st.sessions[z], z, ch) =>
                                         Chained(t.pool, t.sessions[z], z, ch)
  BY <1>4, <1>6, <1>7, <1>9 DEF x
<1>15. Grows(st, t)
  BY <1>7, <1>10, <1>13, <1>14, PoolGrowsRefl DEF Grows
<1> QED BY <1>1, <1>5, <1>6, <1>7, <1>15 DEF t, s

\* UserManager creates the User, if there is none; it finds a session.
LEMMA PresenceGrows ==
    ASSUME NEW st, Good(st)
    PROVE  Grows(st, Presence(st))
<1>1. CASE st.user # Null \/ ~st.registered
  <2>1. Presence(st) = st
    BY <1>1 DEF Presence
  <2> QED BY <2>1, GrowsRefl
<1>2. CASE st.user = Null /\ st.registered
  <2> DEFINE s == st.temp
             t == [st EXCEPT !.user = s, !.temp = Null, !.sessions[s].hasUser = TRUE]
             v == HandleConnected(t, s)
  <2>1. st.temp # Null
    BY <1>2 DEF Good, Owned
  <2>2. Presence(st) = v
    BY <1>2, <2>1 DEF Presence, MoveTempSession
  <2>3. Grows(st, t) /\ s \in Sessions /\ t.sessions[s] # Null
    BY <1>2, <2>1, TakeGrows
  <2> HIDE DEF t
  <2>4. Grows(t, v)
    BY <2>3, HandleConnectedGrows DEF Grows
  <2> HIDE DEF v
  <2> QED BY <2>2, <2>3, <2>4, GrowsTrans
<1> QED BY <1>1, <1>2

\* SlackSession::handleJoinRoomCreated.
LEMMA JoinedGrows ==
    ASSUME NEW st, Good(st), NEW s \in Sessions, st.sessions[s] # Null, NEW ch \in Channels
    PROVE  Grows(st, Joined(st, s, ch)) /\ ch \in Joined(st, s, ch).sessions[s].joined
<1> DEFINE u == Enter(st, s, ch)
           v == Presence(u)
<1>1. Grows(st, u) /\ ch \in u.sessions[s].joined
  BY EnterGrows
<1>2. Joined(st, s, ch) = v
  BY DEF Joined
<1> HIDE DEF u
<1>3. Grows(u, v)
  BY <1>1, PresenceGrows DEF Grows
<1> HIDE DEF v
<1>4. Grows(st, v)
  BY <1>1, <1>3, GrowsTrans
<1>5. u.sessions[s] # Null
  BY <1>1 DEF Grows
<1> QED BY <1>1, <1>2, <1>3, <1>4, <1>5 DEF Grows

\* A configured channel of a session that starts is on its way, or joined.
LEMMA CreateChannelGrows ==
    ASSUME NEW st, Good(st), NEW s \in Sessions, st.sessions[s] # Null, NEW ch \in Channels
    PROVE  LET t == CreateChannel(st, s, ch) IN
           Grows(st, t) /\ Chained(t.pool, t.sessions[s], s, ch)
<1> DEFINE t == CreateChannel(st, s, ch)
           x == st.sessions[s]
<1>1. CASE ch \in x.known /\ ch \in x.member
  <2>1. t = Joined(st, s, ch)
    BY <1>1 DEF CreateChannel
  <2>2. Grows(st, t) /\ ch \in t.sessions[s].joined
    BY <2>1, JoinedGrows
  <2> HIDE DEF t
  <2> QED BY <2>2 DEF Chained, t
<1>2. CASE ~(ch \in x.known /\ ch \in x.member)
  <2>1. PICK c \in {"list", "invite"} : t = QueueRequest(st, s, "team", c, ch)
    BY <1>2 DEF CreateChannel
  <2>2. /\ Grows(st, t)
        /\ \E k \in JobsIn(t.pool) \cup Entries(t.sessions[s].apis["team"].queue) :
              IsChain(k, s, ch)
    <3>1. c \in {"list", "create", "invite"}
      OBVIOUS
    <3> HIDE DEF t
    <3> QED BY <2>1, <3>1, ChainRequest
  <2> HIDE DEF t
  <2> QED BY <2>2 DEF Chained, t
<1> QED BY <1>1, <1>2

\* handleRTMStarted: after the loop every configured channel is on its way.
LEMMA StartedGrows ==
    ASSUME NEW st, Good(st), NEW s \in Sessions, st.sessions[s] # Null
    PROVE  LET t == HandleRTMStarted(st, s) IN
           Grows(st, t) /\ \A ch \in Channels : Chained(t.pool, t.sessions[s], s, ch)
<1> DEFINE q == Configured
           n == Len(q)
           A == {t \in St : Grows(st, t)}
           F == [x \in A \X (1 .. n) |-> CreateChannel(x[1], s, q[x[2]])]
           Loop(h) == [S \in SUBSET DOMAIN q |->
                         IF S = {} THEN st
                         ELSE CreateChannel(h[S \ {Max(S)}], s, q[Max(S)])]
           fold == FoldLeft(LAMBDA t, ch : CreateChannel(t, s, ch), st, q)
           On(t, i) == Chained(t.pool, t.sessions[s], s, q[i])
<1>1. n \in Nat /\ DOMAIN q = 1 .. n /\ \A i \in 1 .. n : q[i] \in Channels
  BY ConfiguredLists
<1> HIDE DEF n, q
<1>2. fold = (CHOOSE h : h = Loop(h))[DOMAIN q]
  BY DEF FoldLeft, MapThenFoldSet
<1>3. st \in A
  BY GrowsRefl DEF Good
<1>4. ASSUME NEW t \in A, NEW i \in 1 .. n
      PROVE  /\ CreateChannel(t, s, q[i]) \in A
             /\ On(CreateChannel(t, s, q[i]), i)
             /\ \A k \in 1 .. n : On(t, k) => On(CreateChannel(t, s, q[i]), k)
  <2> DEFINE u == CreateChannel(t, s, q[i])
  <2>1. Good(t) /\ t.sessions[s] # Null /\ q[i] \in Channels /\ Grows(st, t)
    BY <1>1 DEF Grows
  <2>2. Grows(t, u) /\ Chained(u.pool, u.sessions[s], s, q[i])
    BY <2>1, CreateChannelGrows
  <2> HIDE DEF u
  <2>3. Grows(st, u) /\ u \in St
    BY <2>1, <2>2, GrowsTrans DEF Grows, Good
  <2>4. \A k \in 1 .. n : On(t, k) => On(u, k)
    BY <1>1, <2>1, <2>2 DEF Grows
  <2> QED BY <2>2, <2>3, <2>4 DEF u
<1>5. F \in [A \X (1 .. n) -> A]
  BY <1>4
<1>6. \A t \in A, i \in 1 .. n : F[<<t, i>>] = CreateChannel(t, s, q[i])
  OBVIOUS
<1> HIDE DEF F, A, fold, On
<1>7. \E h \in [SUBSET (1 .. n) -> A] : h = Loop(h)
  <2>1. PICK h \in [SUBSET (1 .. n) -> A] : IsLoop(h, n, st, F)
    BY <1>1, <1>3, <1>5, LoopExists
  <2>2. ASSUME NEW S \in SUBSET (1 .. n), S # {}
        PROVE  Max(S) \in 1 .. n /\ S \ {Max(S)} \in SUBSET (1 .. n)
    BY <1>1, <2>2, MaxOfIndices
  <2>3. ASSUME NEW S \in SUBSET (1 .. n)
        PROVE  h[S] = IF S = {} THEN st ELSE CreateChannel(h[S \ {Max(S)}], s, q[Max(S)])
    BY <1>6, <2>1, <2>2 DEF IsLoop
  <2> QED BY <1>1, <2>3
<1> DEFINE h == CHOOSE h : h = Loop(h)
<1>8. h = Loop(h)
  <2> HIDE DEF Loop
  <2> QED BY <1>7
<1> HIDE DEF h
<1> DEFINE g == [S \in SUBSET (1 .. n) |-> <<S, h[S]>>]
           B == {x \in (SUBSET (1 .. n)) \X A : \A i \in x[1] : On(x[2], i)}
<1>9. g[{}] \in B
  BY <1>1, <1>3, <1>8
<1>10. ASSUME NEW S \in SUBSET (1 .. n), S # {}, g[S \ {Max(S)}] \in B PROVE g[S] \in B
  <2>1. Max(S) \in 1 .. n /\ Max(S) \in S /\ S \ {Max(S)} \in SUBSET (1 .. n)
    BY <1>1, <1>10, MaxOfIndices
  <2>2. h[S] = CreateChannel(h[S \ {Max(S)}], s, q[Max(S)])
    BY <1>1, <1>8, <1>10
  <2>3. h[S \ {Max(S)}] \in A /\ \A i \in S \ {Max(S)} : On(h[S \ {Max(S)}], i)
    BY <1>10, <2>1
  <2>4. h[S] \in A /\ On(h[S], Max(S)) /\ \A i \in S \ {Max(S)} : On(h[S], i)
    BY ZenonT(60), <1>4, <2>1, <2>2, <2>3
  <2>5. \A i \in S : On(h[S], i)
    BY <2>4
  <2> QED BY <2>4, <2>5
<1>11. g[1 .. n] \in B
  <2> HIDE DEF g, B
  <2>1. \A S \in SUBSET (1 .. n) : g[S] \in B
    BY <1>1, <1>9, <1>10, LoopInvariant
  <2> QED BY <2>1
<1>12. h[1 .. n] \in A /\ \A i \in 1 .. n : On(h[1 .. n], i)
  BY <1>11
<1>13. fold \in A /\ \A i \in 1 .. n : On(fold, i)
  BY <1>1, <1>2, <1>12 DEF h
<1>14. \A ch \in Channels : \E i \in 1 .. n : q[i] = ch
  BY ConfiguredLists DEF n, q
<1>15. \A ch \in Channels : Chained(fold.pool, fold.sessions[s], s, ch)
  BY <1>13, <1>14 DEF On
<1>16. HandleRTMStarted(st, s) = fold
  BY DEF HandleRTMStarted, fold, q
<1>17. Grows(st, fold)
  BY <1>13 DEF A
<1> HIDE DEF fold
<1> QED BY <1>15, <1>16, <1>17

\* What Slack answered is remembered.
LEMMA InfoGrows ==
    ASSUME NEW st, Good(st), NEW s \in Sessions, st.sessions[s] # Null, NEW chs \in SUBSET Channels
    PROVE  LET t == GetSlackChannelInfo(st, s, chs) IN
           /\ Grows(st, t) /\ t.pool = st.pool
           /\ t.sessions[s] = [st.sessions[s] EXCEPT !.known = @ \cup chs]
<1> DEFINE x == st.sessions[s]
           kn == x.known \cup chs
           y == [x EXCEPT !.known = kn]
           t == Put(st, s, y)
<1>1. st \in St /\ x \in SessionObjects /\ SessionInv(st.pool, x, s)
  BY StParts DEF Good
<1>2. GetSlackChannelInfo(st, s, chs) = t
  BY DEF GetSlackChannelInfo, Put
<1>3. y = [x EXCEPT !.known = @ \cup chs]
  OBVIOUS
<1>4. kn \subseteq Channels /\ x.member \subseteq kn
  BY <1>1, SessionParts DEF SessionInv
<1> HIDE DEF kn, x
<1>5. /\ y \in SessionObjects /\ y.apis = x.apis /\ y.ws = x.ws /\ y.member = x.member
      /\ y.known = kn /\ y.joined = x.joined /\ y.failed = x.failed
      /\ y.hasUser = x.hasUser /\ y.started = x.started
  BY <1>1, <1>4 DEF SessionObjects
<1> HIDE DEF y
<1>6. WsInv(y.ws) /\ y.member \subseteq y.known /\ x.joined \subseteq y.joined
      /\ x.failed \subseteq y.failed
  BY <1>1, <1>4, <1>5 DEF SessionInv
<1>7. Grows(st, t) /\ t.pool = st.pool /\ t.sessions[s] = y
  BY <1>5, <1>6, SessionGrows DEF x
<1> HIDE DEF t
<1> QED BY <1>2, <1>3, <1>7 DEF x

\* Assignments to a session, one after the other.
LEMMA PutTwice ==
    ASSUME NEW st \in St, NEW s \in Sessions, NEW y, NEW z
    PROVE  Put(st, s, y).sessions[s] = y /\ Put(Put(st, s, y), s, z) = Put(st, s, z)
<1>1. st.sessions \in [Sessions -> SessionObjects \cup {Null}]
  BY StParts
<1> DEFINE f == [st.sessions EXCEPT ![s] = y]
           g == [st.sessions EXCEPT ![s] = z]
<1>2. f[s] = y /\ [f EXCEPT ![s] = z] = g
  BY <1>1
<1> DEFINE u == [st EXCEPT !.sessions = f]
<1>3. Put(st, s, y) = u /\ Put(st, s, z) = [st EXCEPT !.sessions = g]
  BY DEF Put
<1> HIDE DEF f, g
<1>4. u.sessions = f /\ [u EXCEPT !.sessions = g] = [st EXCEPT !.sessions = g]
  BY DEF St
<1> HIDE DEF u
<1>5. Put(u, s, z) = [u EXCEPT !.sessions = g]
  BY <1>2, <1>4 DEF Put
<1> QED BY <1>2, <1>3, <1>4, <1>5

\* Put keeps the type of the state.
LEMMA PutType ==
    ASSUME NEW st \in St, NEW s \in Sessions, NEW y \in SessionObjects
    PROVE  Put(st, s, y) \in St
<1> DEFINE ss == [st.sessions EXCEPT ![s] = y]
<1>1. ss \in [Sessions -> SessionObjects \cup {Null}]
  BY StParts
<1>2. Put(st, s, y) = [st EXCEPT !.sessions = ss]
  BY DEF Put
<1> HIDE DEF ss
<1> QED BY <1>1, <1>2 DEF St

\* The WebSocket of a session changes.
WithWs(x, w) == [x EXCEPT !.ws = w]

\* WithWs changes nothing but the WebSocket.
LEMMA WithWsParts ==
    ASSUME NEW x \in SessionObjects, NEW w \in WebSocket
    PROVE  LET y == WithWs(x, w) IN
           /\ y \in SessionObjects /\ y.apis = x.apis /\ y.ws = w /\ y.member = x.member
           /\ y.known = x.known /\ y.joined = x.joined /\ y.failed = x.failed
           /\ y.hasUser = x.hasUser /\ y.started = x.started
           /\ \A v : WithWs(y, v) = WithWs(x, v)
  BY DEF SessionObjects, WithWs

\* A WebSocket may be replaced by any other that waits for something.
LEMMA PutWs ==
    ASSUME NEW st, Good(st), NEW s \in Sessions, st.sessions[s] # Null,
           NEW w \in WebSocket, WsInv(w)
    PROVE  LET t == Put(st, s, WithWs(st.sessions[s], w)) IN
           Grows(st, t) /\ t.sessions[s] = WithWs(st.sessions[s], w)
<1> DEFINE x == st.sessions[s]
           y == WithWs(x, w)
           t == Put(st, s, y)
<1>1. st \in St /\ x \in SessionObjects /\ SessionInv(st.pool, x, s)
  BY StParts DEF Good
<1>2. /\ y \in SessionObjects /\ y.apis = x.apis /\ y.ws = w /\ y.member = x.member
      /\ y.known = x.known /\ y.joined = x.joined /\ y.failed = x.failed
      /\ y.hasUser = x.hasUser /\ y.started = x.started
  BY <1>1, WithWsParts
<1> HIDE DEF y
<1>3. WsInv(y.ws) /\ y.member \subseteq y.known /\ x.joined \subseteq y.joined
      /\ x.failed \subseteq y.failed
  BY <1>1, <1>2 DEF SessionInv
<1>4. Grows(st, t) /\ t.sessions[s] = y
  BY <1>2, <1>3, SessionGrows
<1> QED BY <1>4 DEF y

\* The WebSocket is told to connect.
WsConnect(w) == [w EXCEPT !.query = @ + 1, !.timer = FALSE]

\* WebSocketClient::connectServer leaves a query under way.
LEMMA WsConnectType ==
    ASSUME NEW w \in WebSocket
    PROVE  WsConnect(w) \in WebSocket /\ WsInv(WsConnect(w))
<1> DEFINE v == [w EXCEPT !.query = @ + 1]
<1>1. v \in WebSocket /\ v.query > 0
  BY DEF WebSocket
<1>2. WsConnect(w) = [v EXCEPT !.timer = FALSE]
  BY DEF WsConnect
<1> HIDE DEF v
<1>3. WsConnect(w) \in WebSocket /\ WsConnect(w).query > 0
  BY <1>1, <1>2 DEF WebSocket
<1> QED BY <1>3 DEF WsInv

\* ConnectServer as one update of the session.
LEMMA ConnectServerIs ==
    ASSUME NEW st \in St, NEW s \in Sessions, NEW x \in SessionObjects, st.sessions[s] = x
    PROVE  ConnectServer(st, s) = Put(st, s, WithWs(x, WsConnect(x.ws)))
<1> DEFINE w == [x.ws EXCEPT !.query = @ + 1]
           y == WithWs(x, w)
           u == Put(st, s, y)
<1>1. x.ws \in WebSocket
  BY SessionParts
<1>2. w \in WebSocket
  BY <1>1 DEF WebSocket
<1>3. ConnectServer(st, s) = [u EXCEPT !.sessions[s].ws.timer = FALSE]
  BY DEF ConnectServer, Put, WithWs
<1>4. [w EXCEPT !.timer = FALSE] = WsConnect(x.ws)
  BY DEF WsConnect
<1> HIDE DEF w
<1>5. y.ws = w /\ \A v : WithWs(y, v) = WithWs(x, v)
  BY <1>2, WithWsParts
<1> HIDE DEF y
<1>6. u.sessions[s] = y /\ \A z : Put(u, s, z) = Put(st, s, z)
  BY PutTwice
<1> HIDE DEF u
<1>7. [u EXCEPT !.sessions[s].ws.timer = FALSE] = Put(u, s, WithWs(y, [w EXCEPT !.timer = FALSE]))
  BY <1>5, <1>6 DEF Put, WithWs
<1> QED BY <1>3, <1>4, <1>5, <1>6, <1>7

\* WebSocketClient::connectServer, called with a session.
LEMMA ConnectGrows ==
    ASSUME NEW st, Good(st), NEW s \in Sessions, st.sessions[s] # Null
    PROVE  Grows(st, ConnectServer(st, s))
<1> DEFINE x == st.sessions[s]
           w == WsConnect(x.ws)
<1>1. st \in St /\ x \in SessionObjects /\ x.ws \in WebSocket
  BY StParts, SessionParts DEF Good
<1>2. ConnectServer(st, s) = Put(st, s, WithWs(x, w))
  BY <1>1, ConnectServerIs
<1>3. w \in WebSocket /\ WsInv(w)
  BY <1>1, WsConnectType
<1> HIDE DEF w
<1> QED BY <1>2, <1>3, PutWs

\* rtm.start was answered.
LEMMA HandleRTMStartGrows ==
    ASSUME NEW st, Good(st), NEW s \in Sessions, st.sessions[s] # Null,
           NEW ok \in BOOLEAN, NEW chs \in SUBSET Channels, NEW invited \in BOOLEAN
    PROVE  Grows(st, HandleRTMStart(st, s, ok, chs, invited))
<1>1. CASE ~ok
  BY <1>1, GrowsRefl DEF HandleRTMStart
<1>2. CASE ok
  <2> DEFINE g == GetSlackChannelInfo(st, s, chs)
             x == g.sessions[s]
             m == IF invited THEN x.member \cup chs ELSE x.member
             u == [g EXCEPT !.sessions[s].member = IF invited THEN @ \cup chs ELSE @,
                            !.sessions[s].ws.wanted = TRUE]
             y1 == [x EXCEPT !.member = m]
             w1 == [x.ws EXCEPT !.wanted = TRUE]
             y2 == WithWs(y1, w1)
             w2 == WsConnect(w1)
             y3 == WithWs(y2, w2)
             t == Put(g, s, y3)
  <2>1. Grows(st, g) /\ g.sessions[s] = [st.sessions[s] EXCEPT !.known = @ \cup chs]
    BY InfoGrows
  <2>2. HandleRTMStart(st, s, ok, chs, invited) = ConnectServer(u, s)
    BY <1>2 DEF HandleRTMStart
  <2>3. g \in St /\ Good(g) /\ x # Null /\ x \in SessionObjects /\ SessionInv(g.pool, x, s)
        /\ st.sessions[s] \in SessionObjects
    BY <2>1, StParts DEF Good, Grows
  <2>4. x.known = st.sessions[s].known \cup chs
    <3> DEFINE o == st.sessions[s]
    <3>1. g.sessions[s] = [o EXCEPT !.known = @ \cup chs] /\ o \in SessionObjects
      BY <2>1, <2>3
    <3> HIDE DEF o, g
    <3>2. g.sessions[s].known = o.known \cup chs
      BY <3>1 DEF SessionObjects
    <3> QED BY <3>2 DEF o
  <2> HIDE DEF g
  <2>5. m \subseteq x.known /\ x.known \subseteq Channels
    BY <2>3, <2>4, SessionParts DEF SessionInv
  <2>6. x.ws \in WebSocket
    BY <2>3, SessionParts
  <2>7. w1 \in WebSocket
    <3> DEFINE o == x.ws
    <3>1. o \in WebSocket /\ w1 = [o EXCEPT !.wanted = TRUE]
      BY <2>6
    <3> HIDE DEF o, w1
    <3> QED BY <3>1 DEF WebSocket
  <2>8. u = [Put(g, s, y1) EXCEPT !.sessions[s].ws.wanted = TRUE]
    BY DEF Put
  <2> HIDE DEF x, m, u
  <2>9. /\ y1 \in SessionObjects /\ y1.apis = x.apis /\ y1.ws = x.ws /\ y1.member = m
        /\ y1.known = x.known /\ y1.joined = x.joined /\ y1.failed = x.failed
        /\ y1.hasUser = x.hasUser /\ y1.started = x.started
    BY <2>3, <2>5 DEF SessionObjects
  <2> HIDE DEF y1
  <2> DEFINE v == Put(g, s, y1)
  <2>10. v.sessions[s] = y1 /\ \A z : Put(v, s, z) = Put(g, s, z)
    BY <2>3, PutTwice
  <2> HIDE DEF v
  <2>11. u = Put(v, s, y2)
    BY <2>8, <2>9, <2>10 DEF Put, WithWs, v
  <2> HIDE DEF w1
  <2>12. /\ y2 \in SessionObjects /\ y2.apis = x.apis /\ y2.ws = w1 /\ y2.member = m
         /\ y2.known = x.known /\ y2.joined = x.joined /\ y2.failed = x.failed
         /\ y2.hasUser = x.hasUser /\ y2.started = x.started
    BY <2>7, <2>9, WithWsParts
  <2> HIDE DEF y2
  <2>13. u = Put(g, s, y2) /\ u \in St /\ u.sessions[s] = y2
         /\ \A z : Put(u, s, z) = Put(g, s, z)
    BY <2>3, <2>10, <2>11, <2>12, PutType, PutTwice
  <2>14. w2 \in WebSocket /\ WsInv(w2)
    BY <2>7, WsConnectType
  <2>15. ConnectServer(u, s) = t
    BY <2>12, <2>13, ConnectServerIs
  <2> HIDE DEF w2
  <2>16. /\ y3 \in SessionObjects /\ y3.apis = x.apis /\ y3.ws = w2 /\ y3.member = m
         /\ y3.known = x.known /\ y3.joined = x.joined /\ y3.failed = x.failed
         /\ y3.hasUser = x.hasUser /\ y3.started = x.started
    BY <2>12, <2>14, WithWsParts
  <2> HIDE DEF y3
  <2>17. WsInv(y3.ws) /\ y3.member \subseteq y3.known /\ x.joined \subseteq y3.joined
         /\ x.failed \subseteq y3.failed
    BY <2>5, <2>14, <2>16
  <2>18. Grows(g, t)
    BY <2>3, <2>16, <2>17, SessionGrows DEF x
  <2> HIDE DEF t
  <2> QED BY <2>1, <2>2, <2>15, <2>18, GrowsTrans
<1> QED BY <1>1, <1>2

\* The WebSocket is told to disconnect.
LEMMA DisconnectGrows ==
    ASSUME NEW st, Good(st), NEW s \in Sessions, st.sessions[s] # Null
    PROVE  Grows(st, DisconnectServer(st, s))
<1> DEFINE x == st.sessions[s]
           w1 == [x.ws EXCEPT !.timer = FALSE]
           w2 == [w1 EXCEPT !.conn = "closed"]
           w3 == [w2 EXCEPT !.wanted = FALSE]
           y1 == WithWs(x, w1)
           y2 == WithWs(x, w2)
           u1 == Put(st, s, y1)
           u2 == Put(st, s, y2)
           t == Put(st, s, WithWs(x, w3))
<1>1. st \in St /\ x \in SessionObjects /\ x.ws \in WebSocket
  BY StParts, SessionParts DEF Good
<1>2. CASE x.ws.conn = "none"
  BY <1>2, GrowsRefl DEF DisconnectServer
<1>3. CASE x.ws.conn # "none"
  <2>1. DisconnectServer(st, s) = [[u1 EXCEPT !.sessions[s].ws.conn = "closed"]
                                     EXCEPT !.sessions[s].ws.wanted = FALSE]
    BY <1>3 DEF DisconnectServer, Put, WithWs
  <2>2. w1 \in WebSocket /\ w2 \in WebSocket /\ w3 \in WebSocket /\ w3.wanted = FALSE
    <3>1. w1 \in WebSocket
      BY <1>1 DEF WebSocket
    <3> HIDE DEF w1
    <3>2. w2 \in WebSocket
      BY <3>1 DEF WebSocket
    <3> HIDE DEF w2
    <3>3. w3 \in WebSocket /\ w3.wanted = FALSE
      BY <3>2 DEF WebSocket
    <3> QED BY <3>1, <3>2, <3>3
  <2> HIDE DEF x, w1
  <2>3. y1.ws = w1 /\ \A v : WithWs(y1, v) = WithWs(x, v)
    BY <1>1, <2>2, WithWsParts
  <2> HIDE DEF y1
  <2>4. u1.sessions[s] = y1 /\ \A z : Put(u1, s, z) = Put(st, s, z)
    BY <1>1, PutTwice
  <2> HIDE DEF u1
  <2>5. [u1 EXCEPT !.sessions[s].ws.conn = "closed"] = Put(u1, s, WithWs(y1, w2))
    BY <2>3, <2>4 DEF Put, WithWs
  <2> HIDE DEF w2
  <2>6. [u1 EXCEPT !.sessions[s].ws.conn = "closed"] = u2
    BY <2>3, <2>4, <2>5
  <2>7. y2.ws = w2 /\ \A v : WithWs(y2, v) = WithWs(x, v)
    BY <1>1, <2>2, WithWsParts
  <2> HIDE DEF y2
  <2>8. u2.sessions[s] = y2 /\ \A z : Put(u2, s, z) = Put(st, s, z)
    BY <1>1, PutTwice
  <2> HIDE DEF u2
  <2>9. [u2 EXCEPT !.sessions[s].ws.wanted = FALSE] = Put(u2, s, WithWs(y2, w3))
    BY <2>7, <2>8 DEF Put, WithWs
  <2> HIDE DEF w3
  <2>10. DisconnectServer(st, s) = t
    BY <2>1, <2>6, <2>7, <2>8, <2>9
  <2>11. WsInv(w3)
    BY <2>2 DEF WsInv
  <2>12. Grows(st, t)
    BY <2>2, <2>11, PutWs DEF x
  <2> QED BY <2>10, <2>12
<1> QED BY <1>2, <1>3

\* rtm.start is sent.
LEMMA RTMStartGrows ==
    ASSUME NEW st, Good(st), NEW s \in Sessions, st.sessions[s] # Null
    PROVE  LET t == RTMStart(st, s) IN
           Grows(st, t) /\ t.temp = st.temp /\ t.user = st.user /\ t.auths = st.auths
<1> DEFINE x == st.sessions[s]
           j == Job(s, "rtm", "start", Null)
           p == PoolWith(st.pool, j)
           t == RTMStart(st, s)
<1>1. st \in St /\ x \in SessionObjects /\ SessionInv(st.pool, x, s) /\ PoolInv(st.pool)
  BY StParts DEF Good
<1>2. j \in JobSet
  BY JobTypes
<1> HIDE DEF j
<1>3. PoolInv(p) /\ PoolGrows(st.pool, p) /\ p \in Pools
  BY <1>1, <1>2, PoolWithInv DEF PoolInv, Exact
<1>4. t = With(st, p, s, x)
  <2>1. Put(st, s, x) = st
    BY <1>1 DEF Put, St
  <2>2. t = Execute(Put(st, s, x), j)
    BY <2>1 DEF RTMStart, j
  <2> QED BY <1>1, <2>2, ExecuteWith
<1> HIDE DEF p, t
<1>5. SessionInv(p, x, s) /\ \A ch \in Channels : Chained(st.pool, x, s, ch) => Chained(p, x, s, ch)
  BY <1>1, <1>3, SessionInvGrows DEF PoolGrows
<1>6. /\ Grows(st, With(st, p, s, x)) /\ With(st, p, s, x).temp = st.temp
      /\ With(st, p, s, x).user = st.user
  BY <1>1, <1>3, <1>5, WithGrows
<1>7. With(st, p, s, x).auths = st.auths
  BY <1>1, <1>3, WithParts
<1> QED BY <1>4, <1>6, <1>7 DEF t

\* The channel of the request j is joined or refused, or another request is on
\* its way.
Onward(t, j) ==
    \/ j.channel \in t.sessions[j.s].joined \cup t.sessions[j.s].failed
    \/ \E k \in JobsIn(t.pool) \cup Entries(t.sessions[j.s].apis["team"].queue) :
          IsChain(k, j.s, j.channel) /\ k # j

\* The parts of a job.
LEMMA JobParts ==
    ASSUME NEW j \in JobSet
    PROVE  /\ j.s \in Sessions /\ j.api \in Apis \cup {"rtm"}
           /\ j.call \in {"start", "list", "create", "invite", "post"}
           /\ j.call \in {"list", "create", "invite"} => j.channel \in Channels
  BY DEF JobSet

\* The next request of a chain.
LEMMA NextRequest ==
    ASSUME NEW st, Good(st), NEW j \in JobSet, st.sessions[j.s] # Null,
           j.call \in {"list", "create", "invite"},
           NEW c \in {"create", "invite"}, c # j.call
    PROVE  LET t == QueueRequest(st, j.s, "team", c, j.channel) IN
           Grows(st, t) /\ Onward(t, j)
<1> DEFINE t == QueueRequest(st, j.s, "team", c, j.channel)
<1>1. j.s \in Sessions /\ j.channel \in Channels /\ c \in {"list", "create", "invite"}
  BY JobParts
<1>2. /\ Grows(st, t)
      /\ \E k \in JobsIn(t.pool) \cup Entries(t.sessions[j.s].apis["team"].queue) :
            IsChain(k, j.s, j.channel) /\ k.call = c
  BY <1>1, ChainRequest
<1> HIDE DEF t
<1> QED BY <1>2 DEF Onward, t

\* Slack refused to create the channel.
LEMMA RefusedGrows ==
    ASSUME NEW st, Good(st), NEW s \in Sessions, st.sessions[s] # Null, NEW ch \in Channels
    PROVE  LET t == [st EXCEPT !.sessions[s].failed = @ \cup {ch}] IN
           Grows(st, t) /\ ch \in t.sessions[s].failed
<1> DEFINE x == st.sessions[s]
           fa == x.failed \cup {ch}
           y == [x EXCEPT !.failed = fa]
           t == Put(st, s, y)
<1>1. st \in St /\ x \in SessionObjects /\ SessionInv(st.pool, x, s)
  BY StParts DEF Good
<1>2. [st EXCEPT !.sessions[s].failed = @ \cup {ch}] = t
  BY DEF Put
<1>3. fa \subseteq Channels
  BY <1>1, SessionParts
<1> HIDE DEF x, fa
<1>4. /\ y \in SessionObjects /\ y.apis = x.apis /\ y.ws = x.ws /\ y.member = x.member
      /\ y.known = x.known /\ y.joined = x.joined /\ y.failed = fa
      /\ y.hasUser = x.hasUser /\ y.started = x.started
  BY <1>1, <1>3 DEF SessionObjects
<1> HIDE DEF y
<1>5. WsInv(y.ws) /\ y.member \subseteq y.known /\ x.joined \subseteq y.joined
      /\ x.failed \subseteq y.failed /\ ch \in y.failed
  BY <1>1, <1>4 DEF SessionInv, fa
<1>6. Grows(st, t) /\ t.sessions[s] = y
  BY <1>4, <1>5, SessionGrows DEF x
<1> HIDE DEF t
<1> QED BY <1>2, <1>5, <1>6

\* The callbacks: the chain of a channel goes on.
LEMMA CallbackGrows ==
    ASSUME NEW st, Good(st), NEW j \in JobSet, st.sessions[j.s] # Null,
           NEW ok \in BOOLEAN, NEW chs \in SUBSET Channels, NEW invited \in BOOLEAN
    PROVE  LET t == Callback(st, j, ok, chs, invited) IN
           Grows(st, t) /\ (j.call \in {"list", "create", "invite"} => Onward(t, j))
<1> DEFINE t == Callback(st, j, ok, chs, invited)
           s == j.s
           ch == j.channel
           g == GetSlackChannelInfo(st, s, chs)
<1>1. /\ s \in Sessions /\ j.call \in {"start", "list", "create", "invite", "post"}
      /\ j.call \in {"list", "create", "invite"} => ch \in Channels
  BY JobParts
<1>2. Grows(st, g)
  BY <1>1, InfoGrows
<1>3. Good(g) /\ g.sessions[s] # Null
  BY <1>1, <1>2 DEF Grows
<1>4. CASE j.call = "start"
  <2>1. t = HandleRTMStart(st, s, ok, chs, invited)
    BY <1>4 DEF Callback
  <2> QED BY <1>1, <1>4, <2>1, HandleRTMStartGrows
<1>5. CASE j.call = "list"
  <2> HIDE DEF g
  <2> DEFINE c == IF ch \in g.sessions[s].known THEN "invite" ELSE "create"
             u == QueueRequest(g, s, "team", c, ch)
  <2>1. t = u
    BY <1>5 DEF Callback, HandleSlackChannelList, g
  <2>2. c \in {"create", "invite"} /\ c # j.call
    BY <1>5
  <2> HIDE DEF c
  <2>3. Grows(g, u) /\ Onward(u, j)
    BY <1>3, <1>5, <2>2, NextRequest
  <2> HIDE DEF u, t
  <2>4. Grows(st, u)
    BY <1>2, <2>3, GrowsTrans
  <2> QED BY <2>1, <2>3, <2>4 DEF t
<1>6. CASE j.call = "create"
  <2> HIDE DEF g
  <2>1. CASE ch \in g.sessions[s].known
    <3> DEFINE u == QueueRequest(g, s, "team", "invite", ch)
    <3>1. t = u
      BY <1>6, <2>1 DEF Callback, HandleSlackChannelCreate, g
    <3>2. Grows(g, u) /\ Onward(u, j)
      BY <1>3, <1>6, NextRequest
    <3> HIDE DEF u, t
    <3>3. Grows(st, u)
      BY <1>2, <3>2, GrowsTrans
    <3> QED BY <3>1, <3>2, <3>3 DEF t
  <2>2. CASE ch \notin g.sessions[s].known
    <3> DEFINE u == [g EXCEPT !.sessions[s].failed = @ \cup {ch}]
    <3>1. t = u
      BY <1>6, <2>2 DEF Callback, HandleSlackChannelCreate, g
    <3>2. Grows(g, u) /\ ch \in u.sessions[s].failed
      BY <1>1, <1>3, <1>6, RefusedGrows
    <3> HIDE DEF u, t
    <3>3. Grows(st, u) /\ Onward(u, j)
      BY <1>2, <3>2, GrowsTrans DEF Onward
    <3> QED BY <3>1, <3>3 DEF t
  <2> QED BY <2>1, <2>2
<1>7. CASE j.call = "invite"
  <2>1. t = Joined(st, s, ch)
    BY <1>7 DEF Callback
  <2>2. Grows(st, t) /\ ch \in t.sessions[s].joined
    BY <1>1, <1>7, <2>1, JoinedGrows
  <2> HIDE DEF t
  <2> QED BY <2>2 DEF Onward, t
<1>8. CASE j.call = "post"
  <2>1. t = st
    BY <1>8 DEF Callback
  <2> QED BY <1>8, <2>1, GrowsRefl
<1> QED BY <1>1, <1>4, <1>5, <1>6, <1>7, <1>8

-----------------------------------------------------------------------------
(* The actions. *)

\* The state an event leaves is the one it computed.
LEMMA BecomesInv ==
    ASSUME NEW t, Good(t), Joins(t), Becomes(t)
    PROVE  Inv'
<1>1. t \in St
  BY DEF Good
<1>2. /\ registered' = t.registered /\ auths' = t.auths /\ pool' = t.pool
      /\ sessions' = t.sessions /\ created' = t.created /\ temp' = t.temp
      /\ user' = t.user /\ ub' = t.ub /\ faults' = t.faults
  BY DEF Becomes
<1>3. Now' = t
  BY <1>1, <1>2 DEF Now, St
<1>4. Good(Now') /\ Joins(Now')
  BY <1>3
<1>5. Good(Now)'
  BY <1>4 DEF Good
<1>6. Joins(Now)'
  BY <1>4 DEF Joins
<1> QED BY <1>5, <1>6 DEF Inv

\* A grown state has lost no chain of list, create and invite.
LEMMA GrowsJoins ==
    ASSUME NEW st, NEW t, Grows(st, t), Joins(st)
    PROVE  Joins(t)
<1> SUFFICES ASSUME t.ub = Null, NEW s \in Sessions, t.sessions[s] # Null,
                    NEW ch \in Channels, t.sessions[s].started
             PROVE  Chained(t.pool, t.sessions[s], s, ch)
  BY DEF Joins
<1>1. st.ub = Null /\ st.sessions[s] # Null
  BY DEF Grows
<1>2. st.sessions[s].started
  BY <1>1 DEF Grows
<1>3. Chained(st.pool, st.sessions[s], s, ch)
  BY <1>1, <1>2 DEF Joins
<1> QED BY <1>1, <1>3 DEF Grows

\* A handler that grows the state keeps the invariant.
LEMMA GrowsInv ==
    ASSUME Inv, NEW t, Grows(Now, t), Becomes(t)
    PROVE  Inv'
<1> DEFINE n == Now
<1>1. Grows(n, t) /\ Joins(n)
  BY DEF Inv
<1> HIDE DEF n
<1>2. Joins(t) /\ Good(t)
  BY <1>1, GrowsJoins DEF Grows
<1> QED BY <1>2, BecomesInv

\* The parts of the state now.
LEMMA NowParts ==
    /\ Now.registered = registered /\ Now.auths = auths /\ Now.pool = pool
    /\ Now.sessions = sessions /\ Now.created = created /\ Now.temp = temp
    /\ Now.user = user /\ Now.ub = ub /\ Now.faults = faults
  BY DEF Now

\* A failure is counted.
LEMMA AfterGrows ==
    ASSUME Inv, NEW b \in BOOLEAN
    PROVE  /\ Grows(Now, After(b)) /\ After(b).sessions = sessions /\ After(b).pool = pool
<1> DEFINE st == Now
           t == After(b)
<1>1. Good(st) /\ st \in St
  BY DEF Inv, Good
<1>2. CASE b
  <2>1. t = [st EXCEPT !.faults = @ + 1]
    BY <1>2 DEF After
  <2> HIDE DEF st, t
  <2>2. /\ t \in St /\ t.pool = st.pool /\ t.sessions = st.sessions /\ t.created = st.created
        /\ t.temp = st.temp /\ t.user = st.user /\ t.registered = st.registered /\ t.ub = st.ub
    BY <1>1, <2>1 DEF St
  <2>3. Grows(st, t)
    BY <1>1, <2>2, FrameGrows
  <2> QED BY <2>2, <2>3, NowParts DEF st, t
<1>3. CASE ~b
  <2>1. t = st
    BY <1>3 DEF After
  <2>2. Grows(st, st)
    <3> HIDE DEF st
    <3> QED BY <1>1, GrowsRefl
  <2> QED BY <2>1, <2>2, NowParts
<1> QED BY <1>2, <1>3

\* SlackUserRegistration::createOAuth2URL.
LEMMA CreateOAuth2URLStep ==
    ASSUME Inv, NEW state \in States, CreateOAuth2URL(state)
    PROVE  Inv'
<1> DEFINE st == Now
           t == [Now EXCEPT !.auths = @ \cup {state}]
<1>1. Good(st) /\ st \in St /\ st.auths \subseteq States
  BY StParts DEF Inv, Good
<1>2. Becomes(t) /\ t = [st EXCEPT !.auths = @ \cup {state}]
  BY DEF CreateOAuth2URL
<1> HIDE DEF st, t
<1>3. /\ t \in St /\ t.pool = st.pool /\ t.sessions = st.sessions /\ t.created = st.created
      /\ t.temp = st.temp /\ t.user = st.user /\ t.registered = st.registered /\ t.ub = st.ub
  BY <1>1, <1>2 DEF St
<1>4. Grows(st, t)
  BY <1>1, <1>3, FrameGrows
<1> QED BY <1>2, <1>4, GrowsInv DEF st

\* A new session.
LEMMA NewSessionInv ==
    /\ NewSession \in SessionObjects /\ NewSession.hasUser = FALSE /\ NewSession.started = FALSE
    /\ \A p, s : SessionInv(p, NewSession, s)
<1> DEFINE as == [a \in Apis |-> NewQueue]
           w == [query |-> 0, conn |-> "none", timer |-> FALSE, wanted |-> FALSE]
<1>1. NewQueue \in Requests /\ NewQueue.queue = <<>> /\ NewQueue.req = NoJob
  BY DEF NewQueue, Requests
<1>2. as \in [Apis -> Requests] /\ \A a \in Apis : as[a] = NewQueue
  BY <1>1
<1>3. w \in WebSocket /\ w.wanted = FALSE
  BY DEF WebSocket
<1> DEFINE x == NewSession
<1>4. x = [apis |-> as, started |-> FALSE, ws |-> w, known |-> {}, member |-> {},
           joined |-> {}, failed |-> {}, hasUser |-> FALSE, disconnected |-> FALSE,
           buddiesTimer |-> FALSE]
  BY DEF NewSession
<1> HIDE DEF as, w, x
<1>5. /\ x.apis = as /\ x.ws = w /\ x.known = {} /\ x.member = {}
      /\ x.hasUser = FALSE /\ x.started = FALSE
  BY <1>4
<1>6. x \in SessionObjects
  BY <1>2, <1>3, <1>4 DEF SessionObjects
<1>7. \A p, s : \A a \in Apis : QueueInv(p, x.apis[a], s, a)
  <2>1. \A a \in Apis : x.apis[a].queue = <<>> /\ x.apis[a].req = NoJob
    BY <1>1, <1>2, <1>5
  <2>2. DOMAIN <<>> = {}
    OBVIOUS
  <2> QED BY <2>1, <2>2 DEF QueueInv
<1>8. WsInv(x.ws)
  BY <1>3, <1>5 DEF WsInv
<1>9. \A p, s : SessionInv(p, x, s)
  BY <1>5, <1>7, <1>8 DEF SessionInv
<1> QED BY <1>5, <1>6, <1>9 DEF x

\* reconnectUser: the new session becomes the temporary one.
LEMMA ReconnectUserGood ==
    ASSUME NEW st \in St, PoolInv(st.pool), Joins(st), st.created < MaxSessions,
           \A s \in Sessions : st.sessions[s] # Null => SessionInv(st.pool, st.sessions[s], s),
           \A s \in Sessions : s > st.created => st.sessions[s] = Null,
           st.user # Null => st.sessions[st.user] # Null,
           \A s \in Sessions : st.sessions[s] # Null => (st.sessions[s].hasUser <=> st.user = s),
           st.ub # "null_session"
    PROVE  Good(ReconnectUser(st)) /\ Joins(ReconnectUser(st))
<1> DEFINE s == st.created + 1
           ss == [st.sessions EXCEPT ![s] = NewSession]
           u == [st EXCEPT !.created = s, !.sessions = ss, !.temp = s]
           t == RTMStart(u, s)
<1>1. /\ st.created \in 0 .. MaxSessions /\ st.sessions \in [Sessions -> SessionObjects \cup {Null}]
      /\ st.user \in Sessions \cup {Null} /\ MaxSessions \in Nat /\ Null \notin Sessions
  BY StParts, SlackAssumption
<1>2. s \in Sessions /\ s \in 0 .. MaxSessions /\ s > st.created
  <2> DEFINE c == st.created
  <2>1. c \in 0 .. MaxSessions /\ MaxSessions \in Nat /\ c < MaxSessions
    BY <1>1
  <2> HIDE DEF c
  <2>2. c + 1 \in 1 .. MaxSessions /\ c + 1 \in 0 .. MaxSessions /\ c + 1 > c
    BY <2>1
  <2> QED BY <2>2 DEF Sessions, c
<1>3. ReconnectUser(st) = t
  BY DEF ReconnectUser
<1> HIDE DEF s
<1>4. st.sessions[s] = Null /\ st.user # s
  <2>1. st.sessions[s] = Null
    BY <1>2
  <2>2. s # Null
    BY <1>1, <1>2
  <2> QED BY <2>1, <2>2
<1>5. NewSession \in SessionObjects /\ NewSession # Null
  BY NewSessionInv, SessionParts
<1>6. /\ ss \in [Sessions -> SessionObjects \cup {Null}] /\ ss[s] = NewSession
      /\ \A z \in Sessions : z # s => ss[z] = st.sessions[z]
  BY <1>1, <1>2, <1>5
<1> HIDE DEF ss
<1>7. /\ u \in St /\ u.sessions = ss /\ u.created = s /\ u.temp = s /\ u.pool = st.pool
      /\ u.user = st.user /\ u.registered = st.registered /\ u.ub = st.ub
  BY <1>2, <1>6 DEF St
<1> HIDE DEF u
<1>8. Owned(u)
  <2>1. \A z \in Sessions : z > u.created => u.sessions[z] = Null
    <3> SUFFICES ASSUME NEW z \in Sessions, z > s PROVE ss[z] = Null
      BY <1>7
    <3>1. z > st.created /\ z # s
      <4> DEFINE c == st.created
      <4>1. c \in Int /\ s \in Int /\ z \in Int /\ z > s /\ s > c
        BY <1>1, <1>2 DEF Sessions
      <4> HIDE DEF c
      <4>2. z > c /\ z # s
        BY <4>1
      <4> QED BY <4>2 DEF c
    <3> QED BY <1>6, <3>1
  <2>2. u.user # Null => u.sessions[u.user] # Null /\ u.user # u.temp
    BY <1>1, <1>4, <1>6, <1>7
  <2>3. \A z \in Sessions : u.sessions[z] # Null => (u.sessions[z].hasUser <=> u.user = z)
    BY <1>4, <1>6, <1>7, NewSessionInv
  <2>4. u.temp # Null /\ u.sessions[u.temp] # Null
    BY <1>1, <1>2, <1>5, <1>6, <1>7
  <2> QED BY <1>7, <2>1, <2>2, <2>3, <2>4 DEF Owned
<1>9. Good(u)
  <2>1. ASSUME NEW z \in Sessions, u.sessions[z] # Null PROVE SessionInv(u.pool, u.sessions[z], z)
    BY <1>6, <1>7, <2>1, NewSessionInv
  <2> QED BY <1>7, <1>8, <2>1 DEF Good
<1>10. Joins(u)
  <2> SUFFICES ASSUME u.ub = Null, NEW z \in Sessions, u.sessions[z] # Null,
                      NEW ch \in Channels, u.sessions[z].started
               PROVE  Chained(u.pool, u.sessions[z], z, ch)
    BY DEF Joins
  <2>1. z # s
    BY <1>6, <1>7, NewSessionInv
  <2> QED BY <1>6, <1>7, <2>1 DEF Joins
<1>11. Grows(u, t)
  BY <1>2, <1>5, <1>6, <1>7, <1>9, RTMStartGrows
<1> HIDE DEF t
<1>12. Good(t) /\ Joins(t)
  BY <1>10, <1>11, GrowsJoins DEF Grows
<1> QED BY <1>3, <1>12

\* SlackUserRegistration::handleOAuth2Code: the temporary session is the owner
\* of the team until the User comes.
LEMMA HandleOAuth2CodeStep ==
    ASSUME Inv, NEW state, NEW ok \in BOOLEAN, HandleOAuth2Code(state, ok)
    PROVE  Inv'
<1> DEFINE st == Now
<1>1. Good(st) /\ Joins(st) /\ st \in St
  BY DEF Inv, Good
<1>2. CASE ~ok
  <2>1. Becomes(st)
    BY <1>2 DEF HandleOAuth2Code
  <2> HIDE DEF st
  <2> QED BY <1>1, <2>1, BecomesInv
<1>3. CASE ok
  <2> DEFINE u == [Now EXCEPT !.registered = TRUE, !.auths = @ \ {state}]
  <2>1. Becomes(ReconnectUser(u)) /\ st.created < MaxSessions
    BY <1>3, NowParts DEF HandleOAuth2Code
  <2>2. u = [st EXCEPT !.registered = TRUE, !.auths = @ \ {state}]
    OBVIOUS
  <2> HIDE DEF st, u
  <2>3. /\ u \in St /\ u.pool = st.pool /\ u.sessions = st.sessions /\ u.created = st.created
        /\ u.temp = st.temp /\ u.user = st.user /\ u.ub = st.ub
    BY <1>1, <2>2 DEF St
  <2>4. Joins(u)
    BY <1>1, <2>3 DEF Joins
  <2>5. /\ PoolInv(u.pool) /\ u.created < MaxSessions
        /\ \A s \in Sessions : u.sessions[s] # Null => SessionInv(u.pool, u.sessions[s], s)
        /\ \A s \in Sessions : s > u.created => u.sessions[s] = Null
        /\ u.user # Null => u.sessions[u.user] # Null
        /\ \A s \in Sessions : u.sessions[s] # Null => (u.sessions[s].hasUser <=> u.user = s)
        /\ u.ub # "null_session"
    BY <1>1, <2>1, <2>3 DEF Good, Owned
  <2>6. Good(ReconnectUser(u)) /\ Joins(ReconnectUser(u))
    BY <2>3, <2>4, <2>5, ReconnectUserGood
  <2> QED BY <2>1, <2>6, BecomesInv
<1> QED BY <1>2, <1>3

\* A worker has run its job.
LEMMA WorkerBodyStep ==
    ASSUME Inv, NEW w, WorkerBody(w)
    PROVE  Inv'
<1> DEFINE st == Now
           p == workerBody(pool, w)
           t == [Now EXCEPT !.pool = workerBody(@, w)]
<1>1. Good(st) /\ Joins(st) /\ st \in St /\ PoolInv(st.pool) /\ st.pool = pool
  BY NowParts DEF Inv, Good
<1>2. w \in Running(pool) /\ Becomes(t) /\ t = [st EXCEPT !.pool = p]
  BY NowParts DEF WorkerBody
<1>3. PoolInv(p) /\ JobsIn(p) = JobsIn(pool)
  BY <1>1, <1>2, WorkerBodyInv
<1> HIDE DEF st, p, t
<1>4. p \in Pools
  BY <1>3 DEF PoolInv, Exact
<1>5. /\ t \in St /\ t.pool = p /\ t.sessions = st.sessions /\ t.created = st.created
      /\ t.temp = st.temp /\ t.user = st.user /\ t.registered = st.registered /\ t.ub = st.ub
  BY <1>1, <1>2, <1>4 DEF St
<1>6. ASSUME NEW s \in Sessions, st.sessions[s] # Null
      PROVE  /\ SessionInv(p, st.sessions[s], s)
             /\ \A ch : Chained(st.pool, st.sessions[s], s, ch) => Chained(p, st.sessions[s], s, ch)
  <2>1. SessionInv(st.pool, st.sessions[s], s) /\ JobsIn(st.pool) \subseteq JobsIn(p)
    BY <1>1, <1>3, <1>6 DEF Good
  <2> QED BY <2>1, SessionInvGrows
<1>7. Owned(t)
  BY <1>1, <1>5 DEF Good, Owned
<1>8. Good(t)
  BY <1>3, <1>5, <1>6, <1>7 DEF Good
<1>9. Joins(t)
  BY <1>1, <1>5, <1>6 DEF Joins
<1> QED BY <1>2, <1>8, <1>9, BecomesInv

\* A job leaves the pool: what does not depend on it stays.
LEMMA ReleaseSession ==
    ASSUME NEW p, NEW p2, NEW j, JobsIn(p) \ {j} \subseteq JobsIn(p2), NEW x, NEW s
    PROVE  /\ \A a, q : QueueInv(p, q, s, a) /\ ~(j.s = s /\ j.api = a) => QueueInv(p2, q, s, a)
           /\ \A ch : Chained(p, x, s, ch) /\ ~IsChain(j, s, ch) => Chained(p2, x, s, ch)
<1>1. ASSUME NEW a, NEW q, QueueInv(p, q, s, a), ~(j.s = s /\ j.api = a)
      PROVE  QueueInv(p2, q, s, a)
  <2>1. InPoolOf(p, s, a) => InPoolOf(p2, s, a)
    BY <1>1 DEF InPoolOf
  <2> QED BY <1>1, <2>1 DEF QueueInv
<1>2. ASSUME NEW ch, Chained(p, x, s, ch), ~IsChain(j, s, ch) PROVE Chained(p2, x, s, ch)
  BY <1>2 DEF Chained
<1> QED BY <1>1, <1>2

\* The callback of a deleted session.
LEMMA FreedGood ==
    ASSUME NEW st, Good(st), st.pool.posted # <<>>,
           st.sessions[st.pool.worker[Head(st.pool.posted)].s] = Null
    PROVE  LET t == [st EXCEPT !.pool = cleandUp(st.pool, Head(st.pool.posted)),
                               !.ub = "freed_callback"]
           IN  Good(t) /\ Joins(t)
<1> DEFINE w == Head(st.pool.posted)
           j == st.pool.worker[w]
           p == cleandUp(st.pool, w)
           t == [st EXCEPT !.pool = p, !.ub = "freed_callback"]
<1>1. st \in St /\ PoolInv(st.pool) /\ st.sessions[j.s] = Null
  BY DEF Good
<1>2. w \in Workers /\ j \in JobSet /\ PoolInv(p) /\ JobsIn(st.pool) \ {j} \subseteq JobsIn(p)
  BY <1>1, CleandUpInv
<1> HIDE DEF w, j, p
<1>3. p \in Pools
  BY <1>2 DEF PoolInv, Exact
<1>4. /\ t \in St /\ t.pool = p /\ t.sessions = st.sessions /\ t.created = st.created
      /\ t.temp = st.temp /\ t.user = st.user /\ t.registered = st.registered
      /\ t.ub = "freed_callback"
  BY <1>1, <1>3 DEF St
<1> HIDE DEF t
<1>5. ASSUME NEW z \in Sessions, st.sessions[z] # Null PROVE SessionInv(p, st.sessions[z], z)
  <2> DEFINE x == st.sessions[z]
  <2>1. SessionInv(st.pool, x, z) /\ j.s # z
    BY <1>1, <1>5 DEF Good
  <2> HIDE DEF x
  <2>2. \A a \in Apis : QueueInv(p, x.apis[a], z, a)
    BY <1>2, <2>1, ReleaseSession DEF SessionInv
  <2>3. SessionInv(p, x, z)
    BY <2>1, <2>2 DEF SessionInv
  <2> QED BY <2>3 DEF x
<1>6. Owned(t)
  BY <1>1, <1>4 DEF Good, Owned
<1>7. Good(t)
  BY <1>2, <1>4, <1>5, <1>6 DEF Good
<1>8. Joins(t)
  BY <1>4, SlackAssumption DEF Joins
<1> QED BY <1>7, <1>8 DEF t, p, w

\* The queue of a request is told that it is finished.
Told(x, a) == IF a = "rtm" THEN x ELSE WithQueue(x, a, handleRequestFinished(x.apis[a]))

\* What the queue of a finished job is told: m_req is reset and the timer runs.
LEMMA ToldParts ==
    ASSUME NEW x \in SessionObjects, NEW a \in Apis \cup {"rtm"}
    PROVE  LET y == Told(x, a) IN
           /\ y \in SessionObjects /\ y.ws = x.ws /\ y.member = x.member /\ y.known = x.known
           /\ y.joined = x.joined /\ y.failed = x.failed
           /\ y.hasUser = x.hasUser /\ y.started = x.started
           /\ \A b \in Apis : y.apis[b].queue = x.apis[b].queue
           /\ \A b \in Apis : b # a => y.apis[b] = x.apis[b]
           /\ a \in Apis => y.apis[a].req = NoJob /\ y.apis[a].timer
<1> DEFINE y == Told(x, a)
<1>1. CASE a = "rtm"
  <2>1. y = x
    BY <1>1 DEF Told
  <2> HIDE DEF y
  <2> QED BY <1>1, <2>1 DEF Apis, y
<1>2. CASE a # "rtm"
  <2> DEFINE q == x.apis[a]
             r == [q EXCEPT !.req = NoJob, !.timer = TRUE]
             as == [x.apis EXCEPT ![a] = r]
  <2>1. a \in Apis /\ x.apis \in [Apis -> Requests] /\ q \in Requests
    BY <1>2, SessionParts
  <2>2. y = [x EXCEPT !.apis = as]
    BY <1>2 DEF Told, WithQueue, handleRequestFinished
  <2> HIDE DEF q
  <2>3. r \in Requests /\ r.queue = q.queue /\ r.req = NoJob /\ r.timer = TRUE
    BY <2>1 DEF Requests
  <2> HIDE DEF r
  <2>4. as \in [Apis -> Requests] /\ as[a] = r /\ \A b \in Apis : b # a => as[b] = x.apis[b]
    BY <2>1, <2>3
  <2> HIDE DEF as, y
  <2>5. /\ y \in SessionObjects /\ y.apis = as /\ y.ws = x.ws /\ y.member = x.member
        /\ y.known = x.known /\ y.joined = x.joined /\ y.failed = x.failed
        /\ y.hasUser = x.hasUser /\ y.started = x.started
    BY <2>2, <2>4 DEF SessionObjects
  <2>6. \A b \in Apis : as[b].queue = x.apis[b].queue
    BY <2>3, <2>4 DEF q
  <2> QED BY <2>3, <2>4, <2>5, <2>6 DEF y
<1> QED BY <1>1, <1>2

\* The callback was called, the queue is told and the worker released.
LEMMA ReleaseGood ==
    ASSUME NEW st, Good(st), Joins(st), NEW w, NEW j, st.pool.posted # <<>>,
           w = Head(st.pool.posted), j = st.pool.worker[w], st.sessions[j.s] # Null,
           j.call \in {"list", "create", "invite"} => Onward(st, j)
    PROVE  LET t == [Finalize(st, j) EXCEPT !.pool = cleandUp(@, w)] IN Good(t) /\ Joins(t)
<1> DEFINE s == j.s
           x == st.sessions[s]
           y == Told(x, j.api)
           p == cleandUp(st.pool, w)
           t == With(st, p, s, y)
<1>1. st \in St /\ PoolInv(st.pool)
  BY DEF Good
<1>2. w \in Workers /\ j \in JobSet /\ PoolInv(p) /\ JobsIn(st.pool) \ {j} \subseteq JobsIn(p)
  BY SMTT(30), <1>1, CleandUpInv
<1>3. s \in Sessions /\ j.api \in Apis \cup {"rtm"} /\ p \in Pools
  BY SMTT(30), <1>2, JobParts DEF PoolInv, Exact
<1>4. x \in SessionObjects /\ SessionInv(st.pool, x, s)
  BY SMTT(30), <1>1, <1>3, StParts DEF Good
<1>5. [Finalize(st, j) EXCEPT !.pool = cleandUp(@, w)] = t
  <2> DEFINE f == Finalize(st, j)
             ss == [st.sessions EXCEPT ![s] = y]
  <2>1. f = Put(st, s, y)
    <3>1. CASE j.api = "rtm"
      <4>1. f = st /\ y = x
        BY SMTT(30), <3>1 DEF Finalize, Told
      <4>2. Put(st, s, x) = st
        BY SMTT(30), <1>1, <1>3 DEF Put, St
      <4> HIDE DEF f, y
      <4> QED BY <4>1, <4>2
    <3>2. CASE j.api # "rtm"
      BY <3>2 DEF Finalize, Told, Put, WithQueue
    <3> QED BY Zenon, <3>1, <3>2
  <2>2. f = [st EXCEPT !.sessions = ss]
    BY <2>1 DEF Put
  <2>3. t = [st EXCEPT !.pool = p, !.sessions = ss]
    BY DEF With
  <2> HIDE DEF f, ss, t, y
  <2>4. f.pool = st.pool
    BY <1>1, <2>2 DEF St
  <2>5. [f EXCEPT !.pool = cleandUp(@, w)] = [f EXCEPT !.pool = p]
    BY <2>4
  <2> HIDE DEF p
  <2>6. [f EXCEPT !.pool = p] = [st EXCEPT !.pool = p, !.sessions = ss]
    BY <1>1, <2>2 DEF St
  <2> QED BY <2>3, <2>5, <2>6 DEF f
<1> HIDE DEF x
<1>6. /\ y \in SessionObjects /\ y.ws = x.ws /\ y.member = x.member /\ y.known = x.known
      /\ y.joined = x.joined /\ y.failed = x.failed
      /\ y.hasUser = x.hasUser /\ y.started = x.started
      /\ \A b \in Apis : y.apis[b].queue = x.apis[b].queue
      /\ \A b \in Apis : b # j.api => y.apis[b] = x.apis[b]
      /\ j.api \in Apis => y.apis[j.api].req = NoJob /\ y.apis[j.api].timer
  BY <1>3, <1>4, ToldParts
<1> HIDE DEF y, p
<1>7. /\ t \in St /\ t.pool = p /\ t.sessions[s] = y
      /\ \A z \in Sessions : z # s => t.sessions[z] = st.sessions[z]
      /\ t.registered = st.registered /\ t.created = st.created
      /\ t.temp = st.temp /\ t.user = st.user /\ t.ub = st.ub
  <2>1. y \in SessionObjects \cup {Null} /\ s \in Sessions /\ p \in Pools
    BY <1>3, <1>6
  <2> HIDE DEF s
  <2> QED BY SMTT(30), <1>1, <2>1, WithParts
<1>8. y # Null /\ st.temp \in Sessions \cup {Null} /\ st.user \in Sessions \cup {Null}
  BY <1>1, <1>6, SessionParts, StParts
<1> HIDE DEF t, s
<1>9. SessionInv(p, y, s)
  <2>1. ASSUME NEW a \in Apis PROVE QueueInv(p, y.apis[a], s, a)
    <3>1. QueueInv(st.pool, x.apis[a], s, a)
      BY Zenon, <1>4 DEF SessionInv
    <3>2. CASE a = j.api
      <4>1. /\ y.apis[a].queue = x.apis[a].queue
            /\ y.apis[a].req = NoJob /\ y.apis[a].timer
        BY <1>6, <3>2
      <4> QED BY Zenon, <3>1, <4>1 DEF QueueInv
    <3>3. CASE a # j.api
      <4>1. y.apis[a] = x.apis[a]
        BY <1>6, <3>3
      <4>2. JobsIn(st.pool) \ {j} \subseteq JobsIn(p)
        BY <1>2
      <4>3. QueueInv(p, x.apis[a], s, a)
        BY <3>1, <3>3, <4>2, ReleaseSession
      <4> QED BY Zenon, <4>1, <4>3
    <3> QED BY <3>2, <3>3
  <2> QED BY <1>4, <1>6, <2>1 DEF SessionInv
<1>10. ASSUME NEW z \in Sessions, z # s, st.sessions[z] # Null
       PROVE  /\ SessionInv(p, st.sessions[z], z)
              /\ \A ch : Chained(st.pool, st.sessions[z], z, ch) => Chained(p, st.sessions[z], z, ch)
  <2> DEFINE v == st.sessions[z]
  <2>1. SessionInv(st.pool, v, z) /\ j.s # z
    BY <1>10 DEF Good, s
  <2>2. \A ch : ~IsChain(j, z, ch)
    BY <2>1 DEF IsChain
  <2> HIDE DEF v
  <2>3. /\ \A a \in Apis : QueueInv(p, v.apis[a], z, a)
        /\ \A ch : Chained(st.pool, v, z, ch) => Chained(p, v, z, ch)
    BY <1>2, <2>1, <2>2, ReleaseSession DEF SessionInv
  <2>4. SessionInv(p, v, z)
    BY <2>1, <2>3 DEF SessionInv
  <2> QED BY <2>3, <2>4 DEF v
<1>11. Owned(t)
  <2>1. /\ \A z \in Sessions : t.sessions[z] = Null <=> st.sessions[z] = Null
        /\ \A z \in Sessions : st.sessions[z] # Null => t.sessions[z].hasUser = st.sessions[z].hasUser
    BY ZenonT(60), <1>6, <1>7, <1>8 DEF x, s
  <2> QED BY SMTT(30), <1>7, <1>8, <2>1 DEF Good, Owned
<1>12. Good(t)
  <2>1. ASSUME NEW z \in Sessions, t.sessions[z] # Null PROVE SessionInv(t.pool, t.sessions[z], z)
    BY <1>7, <1>9, <1>10, <2>1
  <2> QED BY <1>2, <1>7, <1>11, <2>1 DEF Good
<1>13. ASSUME NEW ch \in Channels, Chained(st.pool, x, s, ch) PROVE Chained(p, y, s, ch)
  <2>1. "team" \in Apis /\ y.apis["team"].queue = x.apis["team"].queue
    BY <1>6 DEF Apis
  <2>2. CASE ~IsChain(j, s, ch)
    <3>1. Chained(p, x, s, ch)
      BY <1>2, <1>13, <2>2, ReleaseSession
    <3> QED BY <1>6, <2>1, <3>1 DEF Chained
  <2>3. CASE IsChain(j, s, ch)
    <3>1. Onward(st, j) /\ j.channel = ch /\ j.s = s /\ st.sessions[j.s] = x
      BY SMTT(30), <2>3 DEF IsChain, s, x
    <3>2. CASE ch \in x.joined \cup x.failed
      BY <1>6, <3>2 DEF Chained
    <3>3. CASE \E k \in JobsIn(st.pool) \cup Entries(x.apis["team"].queue) : IsChain(k, s, ch) /\ k # j
      BY <1>2, <2>1, <3>3 DEF Chained
    <3> QED BY <3>1, <3>2, <3>3 DEF Onward
  <2> QED BY Zenon, <2>2, <2>3
<1>14. Joins(t)
  <2> SUFFICES ASSUME t.ub = Null, NEW z \in Sessions, t.sessions[z] # Null,
                      NEW ch \in Channels, t.sessions[z].started
               PROVE  Chained(t.pool, t.sessions[z], z, ch)
    BY DEF Joins
  <2>1. CASE z = s
    <3>1. Chained(st.pool, x, s, ch)
      BY <1>6, <1>7, <2>1 DEF Joins, x, s
    <3> QED BY Zenon, <1>7, <1>13, <2>1, <3>1
  <2>2. CASE z # s
    BY SMTT(30), <1>7, <1>10, <2>2 DEF Joins
  <2> QED BY <2>1, <2>2
<1> QED BY <1>5, <1>12, <1>14

\* ThreadPool::cleandUp: the callback has queued the successor of the job
\* before the job leaves the pool.
LEMMA CleandUpStep ==
    ASSUME Inv, NEW ok \in BOOLEAN, NEW chs \in SUBSET Channels, NEW invited \in BOOLEAN,
           NEW inactive \in BOOLEAN, CleandUp(ok, chs, invited, inactive)
    PROVE  Inv'
<1> DEFINE st == Now
           w == Head(pool.posted)
           j == pool.worker[w]
           called == IF sessions[j.s] = Null THEN [Now EXCEPT !.ub = "freed_callback"]
                     ELSE IF inactive THEN CallbackInactive(After(TRUE), j)
                     ELSE Callback(After(~ok), j, ok, chs, invited)
           t == [Finalize(called, j) EXCEPT !.pool = cleandUp(@, w)]
<1>1. pool.posted # <<>> /\ Becomes(t) /\ (inactive => j.call = "start")
  BY DEF CleandUp
<1>2. Good(st) /\ Joins(st) /\ st \in St /\ st.pool = pool /\ st.sessions = sessions
      /\ PoolInv(pool)
  BY SMTT(30), NowParts DEF Inv, Good
<1>3. w \in Workers /\ j \in JobSet /\ j # NoJob /\ j.s \in Sessions
  <2>1. w \in Workers /\ j \in JobSet
    <3>1. PoolInv(pool) /\ pool.posted # <<>>
      BY <1>1, <1>2
    <3> QED BY ZenonT(60), <3>1, CleandUpInv
  <2> HIDE DEF w, j
  <2>2. j # NoJob
    BY <2>1, SlackAssumption
  <2> QED BY <2>1, <2>2, JobParts
<1>4. CASE sessions[j.s] = Null
  <2> DEFINE c == [st EXCEPT !.ub = "freed_callback"]
             u == [st EXCEPT !.pool = cleandUp(st.pool, w), !.ub = "freed_callback"]
  <2>1. called = c
    BY <1>4
  <2>2. Good(u) /\ Joins(u)
    <3>1. w = Head(st.pool.posted) /\ st.pool.posted # <<>>
          /\ st.sessions[st.pool.worker[Head(st.pool.posted)].s] = Null
      BY <1>1, <1>2, <1>4
    <3> HIDE DEF st, w
    <3> QED BY <1>2, <3>1, FreedGood
  <2>3. t = u
    <3> DEFINE o == Now
    <3>1. c = [o EXCEPT !.ub = "freed_callback"] /\ o \in St /\ o.sessions[j.s] = Null
      BY <1>2, <1>4
    <3> HIDE DEF o
    <3>2. c.sessions = o.sessions /\ c.pool = o.pool
      BY <3>1 DEF St
    <3>3. Finalize(c, j) = c
      <4> HIDE DEF c, j
      <4> QED BY <3>1, <3>2 DEF Finalize
    <3> DEFINE p == cleandUp(o.pool, w)
    <3>4. t = [c EXCEPT !.pool = p]
      <4> HIDE DEF c
      <4> QED BY <2>1, <3>2, <3>3
    <3>5. u = [o EXCEPT !.pool = p, !.ub = "freed_callback"]
      BY DEF o
    <3> HIDE DEF p, t, u, c
    <3> QED BY <3>1, <3>4, <3>5 DEF St
  <2> HIDE DEF u, t
  <2> QED BY <1>1, <2>2, <2>3, BecomesInv
<1>5. CASE sessions[j.s] # Null
  <2>1. PICK c : /\ c = called /\ Grows(st, c)
                 /\ j.call \in {"list", "create", "invite"} => Onward(c, j)
    <3>1. CASE inactive
      <4> DEFINE n == After(TRUE)
                 c == DisconnectServer(n, j.s)
      <4>1. called = c
        BY <1>5, <3>1 DEF CallbackInactive
      <4>2. Grows(st, n) /\ n.sessions = sessions
        BY AfterGrows
      <4> HIDE DEF n, st
      <4>3. Grows(n, c)
        BY <1>3, <1>5, <4>2, DisconnectGrows DEF Grows
      <4> HIDE DEF c, called
      <4>4. Grows(st, c)
        BY <4>2, <4>3, GrowsTrans
      <4> QED BY <1>1, <3>1, <4>1, <4>4
    <3>2. CASE ~inactive
      <4> DEFINE n == After(~ok)
                 c == Callback(n, j, ok, chs, invited)
      <4>1. called = c
        BY <1>5, <3>2
      <4>2. Grows(st, n) /\ n.sessions = sessions
        BY AfterGrows
      <4> HIDE DEF n, st
      <4>3. Grows(n, c) /\ (j.call \in {"list", "create", "invite"} => Onward(c, j))
        <5>1. Good(n) /\ n.sessions[j.s] # Null
          BY <1>5, <4>2 DEF Grows
        <5> HIDE DEF j
        <5> QED BY <1>3, <5>1, CallbackGrows
      <4> HIDE DEF c, called
      <4>4. Grows(st, c)
        BY <4>2, <4>3, GrowsTrans
      <4> QED BY <4>1, <4>3, <4>4
    <3> QED BY <3>1, <3>2
  <2> HIDE DEF st, called
  <2>2. Good(c) /\ Joins(c) /\ c.sessions[j.s] # Null /\ c.pool.posted = pool.posted
        /\ c.pool.worker[w] = j
    <3>1. Joins(c)
      BY <1>2, <2>1, GrowsJoins
    <3> QED BY <1>2, <1>3, <1>5, <2>1, <3>1 DEF Grows, PoolGrows
  <2> HIDE DEF j
  <2>3. w = Head(c.pool.posted) /\ c.pool.posted # <<>> /\ j = c.pool.worker[w]
    BY <1>1, <2>2
  <2> HIDE DEF w
  <2> DEFINE u == [Finalize(c, j) EXCEPT !.pool = cleandUp(@, w)]
  <2>4. Good(u) /\ Joins(u)
    BY <2>1, <2>2, <2>3, ReleaseGood
  <2>5. t = u
    BY <2>1
  <2> HIDE DEF u, t
  <2> QED BY <1>1, <2>4, <2>5, BecomesInv
<1> QED BY <1>4, <1>5

\* The pause of a queue is over.
LEMMA QueueTimerStep ==
    ASSUME Inv, NEW s \in Sessions, NEW a \in Apis, QueueTimer(s, a)
    PROVE  Inv'
<1> DEFINE st == Now
           x == st.sessions[s]
           o == x.apis[a]
           q == [o EXCEPT !.timer = FALSE]
           r == sendNextRequest(q)
           p == PoolWith(st.pool, r.run)
           y == WithQueue(x, a, r.q)
           t == With(st, p, s, y)
<1>1. Good(st) /\ st \in St /\ PoolInv(st.pool) /\ x # Null
      /\ Becomes(Execute([Now EXCEPT !.sessions[s].apis[a] = r.q], r.run))
  BY NowParts DEF Inv, Good, QueueTimer, Live
<1>2. Execute([Now EXCEPT !.sessions[s].apis[a] = r.q], r.run) = t
  <2>1. [Now EXCEPT !.sessions[s].apis[a] = r.q] = Put(st, s, y)
    BY DEF Put, WithQueue
  <2> HIDE DEF st, y, x
  <2> QED BY <1>1, <2>1, ExecuteWith
<1> HIDE DEF st
<1>3. x \in SessionObjects /\ SessionInv(st.pool, x, s)
  BY <1>1, StParts DEF Good
<1>4. o \in Requests /\ QueueInv(st.pool, o, s, a)
  BY <1>3, SessionParts DEF SessionInv
<1> HIDE DEF o
<1>5. q \in Requests /\ q.queue = o.queue /\ q.req = o.req
  BY <1>4 DEF Requests
<1> HIDE DEF q
<1>6. /\ \A i \in DOMAIN q.queue : q.queue[i].s = s /\ q.queue[i].api = a
      /\ q.req # NoJob => InPoolOf(st.pool, s, a)
  BY <1>4, <1>5 DEF QueueInv
<1>7. /\ r.q \in Requests /\ r.run \in JobSet \cup {NoJob}
      /\ PoolInv(p) /\ PoolGrows(st.pool, p) /\ QueueInv(p, r.q, s, a)
      /\ Entries(q.queue) \subseteq Entries(r.q.queue) \cup JobsIn(p)
  BY <1>1, <1>5, <1>6, SendNext
<1> HIDE DEF r, p
<1>8. Entries(x.apis[a].queue) \subseteq Entries(r.q.queue) \cup JobsIn(p)
  BY <1>5, <1>7 DEF o
<1>9. Grows(st, t)
  BY <1>1, <1>7, <1>8, QueueStep
<1> HIDE DEF t
<1> QED BY <1>1, <1>2, <1>9, GrowsInv DEF st

\* An event of the WebSocket.
LEMMA WsStep ==
    ASSUME Inv, NEW s \in Sessions, sessions[s] # Null, NEW b \in BOOLEAN,
           NEW w \in WebSocket, WsInv(w), NEW t,
           t = Put(After(b), s, WithWs(sessions[s], w)), Becomes(t)
    PROVE  Inv'
<1> DEFINE st == Now
           n == After(b)
<1>1. Grows(st, n) /\ n.sessions = sessions
  BY AfterGrows
<1> HIDE DEF n, st
<1>2. Grows(n, t)
  <2>1. Good(n) /\ n.sessions[s] # Null /\ t = Put(n, s, WithWs(n.sessions[s], w))
    BY <1>1 DEF Grows, n
  <2> QED BY <2>1, PutWs
<1>3. Grows(st, t)
  BY <1>1, <1>2, GrowsTrans
<1> QED BY <1>3, GrowsInv DEF st

\* What an event of the WebSocket finds.
LEMMA WsFacts ==
    ASSUME Inv, NEW s \in Live
    PROVE  /\ s \in Sessions /\ sessions[s] # Null /\ sessions[s] \in SessionObjects
           /\ sessions[s].ws \in WebSocket
<1>1. s \in Sessions /\ sessions[s] # Null
  BY DEF Live
<1> DEFINE st == Now
<1>2. st \in St /\ st.sessions = sessions
  BY NowParts DEF Inv, Good
<1> HIDE DEF st
<1>3. sessions[s] \in SessionObjects
  BY <1>1, <1>2, StParts
<1> QED BY <1>1, <1>3, SessionParts

\* WebSocketClient::handleDNSResult.
LEMMA HandleDNSResultStep ==
    ASSUME Inv, NEW s, NEW ok \in BOOLEAN, HandleDNSResult(s, ok)
    PROVE  Inv'
<1> DEFINE o == sessions[s].ws
           left == o.query - 1
           w1 == [o EXCEPT !.query = left, !.conn = "connecting"]
           w2 == [o EXCEPT !.query = left, !.timer = TRUE]
           w == IF ok THEN w1 ELSE w2
           b == ~ok
           t == [After(b) EXCEPT !.sessions[s].ws =
                   IF ok THEN [@ EXCEPT !.query = left, !.conn = "connecting"]
                         ELSE [@ EXCEPT !.query = left, !.timer = TRUE]]
<1>1. s \in Live /\ o.query > 0 /\ Becomes(t)
  BY DEF HandleDNSResult
<1>2. s \in Sessions /\ sessions[s] # Null /\ o \in WebSocket
  BY <1>1, WsFacts
<1>3. b \in BOOLEAN /\ t = Put(After(b), s, WithWs(sessions[s], w))
  <2>1. b \in BOOLEAN
    OBVIOUS
  <2> HIDE DEF b, left
  <2>2. After(b).sessions = sessions
    BY <2>1, AfterGrows
  <2> QED BY <2>1, <2>2 DEF Put, WithWs
<1> HIDE DEF o, t, b
<1>4. w1 \in WebSocket /\ WsInv(w1)
  <2> DEFINE v == [o EXCEPT !.query = left]
  <2>1. v \in WebSocket
    BY <1>1, <1>2 DEF WebSocket
  <2>2. w1 = [v EXCEPT !.conn = "connecting"]
    OBVIOUS
  <2> HIDE DEF v, w1
  <2>3. w1 \in WebSocket /\ w1.conn = "connecting"
    BY <2>1, <2>2 DEF WebSocket
  <2> QED BY <2>3 DEF WsInv
<1>5. w2 \in WebSocket /\ WsInv(w2)
  <2> DEFINE v == [o EXCEPT !.query = left]
  <2>1. v \in WebSocket
    BY <1>1, <1>2 DEF WebSocket
  <2>2. w2 = [v EXCEPT !.timer = TRUE]
    OBVIOUS
  <2> HIDE DEF v, w2
  <2>3. w2 \in WebSocket /\ w2.timer = TRUE
    BY <2>1, <2>2 DEF WebSocket
  <2> QED BY <2>3 DEF WsInv
<1> HIDE DEF w1, w2
<1>6. w \in WebSocket /\ WsInv(w)
  BY <1>4, <1>5
<1> HIDE DEF w
<1> QED BY <1>1, <1>2, <1>3, <1>6, WsStep

\* WebSocketClient::handleConnected.
LEMMA HandleWsConnectedStep ==
    ASSUME Inv, NEW s, NEW error \in BOOLEAN, HandleWsConnected(s, error)
    PROVE  Inv'
<1> DEFINE o == sessions[s].ws
           w1 == [o EXCEPT !.conn = "lost", !.timer = TRUE]
           w2 == [o EXCEPT !.conn = "upgrading"]
           w == IF error THEN w1 ELSE w2
           t == [After(error) EXCEPT !.sessions[s].ws =
                   IF error THEN [@ EXCEPT !.conn = "lost", !.timer = TRUE]
                            ELSE [@ EXCEPT !.conn = "upgrading"]]
<1>1. s \in Live /\ Becomes(t)
  BY DEF HandleWsConnected
<1>2. s \in Sessions /\ sessions[s] # Null /\ o \in WebSocket
  BY <1>1, WsFacts
<1>3. t = Put(After(error), s, WithWs(sessions[s], w))
  <2>1. After(error).sessions = sessions
    BY AfterGrows
  <2> QED BY <2>1 DEF Put, WithWs
<1> HIDE DEF o, t
<1>4. w1 \in WebSocket /\ WsInv(w1)
  <2>1. w1 \in WebSocket /\ w1.timer = TRUE
    BY <1>2 DEF WebSocket
  <2> QED BY <2>1 DEF WsInv
<1>5. w2 \in WebSocket /\ WsInv(w2)
  <2>1. w2 \in WebSocket /\ w2.conn = "upgrading"
    BY <1>2 DEF WebSocket
  <2> QED BY <2>1 DEF WsInv
<1> HIDE DEF w1, w2
<1>6. w \in WebSocket /\ WsInv(w)
  BY <1>4, <1>5
<1> HIDE DEF w
<1> QED BY <1>1, <1>2, <1>3, <1>6, WsStep

\* WebSocketClient::handleDisconnected.
LEMMA HandleDisconnectedStep ==
    ASSUME Inv, NEW s, HandleDisconnected(s)
    PROVE  Inv'
<1> DEFINE x == sessions[s]
           o == x.ws
           n == After(TRUE)
           w1 == [o EXCEPT !.conn = "lost"]
           w == [w1 EXCEPT !.timer = TRUE]
           y == WithWs(x, w1)
           u == Put(n, s, y)
           t == [n EXCEPT !.sessions[s].ws.conn = "lost", !.sessions[s].ws.timer = TRUE]
<1>1. s \in Live /\ Becomes(t)
  BY DEF HandleDisconnected
<1>2. s \in Sessions /\ x # Null /\ x \in SessionObjects /\ o \in WebSocket
  BY <1>1, WsFacts
<1>3. n.sessions = sessions /\ n \in St
  BY AfterGrows DEF Grows, Good
<1>4. w1 \in WebSocket
  BY <1>2 DEF WebSocket
<1>5. t = [u EXCEPT !.sessions[s].ws.timer = TRUE]
  <2> HIDE DEF n
  <2> QED BY <1>3 DEF Put, WithWs
<1> HIDE DEF n, w1, x
<1>6. y.ws = w1 /\ \A v : WithWs(y, v) = WithWs(x, v)
  BY <1>2, <1>4, WithWsParts
<1> HIDE DEF y
<1>7. u.sessions[s] = y /\ \A z : Put(u, s, z) = Put(n, s, z)
  BY <1>2, <1>3, PutTwice
<1> HIDE DEF u, t
<1>8. t = Put(u, s, WithWs(y, w))
  BY <1>5, <1>6, <1>7 DEF Put, WithWs
<1>9. w \in WebSocket /\ w.timer = TRUE
  BY <1>4 DEF WebSocket
<1> HIDE DEF w
<1>10. t = Put(After(TRUE), s, WithWs(sessions[s], w))
  BY <1>6, <1>7, <1>8 DEF n, x
<1>11. WsInv(w) /\ sessions[s] # Null
  BY <1>2, <1>9 DEF WsInv, x
<1> QED BY <1>1, <1>2, <1>9, <1>10, <1>11, WsStep

\* The reconnect timer of the WebSocketClient.
LEMMA ReconnectTimerStep ==
    ASSUME Inv, NEW s, ReconnectTimer(s)
    PROVE  Inv'
<1> DEFINE st == Now
           t == ConnectServer(st, s)
<1>1. s \in Live /\ Becomes(t)
  BY DEF ReconnectTimer
<1>2. s \in Sessions /\ st.sessions[s] # Null /\ Good(st)
  BY <1>1, NowParts DEF Live, Inv
<1> HIDE DEF st
<1>3. Grows(st, t)
  BY <1>2, ConnectGrows
<1> HIDE DEF t
<1> QED BY <1>1, <1>3, GrowsInv DEF st

\* The WebSocket is up; the first time the session starts.
LEMMA HandleWebSocketConnectedStep ==
    ASSUME Inv, NEW s, HandleWebSocketConnected(s)
    PROVE  Inv'
<1> DEFINE st == Now
           x == st.sessions[s]
           w == [x.ws EXCEPT !.conn = "up"]
           y1 == WithWs(x, w)
           y == [y1 EXCEPT !.started = TRUE]
           up == [Now EXCEPT !.sessions[s].ws.conn = "up", !.sessions[s].started = TRUE]
           u == Put(st, s, y)
<1>1. s \in Live /\ Becomes(IF sessions[s].started THEN up ELSE HandleRTMStarted(up, s))
  BY DEF HandleWebSocketConnected
<1>2. /\ Good(st) /\ Joins(st) /\ st \in St /\ st.sessions = sessions
      /\ s \in Sessions /\ x # Null /\ x \in SessionObjects /\ x.ws \in WebSocket
  BY <1>1, WsFacts, NowParts DEF Inv, Good
<1>3. w \in WebSocket /\ w.conn = "up"
  <2> DEFINE o == x.ws
  <2>1. o \in WebSocket /\ w = [o EXCEPT !.conn = "up"]
    BY <1>2
  <2> HIDE DEF o, w
  <2> QED BY <2>1 DEF WebSocket
<1>4. up = [Put(st, s, y1) EXCEPT !.sessions[s].started = TRUE]
  BY DEF Put, WithWs
<1> HIDE DEF st, up, x, w
<1>5. /\ y1 \in SessionObjects /\ y1.apis = x.apis /\ y1.ws = w /\ y1.member = x.member
      /\ y1.known = x.known /\ y1.joined = x.joined /\ y1.failed = x.failed
      /\ y1.hasUser = x.hasUser /\ y1.started = x.started
  BY <1>2, <1>3, WithWsParts
<1> HIDE DEF y1
<1>6. up = u
  <2> DEFINE v == Put(st, s, y1)
  <2>1. v.sessions[s] = y1 /\ \A z : Put(v, s, z) = Put(st, s, z)
    BY <1>2, PutTwice
  <2> HIDE DEF v
  <2>2. up = Put(v, s, y)
    BY <1>4, <2>1 DEF Put, v
  <2> QED BY <2>1, <2>2
<1>7. /\ y \in SessionObjects /\ y.apis = x.apis /\ y.ws = w /\ y.member = x.member
      /\ y.known = x.known /\ y.joined = x.joined /\ y.failed = x.failed
      /\ y.hasUser = x.hasUser /\ y.started = TRUE
  BY <1>5 DEF SessionObjects
<1> HIDE DEF y
<1>8. u = With(st, st.pool, s, y)
  BY <1>2, JustSession
<1>9. SessionInv(st.pool, y, s) /\ PoolInv(st.pool) /\ st.pool \in Pools
  <2>1. SessionInv(st.pool, x, s) /\ PoolInv(st.pool)
    BY <1>2 DEF Good, x
  <2> QED BY <1>3, <1>7, <2>1 DEF SessionInv, WsInv, PoolInv, Exact
<1>10. Good(u)
  BY <1>2, <1>7, <1>8, <1>9, PoolGrowsRefl, WithGood DEF x
<1>11. /\ u.pool = st.pool /\ u.sessions[s] = y /\ u.ub = st.ub
       /\ \A z \in Sessions : z # s => u.sessions[z] = st.sessions[z]
  BY <1>2, <1>7, <1>8, <1>9, WithParts
<1> HIDE DEF u
<1>12. \A ch : Chained(st.pool, x, s, ch) => Chained(u.pool, y, s, ch)
  BY <1>7, <1>11 DEF Chained
<1>13. CASE sessions[s].started
  <2>1. x.started
    BY <1>2, <1>13 DEF x
  <2>2. Joins(u)
    <3> SUFFICES ASSUME u.ub = Null, NEW z \in Sessions, u.sessions[z] # Null,
                        NEW ch \in Channels, u.sessions[z].started
                 PROVE  Chained(u.pool, u.sessions[z], z, ch)
      BY DEF Joins
    <3>1. CASE z = s
      BY <1>2, <1>11, <1>12, <2>1, <3>1 DEF Joins, x
    <3>2. CASE z # s
      BY <1>2, <1>11, <3>2 DEF Joins
    <3> QED BY <3>1, <3>2
  <2>3. Becomes(u)
    BY <1>1, <1>6, <1>13
  <2> QED BY <1>10, <2>2, <2>3, BecomesInv
<1>14. CASE ~sessions[s].started
  <2> DEFINE t == HandleRTMStarted(u, s)
  <2>1. u.sessions[s] # Null
    BY <1>7, <1>11, SessionParts
  <2>2. Grows(u, t) /\ \A ch \in Channels : Chained(t.pool, t.sessions[s], s, ch)
    BY <1>2, <1>10, <2>1, StartedGrows
  <2>3. Becomes(t)
    BY <1>1, <1>6, <1>14
  <2> HIDE DEF t
  <2>4. Joins(t)
    <3> SUFFICES ASSUME t.ub = Null, NEW z \in Sessions, t.sessions[z] # Null,
                        NEW ch \in Channels, t.sessions[z].started
                 PROVE  Chained(t.pool, t.sessions[z], z, ch)
      BY DEF Joins
    <3>1. CASE z = s
      BY <2>2, <3>1
    <3>2. CASE z # s
      <4>1. u.ub = Null /\ u.sessions[z] # Null /\ u.sessions[z].started
        BY <2>2 DEF Grows
      <4>2. Chained(st.pool, st.sessions[z], z, ch)
        BY <1>2, <1>11, <3>2, <4>1 DEF Joins
      <4>3. Chained(u.pool, u.sessions[z], z, ch)
        BY <1>11, <3>2, <4>2
      <4> QED BY <2>2, <4>1, <4>3 DEF Grows
    <3> QED BY <3>1, <3>2
  <2>5. Good(t)
    BY <2>2 DEF Grows
  <2> QED BY <2>3, <2>4, <2>5, BecomesInv
<1> QED BY <1>13, <1>14

\* An event of Slack: a channel, or an error.
LEMMA HandlePayloadReceivedStep ==
    ASSUME Inv, NEW s, NEW type, NEW ch \in Channels, HandlePayloadReceived(s, type, ch)
    PROVE  Inv'
<1> DEFINE st == Now
           n == After(TRUE)
<1>1. s \in Live
  BY DEF HandlePayloadReceived
<1>2. s \in Sessions /\ sessions[s] # Null
  BY <1>1, WsFacts
<1>3. Grows(st, n) /\ n.sessions = sessions
  BY AfterGrows
<1>4. Good(n) /\ n.sessions[s] # Null
  BY <1>2, <1>3 DEF Grows
<1>5. CASE type = "channel" /\ Becomes([n EXCEPT !.sessions[s].known = @ \cup {ch},
                                                  !.sessions[s].member = @ \cup {ch}])
  <2> DEFINE x == n.sessions[s]
             kn == x.known \cup {ch}
             me == x.member \cup {ch}
             y1 == [x EXCEPT !.known = kn]
             y == [y1 EXCEPT !.member = me]
             u == Put(n, s, y1)
             t == [n EXCEPT !.sessions[s].known = @ \cup {ch}, !.sessions[s].member = @ \cup {ch}]
             v == Put(n, s, y)
  <2>1. n \in St /\ x \in SessionObjects /\ SessionInv(n.pool, x, s)
    BY <1>2, <1>4, StParts DEF Good
  <2>2. t = [u EXCEPT !.sessions[s].member = @ \cup {ch}]
    BY DEF Put
  <2> HIDE DEF n
  <2>3. u.sessions[s] = y1 /\ \A z : Put(u, s, z) = Put(n, s, z)
    BY <1>2, <2>1, PutTwice
  <2>4. kn \subseteq Channels /\ me \subseteq Channels /\ me \subseteq kn
    BY <2>1, SessionParts DEF SessionInv
  <2>5. y1.member = x.member
    <3> HIDE DEF x, kn
    <3> QED BY <2>1 DEF SessionObjects
  <2>6. t = v
    <3>1. t = Put(u, s, y)
      <4> HIDE DEF u, t, y1, x
      <4> QED BY <2>2, <2>3, <2>5 DEF Put
    <3> HIDE DEF u, t, y
    <3> QED BY <2>3, <3>1
  <2> HIDE DEF x, kn, me
  <2>7. /\ y \in SessionObjects /\ y.apis = x.apis /\ y.ws = x.ws /\ y.member = me
        /\ y.known = kn /\ y.joined = x.joined /\ y.failed = x.failed
        /\ y.hasUser = x.hasUser /\ y.started = x.started
    BY <2>1, <2>4 DEF SessionObjects
  <2> HIDE DEF y
  <2>8. WsInv(y.ws) /\ y.member \subseteq y.known /\ x.joined \subseteq y.joined
        /\ x.failed \subseteq y.failed
    BY <2>1, <2>4, <2>7 DEF SessionInv
  <2>9. Grows(n, v)
    BY <1>2, <1>4, <2>7, <2>8, SessionGrows DEF x
  <2> HIDE DEF v, st
  <2>10. Grows(st, v)
    BY <1>3, <2>9, GrowsTrans
  <2>11. Becomes(v)
    BY <1>5, <2>6 DEF n
  <2> QED BY <2>10, <2>11, GrowsInv DEF st
<1>6. CASE type = "error" /\ Becomes(RTMStart(DisconnectServer(n, s), s))
  <2> DEFINE u == DisconnectServer(n, s)
             t == RTMStart(u, s)
  <2> HIDE DEF n, st
  <2>1. Grows(n, u)
    BY <1>2, <1>4, DisconnectGrows
  <2>2. Becomes(t)
    BY <1>6
  <2> HIDE DEF u
  <2>3. Good(u) /\ u.sessions[s] # Null
    BY <1>2, <1>4, <2>1 DEF Grows
  <2>4. Grows(u, t)
    BY <1>2, <2>3, RTMStartGrows
  <2> HIDE DEF t
  <2>5. Grows(n, t)
    BY <2>1, <2>4, GrowsTrans
  <2>6. Grows(st, t)
    BY <1>3, <2>5, GrowsTrans
  <2> QED BY <2>2, <2>6, GrowsInv DEF st
<1> QED BY <1>5, <1>6 DEF HandlePayloadReceived

\* SlackSession::sendMessage.
LEMMA SendMessageStep ==
    ASSUME Inv, NEW ch \in RoomChannels, SendMessage(ch)
    PROVE  Inv'
<1> DEFINE st == Now
           t == QueueRequest(st, user, "bot", "post", ch)
<1>1. user # Null /\ Becomes(t)
  BY DEF SendMessage
<1>2. Good(st) /\ user \in Sessions /\ st.sessions[user] # Null
  <2>1. st.user = user /\ Good(st) /\ st \in St
    BY NowParts DEF Inv, Good
  <2> HIDE DEF st
  <2> QED BY <1>1, <2>1, StParts DEF Good, Owned
<1>3. Job(user, "bot", "post", ch) \in JobSet /\ "bot" \in Apis
  BY <1>2, JobTypes DEF Apis, Channels
<1> HIDE DEF st
<1>4. Grows(st, t)
  BY <1>2, <1>3, QueueRequestGrows
<1> HIDE DEF t
<1> QED BY <1>1, <1>4, GrowsInv DEF st

\* SlackSession::sendOnlineBuddies, on its timer.
LEMMA SendOnlineBuddiesStep ==
    ASSUME Inv, NEW s, SendOnlineBuddies(s)
    PROVE  Inv'
<1> DEFINE st == Now
           x == st.sessions[s]
           y == [x EXCEPT !.buddiesTimer = FALSE]
<1>1. s \in Live
  BY DEF SendOnlineBuddies
<1>2. /\ Good(st) /\ st.sessions = sessions
      /\ s \in Sessions /\ x # Null /\ x \in SessionObjects /\ SessionInv(st.pool, x, s)
  BY <1>1, WsFacts, NowParts DEF Inv, Good
<1>3. CASE ~sessions[s].hasUser
  <2> DEFINE t == Put(st, s, y)
  <2>1. Becomes(t)
    BY <1>3 DEF SendOnlineBuddies, Put
  <2> HIDE DEF st, x
  <2>2. /\ y \in SessionObjects /\ y.apis = x.apis /\ y.ws = x.ws /\ y.member = x.member
        /\ y.known = x.known /\ y.joined = x.joined /\ y.failed = x.failed
        /\ y.hasUser = x.hasUser /\ y.started = x.started
    BY <1>2 DEF SessionObjects
  <2> HIDE DEF y
  <2>3. WsInv(y.ws) /\ y.member \subseteq y.known /\ x.joined \subseteq y.joined
        /\ x.failed \subseteq y.failed
    BY <1>2, <2>2 DEF SessionInv
  <2>4. Grows(st, t)
    BY <1>2, <2>2, <2>3, SessionGrows DEF x
  <2> HIDE DEF t
  <2> QED BY <2>1, <2>4, GrowsInv DEF st
<1>4. CASE sessions[s].hasUser
  <2> DEFINE t == QueueRequest(st, s, "team", "post", Null)
  <2>1. Becomes(t)
    BY <1>4 DEF SendOnlineBuddies
  <2>2. Job(s, "team", "post", Null) \in JobSet /\ "team" \in Apis
    BY <1>2, JobTypes DEF Apis
  <2> HIDE DEF st
  <2>3. Grows(st, t)
    BY <1>2, <2>2, QueueRequestGrows
  <2> HIDE DEF t
  <2> QED BY <2>1, <2>3, GrowsInv DEF st
<1> QED BY <1>3, <1>4

\* The loop of disconnectUser over the channels of the session.
LEMMA TellLoop ==
    ASSUME NEW st, Good(st), NEW s \in Sessions, st.sessions[s] # Null,
           NEW C, C \subseteq RoomChannels
    PROVE  LET t == FoldLeft(LAMBDA t, ch : QueueRequest(t, s, "bot", "post", ch), st, SetToSeq(C))
           IN  Grows(st, t) /\ t.temp = st.temp /\ t.user = st.user
<1> DEFINE q == SetToSeq(C)
           n == Cardinality(C)
           A == {t \in St : Grows(st, t) /\ t.temp = st.temp /\ t.user = st.user}
           F == [x \in A \X (1 .. n) |-> QueueRequest(x[1], s, "bot", "post", q[x[2]])]
           Loop(h) == [S \in SUBSET DOMAIN q |->
                         IF S = {} THEN st
                         ELSE QueueRequest(h[S \ {Max(S)}], s, "bot", "post", q[Max(S)])]
           fold == FoldLeft(LAMBDA t, ch : QueueRequest(t, s, "bot", "post", ch), st, q)
<1>1. n \in Nat /\ DOMAIN q = 1 .. n /\ \A i \in 1 .. n : q[i] \in Channels
  <2>1. IsFiniteSet(C)
    BY SlackAssumption, FS_Subset
  <2>2. q \in [1 .. n -> C] /\ n \in Nat
    BY <2>1, SetToSeqLists
  <2> HIDE DEF q, n
  <2> QED BY <2>2 DEF Channels
<1> HIDE DEF n, q
<1>2. fold = (CHOOSE h : h = Loop(h))[DOMAIN q]
  BY DEF FoldLeft, MapThenFoldSet
<1>3. st \in A
  BY GrowsRefl DEF Good
<1>4. ASSUME NEW t \in A, NEW i \in 1 .. n
      PROVE  QueueRequest(t, s, "bot", "post", q[i]) \in A
  <2> DEFINE u == QueueRequest(t, s, "bot", "post", q[i])
  <2>1. Good(t) /\ t.sessions[s] # Null /\ q[i] \in Channels /\ Grows(st, t)
    BY <1>1 DEF Grows
  <2>2. Job(s, "bot", "post", q[i]) \in JobSet /\ "bot" \in Apis
    BY <2>1, JobTypes DEF Apis
  <2>3. Grows(t, u) /\ u.temp = t.temp /\ u.user = t.user
    BY <2>1, <2>2, QueueRequestGrows
  <2> HIDE DEF u
  <2>4. Grows(st, u) /\ u \in St
    BY <2>1, <2>3, GrowsTrans DEF Grows, Good
  <2> QED BY <2>3, <2>4 DEF u
<1>5. F \in [A \X (1 .. n) -> A]
  BY <1>4
<1>6. \A t \in A, i \in 1 .. n : F[<<t, i>>] = QueueRequest(t, s, "bot", "post", q[i])
  OBVIOUS
<1> HIDE DEF F, A, fold
<1>7. \E h \in [SUBSET (1 .. n) -> A] : h = Loop(h)
  <2>1. PICK h \in [SUBSET (1 .. n) -> A] : IsLoop(h, n, st, F)
    BY <1>1, <1>3, <1>5, LoopExists
  <2>2. ASSUME NEW S \in SUBSET (1 .. n), S # {}
        PROVE  Max(S) \in 1 .. n /\ S \ {Max(S)} \in SUBSET (1 .. n)
    BY <1>1, <2>2, MaxOfIndices
  <2>3. ASSUME NEW S \in SUBSET (1 .. n)
        PROVE  h[S] = IF S = {} THEN st
                      ELSE QueueRequest(h[S \ {Max(S)}], s, "bot", "post", q[Max(S)])
    BY <1>6, <2>1, <2>2 DEF IsLoop
  <2> QED BY <1>1, <2>3
<1> DEFINE h == CHOOSE h : h = Loop(h)
<1>8. h = Loop(h)
  <2> HIDE DEF Loop
  <2> QED BY <1>7
<1> HIDE DEF h
<1>9. h[{}] \in A
  BY <1>1, <1>3, <1>8
<1>10. ASSUME NEW S \in SUBSET (1 .. n), S # {}, h[S \ {Max(S)}] \in A PROVE h[S] \in A
  <2>1. Max(S) \in 1 .. n
    BY <1>1, <1>10, MaxOfIndices
  <2>2. h[S] = QueueRequest(h[S \ {Max(S)}], s, "bot", "post", q[Max(S)])
    BY <1>1, <1>8, <1>10
  <2> QED BY <1>4, <1>10, <2>1, <2>2
<1>11. h[1 .. n] \in A
  <2> HIDE DEF Loop
  <2>1. \A S \in SUBSET (1 .. n) : h[S] \in A
    BY <1>1, <1>9, <1>10, LoopInvariant
  <2> QED BY <2>1
<1>12. fold \in A
  BY <1>1, <1>2, <1>11 DEF h
<1> QED BY <1>12 DEF A, fold, q

\* The User gives its session back.
LEMMA GiveBack ==
    ASSUME NEW st, Good(st), Joins(st), NEW s \in Sessions, st.user = s
    PROVE  LET t == [st EXCEPT !.temp = s, !.user = Null, !.sessions[s].disconnected = TRUE,
                               !.sessions[s].hasUser = FALSE]
           IN  Good(t) /\ Joins(t)
<1> DEFINE x == st.sessions[s]
           y1 == [x EXCEPT !.disconnected = TRUE]
           y == [y1 EXCEPT !.hasUser = FALSE]
           s1 == [st.sessions EXCEPT ![s] = y1]
           ss == [st.sessions EXCEPT ![s] = y]
           t == [st EXCEPT !.temp = s, !.user = Null, !.sessions[s].disconnected = TRUE,
                           !.sessions[s].hasUser = FALSE]
<1>1. /\ st \in St /\ st.sessions \in [Sessions -> SessionObjects \cup {Null}] /\ Null \notin Sessions
      /\ x # Null /\ x \in SessionObjects /\ SessionInv(st.pool, x, s) /\ PoolInv(st.pool)
  BY StParts, SlackAssumption DEF Good, Owned
<1>2. t = [st EXCEPT !.temp = s, !.user = Null, !.sessions = ss]
  <2> DEFINE a == [st EXCEPT !.temp = s, !.user = Null]
             b == [a EXCEPT !.sessions = s1]
  <2>1. a.sessions = st.sessions
    BY <1>1 DEF St
  <2>2. t = [[a EXCEPT !.sessions[s].disconnected = TRUE] EXCEPT !.sessions[s].hasUser = FALSE]
    OBVIOUS
  <2>3. [a EXCEPT !.sessions[s].disconnected = TRUE] = b
    <3> HIDE DEF a
    <3> QED BY <2>1
  <2>4. s1[s] = y1 /\ [s1 EXCEPT ![s] = y] = ss
    <3> HIDE DEF y1, y
    <3> QED BY <1>1
  <2> HIDE DEF s1, t
  <2>5. b.sessions = s1
    BY <1>1 DEF St
  <2>6. t = [b EXCEPT !.sessions = ss]
    <3>1. t = [b EXCEPT !.sessions[s].hasUser = FALSE]
      BY <2>2, <2>3
    <3> HIDE DEF b, y1, ss
    <3> QED BY <2>4, <2>5, <3>1
  <2> HIDE DEF ss
  <2> QED BY <1>1, <2>6 DEF St
<1> HIDE DEF x, t
<1>3. /\ y \in SessionObjects /\ y.apis = x.apis /\ y.ws = x.ws /\ y.member = x.member
      /\ y.known = x.known /\ y.joined = x.joined /\ y.failed = x.failed
      /\ y.hasUser = FALSE /\ y.started = x.started
  BY <1>1 DEF SessionObjects
<1> HIDE DEF y, y1
<1>4. y # Null
  BY <1>3, SessionParts
<1>5. /\ ss \in [Sessions -> SessionObjects \cup {Null}] /\ ss[s] = y
      /\ \A z \in Sessions : z # s => ss[z] = st.sessions[z]
  BY <1>1, <1>3
<1> HIDE DEF ss
<1>6. /\ t \in St /\ t.pool = st.pool /\ t.sessions = ss /\ t.user = Null /\ t.temp = s
      /\ t.registered = st.registered /\ t.created = st.created /\ t.ub = st.ub
  BY <1>1, <1>2, <1>5 DEF St
<1>7. SessionInv(st.pool, y, s)
  BY <1>1, <1>3 DEF SessionInv
<1>8. \A z \in Sessions : ss[z] = Null <=> st.sessions[z] = Null
  BY <1>1, <1>4, <1>5 DEF x
<1>9. Owned(t)
  <2>1. \A z \in Sessions : t.sessions[z] # Null => (t.sessions[z].hasUser <=> t.user = z)
    <3> SUFFICES ASSUME NEW z \in Sessions, ss[z] # Null PROVE ~ss[z].hasUser
      BY <1>1, <1>6
    <3>1. CASE z = s
      BY <1>3, <1>5, <3>1
    <3>2. CASE z # s
      BY <1>5, <3>2 DEF Good, Owned
    <3> QED BY <3>1, <3>2
  <2>2. \A z \in Sessions : z > t.created => t.sessions[z] = Null
    BY <1>6, <1>8 DEF Good, Owned
  <2>3. t.temp # Null /\ t.sessions[t.temp] # Null /\ t.user = Null
    BY <1>1, <1>4, <1>5, <1>6
  <2>4. t.ub # "null_session"
    BY <1>6 DEF Good, Owned
  <2> QED BY <2>1, <2>2, <2>3, <2>4 DEF Owned
<1>10. Good(t)
  <2>1. ASSUME NEW z \in Sessions, t.sessions[z] # Null PROVE SessionInv(t.pool, t.sessions[z], z)
    BY <1>5, <1>6, <1>7, <1>8, <2>1 DEF Good
  <2> QED BY <1>1, <1>6, <1>9, <2>1 DEF Good
<1>11. Joins(t)
  <2>1. \A ch : Chained(st.pool, x, s, ch) => Chained(st.pool, y, s, ch)
    BY <1>3 DEF Chained
  <2> SUFFICES ASSUME t.ub = Null, NEW z \in Sessions, t.sessions[z] # Null,
                      NEW ch \in Channels, t.sessions[z].started
               PROVE  Chained(t.pool, t.sessions[z], z, ch)
    BY DEF Joins
  <2>2. CASE z = s
    BY <1>1, <1>3, <1>5, <1>6, <2>1, <2>2 DEF Joins, x
  <2>3. CASE z # s
    BY <1>5, <1>6, <2>3 DEF Joins
  <2> QED BY <2>2, <2>3
<1> QED BY <1>10, <1>11 DEF t

\* SlackUser::disconnectUser: the session tells its channels and becomes the
\* temporary one again.
LEMMA DisconnectUserStep ==
    ASSUME Inv, DisconnectUser
    PROVE  Inv'
<1> DEFINE st == Now
           s == user
           C == sessions[user].joined \cap RoomChannels
           tell(v) == FoldLeft(LAMBDA t, ch : QueueRequest(t, user, "bot", "post", ch), v, SetToSeq(C))
           u1 == tell(st)
           u2 == tell(u1)
           t == [u2 EXCEPT !.temp = s, !.user = Null, !.sessions[s].disconnected = TRUE,
                           !.sessions[s].hasUser = FALSE]
<1>1. user # Null /\ Becomes(t)
  BY DEF DisconnectUser
<1>2. Good(st) /\ Joins(st) /\ s \in Sessions /\ st.sessions[s] # Null /\ st.user = s
  <2>1. st.user = user /\ Good(st) /\ Joins(st) /\ st \in St
    BY NowParts DEF Inv, Good
  <2> HIDE DEF st
  <2> QED BY <1>1, <2>1, StParts DEF Good, Owned
<1>3. C \subseteq RoomChannels
  OBVIOUS
<1>4. ASSUME NEW v, Good(v), v.sessions[s] # Null PROVE Grows(v, tell(v)) /\ tell(v).user = v.user
  BY <1>2, <1>3, <1>4, TellLoop
<1> HIDE DEF st, tell
<1>5. Grows(st, u1) /\ u1.user = s
  BY <1>2, <1>4
<1> HIDE DEF u1
<1>6. Good(u1) /\ u1.sessions[s] # Null /\ Joins(u1)
  BY <1>2, <1>5, GrowsJoins DEF Grows
<1>7. Grows(u1, u2) /\ u2.user = s
  BY <1>4, <1>5, <1>6
<1> HIDE DEF u2
<1>8. Good(u2) /\ Joins(u2)
  BY <1>6, <1>7, GrowsJoins DEF Grows
<1>9. Good(t) /\ Joins(t)
  BY <1>2, <1>7, <1>8, GiveBack
<1> HIDE DEF t
<1> QED BY <1>1, <1>9, BecomesInv

\* The team is gone: the User and its session are deleted.
LEMMA UnregisterUserStep ==
    ASSUME Inv, UnregisterUser
    PROVE  Inv'
<1> DEFINE st == Now
<1>1. Good(st) /\ Joins(st) /\ st \in St /\ st.user = user
  BY NowParts DEF Inv, Good
<1>2. CASE user = Null
  <2> DEFINE t == [st EXCEPT !.registered = FALSE]
  <2>1. Becomes(t)
    BY <1>2 DEF UnregisterUser
  <2> HIDE DEF st
  <2>2. /\ t \in St /\ t.pool = st.pool /\ t.sessions = st.sessions /\ t.created = st.created
        /\ t.temp = st.temp /\ t.user = st.user /\ t.registered = FALSE /\ t.ub = st.ub
    BY <1>1 DEF St
  <2> HIDE DEF t
  <2>3. Owned(t)
    BY <1>1, <2>2 DEF Good, Owned
  <2>4. Good(t) /\ Joins(t)
    BY <1>1, <2>2, <2>3 DEF Good, Joins
  <2> QED BY <2>1, <2>4, BecomesInv
<1>3. CASE user # Null
  <2> DEFINE s == user
             ss == [st.sessions EXCEPT ![s] = Null]
             d == [st EXCEPT !.sessions = ss]
             t == [d EXCEPT !.registered = FALSE, !.user = Null]
  <2>1. Becomes(t)
    BY <1>3 DEF UnregisterUser, Deleted
  <2>2. s \in Sessions /\ st.user = s
    BY <1>1, <1>3, StParts
  <2> HIDE DEF st, s
  <2>3. /\ ss \in [Sessions -> SessionObjects \cup {Null}] /\ ss[s] = Null
        /\ \A z \in Sessions : z # s => ss[z] = st.sessions[z]
    BY <1>1, <2>2, StParts
  <2> HIDE DEF ss
  <2>4. /\ t \in St /\ t.pool = st.pool /\ t.sessions = ss /\ t.created = st.created
        /\ t.temp = st.temp /\ t.user = Null /\ t.registered = FALSE /\ t.ub = st.ub
    BY <1>1, <2>3 DEF St
  <2> HIDE DEF t
  <2>5. st.temp \in Sessions \cup {Null} /\ Null \notin Sessions
    BY <1>1, StParts, SlackAssumption
  <2>6. \A z \in Sessions : ss[z] # Null => z # s /\ ss[z] = st.sessions[z]
    BY <2>3
  <2>7. Owned(t)
    <3>1. \A z \in Sessions : t.sessions[z] # Null => (t.sessions[z].hasUser <=> t.user = z)
      BY <1>1, <2>2, <2>4, <2>5, <2>6 DEF Good, Owned
    <3>2. \A z \in Sessions : z > t.created => t.sessions[z] = Null
      BY <1>1, <2>3, <2>4 DEF Good, Owned
    <3>3. t.temp # Null => t.sessions[t.temp] # Null
      <4>1. st.temp # Null => st.sessions[st.temp] # Null
        BY <1>1 DEF Good, Owned
      <4>2. st.temp # s
        BY <1>1, <2>2, <2>5 DEF Good, Owned
      <4> QED BY <2>3, <2>4, <2>5, <4>1, <4>2
    <3>4. t.ub # "null_session"
      BY <1>1, <2>4 DEF Good, Owned
    <3> QED BY <2>4, <3>1, <3>2, <3>3, <3>4 DEF Owned
  <2>8. Good(t)
    BY <1>1, <2>4, <2>6, <2>7 DEF Good
  <2>9. Joins(t)
    BY <1>1, <2>4, <2>6 DEF Joins
  <2> QED BY <2>1, <2>8, <2>9, BecomesInv
<1> QED BY <1>2, <1>3

-----------------------------------------------------------------------------
(* The theorems. *)

\* ThreadPool::ThreadPool.
LEMMA NewPoolInv == PoolInv(NewPool) /\ NewPool.freeThreads \in Seq(Workers)
<1> DEFINE f == [i \in 1 .. MAX_THREADS |-> i]
           g == [w \in Workers |-> NoJob]
           p == NewPool
<1>1. MAX_THREADS \in Nat /\ Workers = 1 .. MAX_THREADS
  BY SlackAssumption DEF Workers
<1>2. f \in Seq(Workers) /\ DOMAIN f = Workers /\ \A i \in Workers : f[i] = i
  BY <1>1
<1>3. g \in [Workers -> JobSet \cup {NoJob}] /\ \A w \in Workers : g[w] = NoJob
  OBVIOUS
<1>4. p = [freeThreads |-> f, requestQueue |-> <<>>, worker |-> g, posted |-> <<>>]
  BY DEF NewPool
<1> HIDE DEF f, g, p
<1>5. /\ p.freeThreads = f /\ p.requestQueue = <<>> /\ p.worker = g /\ p.posted = <<>>
  BY <1>4
<1>6. p \in Pools
  BY <1>2, <1>3, <1>4 DEF Pools
<1>7. Entries(f) = Workers /\ Distinct(f)
  BY <1>2 DEF Entries, Distinct
<1>8. Entries(<<>>) = {} /\ Distinct(<<>>)
  BY DEF Entries, Distinct
<1>9. Exact(p)
  BY <1>3, <1>5, <1>6, <1>7, <1>8 DEF Exact
<1> QED BY <1>2, <1>5, <1>9 DEF PoolInv, p

\* The frontend starts with an idle pool, no session and no team.
LEMMA InitInv == Init => Inv
<1> SUFFICES ASSUME Init PROVE Inv
  OBVIOUS
<1> DEFINE st == Now
           none == [s \in Sessions |-> Null]
<1>1. /\ st.registered = FALSE /\ st.auths = {} /\ st.pool = NewPool /\ st.sessions = none
      /\ st.created = 0 /\ st.temp = Null /\ st.user = Null /\ st.ub = Null /\ st.faults = 0
  BY NowParts DEF Init
<1>2. NewPool \in Pools /\ PoolInv(NewPool)
  BY NewPoolInv DEF PoolInv, Exact
<1>3. 0 \in 0 .. MaxSessions
  BY SlackAssumption
<1>4. none \in [Sessions -> SessionObjects \cup {Null}] /\ \A s \in Sessions : none[s] = Null
  OBVIOUS
<1>0. /\ registered = FALSE /\ auths = {} /\ pool = NewPool /\ sessions = none
      /\ created = 0 /\ temp = Null /\ user = Null /\ ub = Null /\ faults = 0
  BY DEF Init
<1> HIDE DEF none
<1>5. st = [registered |-> FALSE, auths |-> {}, pool |-> NewPool, sessions |-> none,
            created |-> 0, temp |-> Null, user |-> Null, ub |-> Null, faults |-> 0]
  BY <1>0 DEF Now
<1> HIDE DEF st
<1>5a. st \in St
  BY <1>2, <1>3, <1>4, <1>5 DEF St
<1>6. Null # "null_session"
  BY SlackAssumption
<1>7. Owned(st)
  BY <1>1, <1>4, <1>6 DEF Owned
<1>8. Good(st)
  BY <1>1, <1>2, <1>4, <1>5a, <1>7 DEF Good
<1>9. Joins(st)
  BY <1>1, <1>4 DEF Joins
<1> QED BY <1>8, <1>9 DEF Inv, st

\* Every step keeps the invariant, one case for each action.
LEMMA NextInv == Inv /\ [Next]_vars => Inv'
<1> SUFFICES ASSUME Inv, [Next]_vars PROVE Inv'
  OBVIOUS
<1>1. CASE UNCHANGED vars
  <2>1. Now' = Now
    BY <1>1 DEF vars, Now
  <2>2. Good(Now') /\ Joins(Now')
    BY <2>1 DEF Inv
  <2>3. Good(Now)'
    BY <2>2 DEF Good
  <2>4. Joins(Now)'
    BY <2>2 DEF Joins
  <2> QED BY <2>3, <2>4 DEF Inv
<1>2. CASE \E state \in States :
             CreateOAuth2URL(state) \/ \E ok \in BOOLEAN : HandleOAuth2Code(state, ok)
  BY <1>2, CreateOAuth2URLStep, HandleOAuth2CodeStep
<1>3. CASE \E w \in Workers : WorkerBody(w)
  BY <1>3, WorkerBodyStep
<1>4. CASE \E ok, invited, inactive \in BOOLEAN, chs \in SUBSET Channels :
             CleandUp(ok, chs, invited, inactive)
  BY <1>4, CleandUpStep
<1>5. ASSUME NEW s \in Sessions, \E api \in Apis : QueueTimer(s, api) PROVE Inv'
  BY <1>5, QueueTimerStep
<1>6. ASSUME NEW s \in Sessions,
             \E ok \in BOOLEAN : HandleDNSResult(s, ok) \/ HandleWsConnected(s, ok)
      PROVE  Inv'
  BY <1>6, HandleDNSResultStep, HandleWsConnectedStep
<1>7. ASSUME NEW s \in Sessions,
             HandleWebSocketConnected(s) \/ HandleDisconnected(s) \/ ReconnectTimer(s)
             \/ SendOnlineBuddies(s)
      PROVE  Inv'
  BY <1>7, HandleWebSocketConnectedStep, HandleDisconnectedStep, ReconnectTimerStep,
     SendOnlineBuddiesStep
<1>8. ASSUME NEW s \in Sessions,
             \E ch \in Channels, type \in {"channel", "error"} : HandlePayloadReceived(s, type, ch)
      PROVE  Inv'
  BY <1>8, HandlePayloadReceivedStep
<1>9. CASE \E ch \in RoomChannels : SendMessage(ch)
  BY <1>9, SendMessageStep
<1>10. CASE DisconnectUser \/ UnregisterUser
  BY <1>10, DisconnectUserStep, UnregisterUserStep
<1> QED BY <1>1, <1>2, <1>3, <1>4, <1>5, <1>6, <1>7, <1>8, <1>9, <1>10 DEF Next

\* The invariant holds always.
LEMMA SpecInv == Spec => []Inv
  BY InitInv, NextInv, PTL DEF Spec

\* What the invariant says of the variables.
LEMMA InvParts ==
    ASSUME Inv
    PROVE  /\ registered \in BOOLEAN /\ auths \subseteq States /\ PoolInv(pool)
           /\ sessions \in [Sessions -> SessionObjects \cup {Null}] /\ created \in 0 .. MaxSessions
           /\ temp \in Sessions \cup {Null} /\ user \in Sessions \cup {Null}
           /\ ub \in {Null, "null_session", "freed_callback"}
           /\ \A s \in Live : SessionInv(pool, sessions[s], s) /\ sessions[s] \in SessionObjects
<1> DEFINE st == Now
<1>1. Good(st) /\ st \in St
  BY DEF Inv, Good
<1>2. /\ st.registered = registered /\ st.auths = auths /\ st.pool = pool
      /\ st.sessions = sessions /\ st.created = created /\ st.temp = temp
      /\ st.user = user /\ st.ub = ub
  BY NowParts
<1> HIDE DEF st
<1>3. /\ registered \in BOOLEAN /\ auths \subseteq States
      /\ sessions \in [Sessions -> SessionObjects \cup {Null}] /\ created \in 0 .. MaxSessions
      /\ temp \in Sessions \cup {Null} /\ user \in Sessions \cup {Null}
      /\ ub \in {Null, "null_session", "freed_callback"}
  BY <1>1, <1>2, StParts
<1>4. PoolInv(pool) /\ \A s \in Live : SessionInv(pool, sessions[s], s)
  BY <1>1, <1>2 DEF Good, Live
<1>5. \A s \in Live : sessions[s] \in SessionObjects
  BY <1>3 DEF Live
<1> QED BY <1>3, <1>4, <1>5

\* Entries and Distinct are Range and IsInjective of the library.
LEMMA RangeIsEntries == \A f : Range(f) = Entries(f) /\ (Distinct(f) => IsInjective(f))
  BY DEF Range, Entries, Distinct, IsInjective

\* The jobs of the pool, as the properties name them.
LEMMA JobsInIs ==
    ASSUME NEW p, p \in Pools
    PROVE  JobsIn(p) = Range(p.requestQueue) \cup (Range(p.worker) \ {NoJob})
<1>1. DOMAIN p.worker = Workers
  BY DEF Pools
<1> QED BY <1>1 DEF JobsIn, Entries, Range

\* Every variable has its type, for every number of workers, sessions and
\* channels.
THEOREM SlackTyped == Spec => []TypeOK
<1>1. Inv => TypeOK
  <2> SUFFICES ASSUME Inv PROVE TypeOK
    OBVIOUS
  <2>1. pool.requestQueue \in Seq(JobSet) /\ pool.worker \in [Workers -> JobSet \cup {NoJob}]
    BY InvParts, PoolParts DEF PoolInv, Exact
  <2>2. \A s \in Live : sessions[s].member \subseteq sessions[s].known
    BY InvParts DEF SessionInv
  <2> QED BY <2>1, <2>2, InvParts DEF TypeOK
<1> QED BY <1>1, SpecInv, PTL

\* ThreadPool: every worker is free or has a job, is listed once, and no job
\* waits while a worker is free, although finalize() starts jobs itself.
THEOREM PoolNeverIdles == Spec => []PoolWorks
<1>1. Inv => PoolWorks
  <2> SUFFICES ASSUME Inv PROVE PoolWorks
    OBVIOUS
  <2>1. PoolInv(pool)
    BY InvParts
  <2>2. PoolExact
    BY <2>1, RangeIsEntries DEF PoolExact, PoolInv, Exact
  <2> QED BY <2>1, <2>2 DEF PoolWorks, NoIdleWorker, PoolInv
<1> QED BY <1>1, SpecInv, PTL

\* SlackUser and SlackSession: m_user and m_session agree, the session of the
\* User and the temporary one are alive, and a User always finds a session.
THEOREM SessionsHaveOwners == Spec => []SessionOwned
<1>1. Inv => SessionOwned
  <2> SUFFICES ASSUME Inv PROVE SessionOwned
    OBVIOUS
  <2> DEFINE st == Now
  <2>1. Owned(st) /\ st.sessions = sessions /\ st.temp = temp /\ st.user = user /\ st.ub = ub
    BY NowParts DEF Inv, Good
  <2> HIDE DEF st
  <2>2. BackPointer
    BY <2>1 DEF BackPointer, Owned, Live
  <2>3. NoNullSession
    BY <2>1, InvParts DEF NoNullSession, Owned, Live
  <2> QED BY <2>2, <2>3 DEF SessionOwned
<1> QED BY <1>1, SpecInv, PTL

\* SlackSession: a queued request, a WebSocket that was told to connect and the
\* join of a configured channel are each waited for by something.
THEOREM SlackGoesOn == Spec => []NothingStalls
<1>1. Inv => NothingStalls
  <2> SUFFICES ASSUME Inv PROVE NothingStalls
    OBVIOUS
  <2>1. pool \in Pools
    BY InvParts DEF PoolInv, Exact
  <2>2. JobsIn(pool) = Range(pool.requestQueue) \cup (Range(pool.worker) \ {NoJob})
    BY <2>1, JobsInIs
  <2>3. QueueMoves
    <3> SUFFICES ASSUME NEW s \in Live, NEW a \in Apis, sessions[s].apis[a].queue # <<>>,
                        ~sessions[s].apis[a].timer
                 PROVE  sessions[s].apis[a].req # NoJob /\ InPool(s, a)
      BY DEF QueueMoves
    <3>1. QueueInv(pool, sessions[s].apis[a], s, a)
      BY InvParts DEF SessionInv
    <3>2. sessions[s].apis[a].req # NoJob /\ InPoolOf(pool, s, a)
      BY <3>1 DEF QueueInv
    <3> QED BY <2>2, <3>2 DEF InPool, InPoolOf
  <2>4. WebSocketRetries
    <3>1. \A s \in Live : WsInv(sessions[s].ws)
      BY InvParts DEF SessionInv
    <3> QED BY <3>1 DEF WebSocketRetries, WsInv
  <2>5. JoinNotLost
    <3> SUFFICES ASSUME ub = Null, NEW s \in Live, NEW ch \in Channels, sessions[s].started
                 PROVE  ch \in sessions[s].joined \cup sessions[s].failed \/ ChainPending(s, ch)
      BY DEF JoinNotLost
    <3>1. Chained(pool, sessions[s], s, ch)
      <4> DEFINE st == Now
      <4>1. Joins(st) /\ st.sessions = sessions /\ st.pool = pool /\ st.ub = ub
        BY NowParts DEF Inv
      <4> HIDE DEF st
      <4>2. s \in Sessions /\ st.sessions[s] # Null
        BY <4>1 DEF Live
      <4> QED BY <4>1, <4>2 DEF Joins
    <3>2. Range(sessions[s].apis["team"].queue) = Entries(sessions[s].apis["team"].queue)
      BY RangeIsEntries
    <3> QED BY <2>2, <3>1, <3>2 DEF Chained, ChainPending, IsChain
  <2> QED BY <2>3, <2>4, <2>5 DEF NothingStalls
<1> QED BY <1>1, SpecInv, PTL
=============================================================================
