----------------------------- MODULE ThreadPool -----------------------------
(***************************************************************************)
(* ThreadPool and HTTPRequestQueue, as operators on their states.          *)
(*                                                                         *)
(* A pool p runs jobs on worker threads.  A job's run() is executed by its *)
(* thread, which then posts an event; the main loop takes the events in    *)
(* order, and there finalize() is called and the worker is given the next  *)
(* job that waits.  Everything but run() happens in the main loop, so that *)
(* the three mutexes never see two threads.  The counter activeThreads,    *)
(* which only getActiveThreadCount reads, is left out.                     *)
(*                                                                         *)
(* A queue q sends the requests of one SlackAPI to the pool, half a second *)
(* after the last one finished, or at once when it believes to be idle.    *)
(***************************************************************************)
EXTENDS Integers, FiniteSets, SequencesExt

CONSTANTS
    MAX_THREADS,    \* the number of workers
    NoJob           \* no job

Workers == 1..MAX_THREADS

NewPool ==
    [freeThreads |-> [i \in 1..MAX_THREADS |-> i],
     requestQueue |-> <<>>,
     worker |-> [w \in Workers |-> NoJob],
     posted |-> <<>>]       \* the workers whose cleandUp events wait

runAsThreadMutant(p, j) ==
    IF p.freeThreads # <<>>
    THEN [p EXCEPT !.worker[Head(p.freeThreads)] = j]
    ELSE [p EXCEPT !.requestQueue = Append(@, j)]

runAsThread(p, j) ==
    IF p.freeThreads # <<>>
    THEN [p EXCEPT !.freeThreads = Tail(@), !.worker[Head(p.freeThreads)] = j]
    ELSE [p EXCEPT !.requestQueue = Append(@, j)]

(* workerBody: the thread of w has run its job. *)
Running(p) == {w \in Workers : p.worker[w] # NoJob} \ Range(p.posted)
workerBody(p, w) == [p EXCEPT !.posted = Append(@, w)]

releaseThread(p, w) ==
    [p EXCEPT !.worker[w] = NoJob, !.freeThreads = Append(@, w)]

(* While there are requests and free workers. *)
scheduleFromQueue(p) ==
    LET n == Min({Len(p.requestQueue), Len(p.freeThreads)}) IN
    [p EXCEPT !.requestQueue = SubSeq(@, n + 1, Len(@)),
              !.freeThreads = SubSeq(@, n + 1, Len(@)),
              !.worker = [w \in Workers |->
                  IF \E i \in 1..n : p.freeThreads[i] = w
                  THEN p.requestQueue[CHOOSE i \in 1..n : p.freeThreads[i] = w]
                  ELSE @[w]]]

(* The end of cleandUp, after finalize(). *)
cleandUp(p, w) ==
    scheduleFromQueue(releaseThread([p EXCEPT !.posted = Tail(@)], w))

-----------------------------------------------------------------------------
(* HTTPRequestQueue.  m_req is the request believed to be in flight; each  *)
(* operator gives the queue and, in run, the request to execute now.       *)

NewQueue == [queue |-> <<>>, req |-> NoJob, timer |-> FALSE]

Idle(q) == [q |-> q, run |-> NoJob]

(* With nothing to send m_req is forgotten, even one still in flight.      *)
sendNextRequest(q) ==
    IF q.queue = <<>> THEN Idle([q EXCEPT !.req = NoJob, !.timer = FALSE])
    ELSE IF q.req # NoJob THEN Idle(q)
    ELSE [q |-> [q EXCEPT !.req = Head(q.queue), !.queue = Tail(@)],
          run |-> Head(q.queue)]

queueRequest(q, j) ==
    LET pushed == [q EXCEPT !.queue = Append(@, j)] IN
    IF q.req = NoJob THEN sendNextRequest(pushed) ELSE Idle(pushed)

handleRequestFinished(q) == [q EXCEPT !.req = NoJob, !.timer = TRUE]
=============================================================================
