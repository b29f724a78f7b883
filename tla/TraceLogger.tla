---------------------------- MODULE TraceLogger ----------------------------
(***************************************************************************)
(* The trace logger of eigen_fft.hpp (compiled in by EIGFFT_TRACE_THREADS):*)
(* workers collect messages in thread-local buffers and push full ones on  *)
(* a queue, a background thread writes what is queued to the run's log,    *)
(* and the destructor, at the program's exit, stops that thread and drains *)
(* the queue, while other threads may still log.                           *)
(*                                                                         *)
(* Each critical section and each access outside of one is a step.  A      *)
(* message is the thread and its number; what is left in a thread-local    *)
(* buffer at exit is lost, as a comment of the class says (501-502).       *)
(***************************************************************************)
EXTENDS Integers, SequencesExt

CONSTANTS
  Threads,      (* threads that log                                        *)
  FlushAt,      (* messages that make a thread-local buffer full: 64       *)
  MaxMessages   (* messages each thread logs; a bound for TLC              *)

ASSUME LoggerAssumption == FlushAt \in Nat \ {0} /\ MaxMessages \in Nat

VARIABLES
  logged,    (* messages each thread has logged so far                     *)
  tls,       (* each thread's tls_buf, or to_push while it is handed over  *)
  at,        (* each thread: "log", or on its way through the flush        *)
  queue,     (* queue_: full buffers                                       *)
  running,   (* running_                                                   *)
  writer,    (* where the background thread is in run()                    *)
  work,      (* what it has taken out of the queue                         *)
  closer,    (* where the destructor is                                    *)
  drained,   (* what drain_all has taken out of the queue                  *)
  file       (* the run log                                                *)

vars == <<logged, tls, at, queue, running, writer, work, closer, drained, file>>

logging == <<logged, tls, at>>

Init ==
  /\ logged = [t \in Threads |-> 0]
  /\ tls = [t \in Threads |-> <<>>]
  /\ at = [t \in Threads |-> "log"]
  /\ queue = <<>> /\ work = <<>> /\ drained = <<>> /\ file = <<>>
  /\ running = TRUE
  /\ writer = "check"
  /\ closer = "not called"

-----------------------------------------------------------------------------
\* log(): the message goes into the thread's own buffer; a full one is handed over, ...
Log(t) ==
  /\ closer # "closed"
  /\ at[t] = "log" /\ logged[t] < MaxMessages
  /\ logged' = [logged EXCEPT ![t] = @ + 1]
  /\ tls' = [tls EXCEPT ![t] = Append(@, <<t, logged'[t]>>)]
  /\ at' = [at EXCEPT ![t] = IF Len(tls'[t]) >= FlushAt THEN "push" ELSE "log"]
  /\ UNCHANGED <<queue, running, writer, work, closer, drained, file>>

\* ... under queue_mutex_, ...
Push(t) ==
  /\ closer # "closed"
  /\ at[t] = "push"
  /\ queue' = Append(queue, tls[t])
  /\ tls' = [tls EXCEPT ![t] = <<>>]
  /\ at' = [at EXCEPT ![t] = "notify"]
  /\ UNCHANGED <<logged, running, writer, work, closer, drained, file>>

\* notify_one wakes the background thread if it waits, and is lost if it does not.
Woken == IF writer = "wait" THEN "woken" ELSE writer

\* ... and announced after the mutex was released.
Notify(t) ==
  /\ closer # "closed"
  /\ at[t] = "notify"
  /\ writer' = Woken
  /\ at' = [at EXCEPT ![t] = "log"]
  /\ UNCHANGED <<logged, tls, queue, running, work, closer, drained, file>>

-----------------------------------------------------------------------------
\* run(): running_ is read without the mutex, ...
CheckRunning ==
  /\ writer = "check"
  /\ writer' = IF running THEN "lock" ELSE "ended"
  /\ UNCHANGED <<logging, queue, running, work, closer, drained, file>>

\* ... then, under it, an empty queue makes the thread wait, a filled one is taken.
Take ==
  /\ \/ writer = "lock" /\ queue = <<>> /\ writer' = "wait"
     \/ writer = "woken" /\ queue = <<>> /\ writer' = "check"
     \/ writer \in {"lock", "woken"} /\ queue # <<>> /\ writer' = "write"
  /\ work' = queue /\ queue' = <<>>
  /\ UNCHANGED <<logging, running, closer, drained, file>>

\* Mutant: wait() instead of wait_for().
NeverTimesOut == FALSE /\ UNCHANGED vars

\* wait_for gives up after a tenth of a second.
TimesOut ==
  /\ writer = "wait"
  /\ writer' = "woken"
  /\ UNCHANGED <<logging, queue, running, work, closer, drained, file>>

\* What was taken is written under out_mutex_.
Write ==
  /\ writer = "write"
  /\ file' = file \o FlattenSeq(work)
  /\ work' = <<>>
  /\ writer' = "check"
  /\ UNCHANGED <<logging, queue, running, closer, drained>>

-----------------------------------------------------------------------------
\* ~TraceLogger(): the flag is lowered without the mutex, ...
Stop ==
  /\ closer = "not called"
  /\ running' = FALSE
  /\ closer' = "notify"
  /\ UNCHANGED <<logging, queue, writer, work, drained, file>>

NotifyWriter ==
  /\ closer = "notify"
  /\ writer' = Woken
  /\ closer' = "join"
  /\ UNCHANGED <<logging, queue, running, work, drained, file>>

\* Mutant: does not wait for the background thread.
JoinNobody ==
  /\ closer = "join"
  /\ closer' = "drain"
  /\ UNCHANGED <<logging, queue, running, writer, work, drained, file>>

\* Mutant: what is still queued is left behind.
JoinAndClose ==
  /\ closer = "join" /\ writer = "ended"
  /\ closer' = "closed"
  /\ UNCHANGED <<logging, queue, running, writer, work, drained, file>>

Join ==
  /\ closer = "join" /\ writer = "ended"
  /\ closer' = "drain"
  /\ UNCHANGED <<logging, queue, running, writer, work, drained, file>>

\* drain_all: the rest is taken out of the queue, ...
Drain ==
  /\ closer = "drain"
  /\ drained' = queue /\ queue' = <<>>
  /\ closer' = "flush"
  /\ UNCHANGED <<logging, running, writer, work, file>>

\* ... written, and the file closed.
Close ==
  /\ closer = "flush"
  /\ file' = file \o FlattenSeq(drained)
  /\ drained' = <<>>
  /\ closer' = "closed"
  /\ UNCHANGED <<logging, queue, running, writer, work>>

LogStep(t) == Log(t) \/ Push(t) \/ Notify(t)
WriterStep == CheckRunning \/ Take \/ TimesOut \/ Write
CloserStep == NotifyWriter \/ Join \/ Drain \/ Close

Next == (\E t \in Threads : LogStep(t)) \/ WriterStep \/ Stop \/ CloserStep

\* The threads run when they can, and a timed wait ends; nobody has to log or to exit.
Fairness == WF_vars(WriterStep) /\ WF_vars(CloserStep)

Spec == Init /\ [][Next]_vars /\ Fairness

-----------------------------------------------------------------------------
(* What was handed over, in the order in which it is or will be written.   *)
Trail == file \o FlattenSeq(work) \o FlattenSeq(drained) \o FlattenSeq(queue)

Pushed(t) == logged[t] - Len(tls[t])

\* No message of a thread comes before an earlier one of its own.
Ordered(trail) ==
  \A k, l \in DOMAIN trail : k < l /\ trail[k][1] = trail[l][1] => trail[k][2] < trail[l][2]

(* Each thread's messages reach the log once each, in the order it logged  *)
(* them, and until they do each of them is in one place: the background    *)
(* thread's hands, the destructor's, the queue, its thread's buffer.       *)
InOrder ==
  /\ Ordered(Trail)
  /\ ToSet(Trail) = UNION {{t} \X (1..Pushed(t)) : t \in Threads}
  /\ \A t \in Threads : tls[t] = [i \in 1..Len(tls[t]) |-> <<t, Pushed(t) + i>>]

(* The program can exit: the destructor returns although its flag and its  *)
(* notification may fall between the background thread's look at running_  *)
(* and its wait, and nobody notifies again.                                *)
DestructorReturns == (closer = "notify") ~> (closer = "closed")

(* What was pushed before the destructor took the rest of the queue is     *)
(* written, by the background thread or by the destructor.                 *)
PushedIsWritten ==
  \A m \in Threads \X (1..MaxMessages) :
    (m \in ToSet(FlattenSeq(queue)) /\ closer \notin {"flush", "closed"})
      ~> (m \in ToSet(file))
=============================================================================
