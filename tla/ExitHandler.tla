----------------------------- MODULE ExitHandler -----------------------------
(* log_exit_handler: a signal interrupts a thread wherever it is, and the    *)
(* handler calls the dispatcher's flush() before the process dies.  Of the   *)
(* dispatcher there are its queue, the worker's tickets and flush_mutex_.    *)
EXTENDS Naturals, Sequences, FiniteSets

CONSTANTS AppThreads, Worker,
          CrashSignals,   \* SIGSEGV, SIGABRT, ...: reset to the default when they arrive
          EndSignals,     \* SIGTERM, SIGINT: not reset
          Loggers,        \* bound: the threads that log
          MaxLogged,      \* bound: lines of one of them
          MaxFlushes,     \* bound: flushes outside handlers
          MaxSignals,     \* bound: signals with a handler
          None

Signals == CrashSignals \cup EndSignals
SignalThreads == AppThreads \cup {Worker}

VARIABLES handlers_installed, in_handler,
          action,      \* what a signal does: "default" or "handler"
          pending,     \* queue_: the lines of each thread, and the markers
          flush_seq, flush_done,
          flush_mutex, \* its owner
          task,        \* each thread: [pc, seq, sig, within, marker]
          logged, written, \* lines of each thread
          flushes,
          killedBy     \* the thread in whose handler the process ended, or "default"

exitVars == <<handlers_installed, in_handler, action, pending, flush_seq, flush_done,
              flush_mutex, task, logged, written, flushes, killedBy>>
dispatchVars == <<pending, flush_seq, flush_done, flush_mutex>>
linesVars == <<logged, written, flushes>>
handlerVars == <<handlers_installed, in_handler, action>>

(* `within': what the signal interrupted; `marker': whether the pool had one  *)
(* for this flush.                                                            *)
Running == [pc |-> "run", seq |-> 0, sig |-> None, within |-> "run", marker |-> TRUE]

ExitInit ==
    /\ handlers_installed = FALSE /\ in_handler = FALSE
    /\ action = [s \in Signals |-> "default"]
    /\ pending = [lines |-> [t \in SignalThreads |-> 0], markers |-> 0] /\ flush_seq = 0 /\ flush_done = 0 /\ flush_mutex = None
    /\ task = [t \in SignalThreads |-> Running]
    /\ logged = [t \in SignalThreads |-> 0] /\ written = [t \in SignalThreads |-> 0]
    /\ flushes = 0
    /\ killedBy = None

Alive == killedBy = None
IsAt(t, pc) == Alive /\ task[t].pc = pc
Does(t, x) == task' = [task EXCEPT ![t] = x]
InHandler(t) == task[t].sig # None

(* install(): once.                                                          *)
Install ==
    /\ Alive /\ ~handlers_installed
    /\ handlers_installed' = TRUE
    /\ action' = [s \in Signals |-> "handler"]
    /\ UNCHANGED <<in_handler, dispatchVars, task, linesVars, killedBy>>

LogLine(t) ==
    /\ IsAt(t, "run") /\ t \in Loggers /\ logged[t] < MaxLogged
    /\ pending' = [pending EXCEPT !.lines[t] = @ + 1]
    /\ logged' = [logged EXCEPT ![t] = @ + 1]
    /\ UNCHANGED <<handlerVars, flush_seq, flush_done, flush_mutex, task, written, flushes, killedBy>>

-----------------------------------------------------------------------------
(* flush(), called by the program, or by emergency_flush().                  *)
CallFlush(t) ==
    /\ IsAt(t, "run") /\ t \in AppThreads /\ flushes < MaxFlushes
    /\ flushes' = flushes + 1
    /\ Does(t, [Running EXCEPT !.pc = "acquire"])
    /\ UNCHANGED <<handlerVars, dispatchVars, logged, written, killedBy>>

(* emergency_flush: only the first to set in_handler_ goes on; nothing ever  *)
(* clears it.  log_exit_handler::flush() calls it outside a handler.         *)
EmergencyFlush(t) ==
    /\ \/ IsAt(t, "handler") /\ UNCHANGED flushes
       \/ /\ IsAt(t, "run") /\ t \in AppThreads /\ flushes < MaxFlushes
          /\ flushes' = flushes + 1
    /\ in_handler' = TRUE
    /\ Does(t, [task[t] EXCEPT !.pc = IF in_handler THEN "end" ELSE "acquire"])
    /\ UNCHANGED <<handlers_installed, action, dispatchVars, logged, written, killedBy>>

AcquireMarker(t) ==
    /\ IsAt(t, "acquire")
    /\ flush_seq' = flush_seq + 1
    /\ Does(t, [task[t] EXCEPT !.pc = "lock", !.seq = flush_seq + 1])
    /\ UNCHANGED <<handlerVars, pending, flush_done, flush_mutex, linesVars, killedBy>>

(* No buffer in the pool: flush() returns at once.                           *)
NoMarker(t) ==
    /\ IsAt(t, "acquire")
    /\ Does(t, [task[t] EXCEPT !.pc = "end", !.marker = FALSE])
    /\ UNCHANGED <<handlerVars, dispatchVars, linesVars, killedBy>>

LockFlush(t) ==
    /\ IsAt(t, "lock") /\ flush_mutex = None
    /\ flush_mutex' = t
    /\ Does(t, [task[t] EXCEPT !.pc = "locked"])
    /\ UNCHANGED <<handlerVars, pending, flush_seq, flush_done, linesVars, killedBy>>

(* Enqueue the marker and wait, which gives the mutex back.                  *)
EnqueueAndWait(t) ==
    /\ IsAt(t, "locked")
    /\ pending' = [pending EXCEPT !.markers = @ + 1]
    /\ flush_mutex' = None
    /\ Does(t, [task[t] EXCEPT !.pc = IF flush_done >= task[t].seq THEN "end" ELSE "wait"])
    /\ UNCHANGED <<handlerVars, flush_seq, flush_done, linesVars, killedBy>>

FlushDoneLater(t) ==  \* (mutant) waits for the ticket behind its own
    /\ IsAt(t, "woken") /\ flush_mutex = None
    /\ Does(t, [task[t] EXCEPT !.pc = IF flush_done > task[t].seq THEN "end" ELSE "wait"])
    /\ UNCHANGED <<handlerVars, dispatchVars, linesVars, killedBy>>

FlushDone(t) ==
    /\ IsAt(t, "woken") /\ flush_mutex = None
    /\ Does(t, [task[t] EXCEPT !.pc = IF flush_done >= task[t].seq THEN "end" ELSE "wait"])
    /\ UNCHANGED <<handlerVars, dispatchVars, linesVars, killedBy>>

ReturnToProgram(t) ==
    /\ IsAt(t, "end") /\ ~InHandler(t)
    /\ Does(t, Running)
    /\ UNCHANGED <<handlerVars, dispatchVars, linesVars, killedBy>>

-----------------------------------------------------------------------------
(* The worker, unless a signal has interrupted it, takes a batch: of each    *)
(* producer the oldest elements, of all of them any number.  Then it counts  *)
(* the markers, and to wake who waits it needs the mutex.                    *)
Work ==
    /\ IsAt(Worker, "run")
    /\ \E n \in [AppThreads -> 0 .. MaxLogged], m \in 0 .. pending.markers :
         /\ \A t \in AppThreads : n[t] <= pending.lines[t]
         /\ m > 0 \/ \E t \in AppThreads : n[t] > 0
         /\ pending' = [lines |-> [t \in SignalThreads |-> IF t \in AppThreads THEN pending.lines[t] - n[t] ELSE 0],
                        markers |-> pending.markers - m]
         /\ written' = [t \in SignalThreads |-> IF t \in AppThreads THEN written[t] + n[t] ELSE 0]
         /\ flush_done' = flush_done + m
         /\ Does(Worker, IF m > 0 THEN [Running EXCEPT !.pc = "notify"] ELSE Running)
    /\ UNCHANGED <<handlerVars, flush_seq, flush_mutex, logged, flushes, killedBy>>

Notify ==
    /\ IsAt(Worker, "notify") /\ flush_mutex = None
    /\ task' = [t \in SignalThreads |->
                  IF t = Worker THEN Running
                  ELSE IF task[t].pc = "wait" THEN [task[t] EXCEPT !.pc = "woken"] ELSE task[t]]
    /\ UNCHANGED <<handlerVars, dispatchVars, linesVars, killedBy>>

-----------------------------------------------------------------------------
(* A signal: not while this thread handles one, its mask holds the others    *)
(* back.                                                                     *)
RaiseSignal(t, s) ==
    /\ Alive /\ ~InHandler(t) /\ handlers_installed /\ action[s] = "handler"
    /\ Cardinality({u \in SignalThreads : InHandler(u)}) < MaxSignals
    /\ action' = IF s \in CrashSignals THEN [action EXCEPT ![s] = "default"] ELSE action
    /\ Does(t, [Running EXCEPT !.pc = "handler", !.sig = s, !.within = task[t].pc])
    /\ UNCHANGED <<handlers_installed, in_handler, dispatchVars, linesVars, killedBy>>

(* The default action is to end the process, flushed or not.                 *)
DefaultSignal(t, s) ==
    /\ Alive /\ ~InHandler(t) /\ action[s] = "default"
    /\ killedBy' = "default"
    /\ UNCHANGED <<handlerVars, dispatchVars, task, linesVars>>

(* signal(sig, SIG_DFL), raise(sig), and the handler returns.                *)
RaiseAgain(t) ==
    /\ IsAt(t, "end") /\ InHandler(t)
    /\ action' = [action EXCEPT ![task[t].sig] = "default"]
    /\ killedBy' = t
    /\ UNCHANGED <<handlers_installed, in_handler, dispatchVars, task, linesVars>>

FlushSteps(t) ==
    \/ AcquireMarker(t) \/ NoMarker(t) \/ LockFlush(t) \/ EnqueueAndWait(t) \/ FlushDone(t)
    \/ ReturnToProgram(t) \/ RaiseAgain(t) \/ (InHandler(t) /\ EmergencyFlush(t))

ExitNext ==
    \/ Install \/ Work \/ Notify
    \/ \E t \in SignalThreads :
         \/ LogLine(t) \/ CallFlush(t) \/ (~InHandler(t) /\ EmergencyFlush(t)) \/ FlushSteps(t)
         \/ \E s \in Signals : RaiseSignal(t, s) \/ DefaultSignal(t, s)

(* Threads go on with what they are in, unless they wait for another.        *)
ExitFairness == /\ WF_exitVars(Work) /\ WF_exitVars(Notify)
                /\ \A t \in SignalThreads : WF_exitVars(FlushSteps(t))
ExitSpec == ExitInit /\ [][ExitNext]_exitVars /\ ExitFairness
=============================================================================
