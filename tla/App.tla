-------------------------------- MODULE App ---------------------------------
(***************************************************************************)
(* The frame of every process: AgoApp in shared/agoapp.cpp.                *)
(*                                                                         *)
(* The main thread sets the process up, runs the message loop and cleans   *)
(* up.  The io thread runs, one at a time, the handler of signals and the  *)
(* handlers of the application's timers, each of which waits for its next  *)
(* event before it returns; it ends when nothing is left to wait for.      *)
(* (The pool of threads is part of Rpc.)                                   *)
(***************************************************************************)
EXTENDS Naturals, FiniteSets

CONSTANTS
    Timers,      \* those of the application
    MaxSignals   \* bound: SIGINT and SIGTERM sent by the user

ASSUME AppAssumption == MaxSignals \in Nat

VARIABLES
    mpc,            \* where the main thread is
    todo,           \* the timers it has still to start or to cancel
    ioThread,       \* "none", "idle", "ended" or where its handler is
    timer,          \* the timer whose handler that is
    ioWork,         \* keeps the io thread from ending
    timers,         \* "off", "armed", or "expired": the handler is queued
    signals,        \* the same, for the next signal
    pending,        \* signals nobody waited for yet
    sent,           \* signals so far
    exitSignaled,
    connection,     \* agoConnection: "none", "there" or "reset"
    shutdownSignaled,
    cancelled,      \* history: timers that have been cancelled
    rearmed         \* history: one was armed after that

main == <<mpc, todo>>
io   == <<ioThread, timer>>
sig  == <<signals, pending, sent, exitSignaled, shutdownSignaled>>
vars == <<main, io, ioWork, timers, sig, connection, cancelled, rearmed>>

Ended == mpc \in {"exited", "killed"}
Goto(from, to) == mpc = from /\ mpc' = to

Init ==
    /\ mpc = "setup" /\ todo = {}
    /\ ioThread = "none" /\ timer \in Timers
    /\ ioWork = FALSE
    /\ timers = [t \in Timers |-> "off"]
    /\ signals = "off" /\ pending = 0 /\ sent = 0
    /\ exitSignaled = 0 /\ shutdownSignaled = FALSE
    /\ connection = "none"
    /\ cancelled = {} /\ rearmed = FALSE

-----------------------------------------------------------------------------
(***************************************************************************)
(* The main thread                                                         *)
(***************************************************************************)
(* setup(): appMutex is held, so that the io thread can do no more than    *)
(* wait for it.  A bad logging configuration ends it before that thread.   *)
Setup ==
    /\ signals' = "armed"
    /\ \/ /\ Goto("setup", "connect")
          /\ ioThread' = "idle" /\ ioWork' = TRUE
          /\ connection' = "there"
       \/ /\ Goto("setup", "cleanup")
          /\ UNCHANGED <<ioThread, ioWork, connection>>
    /\ UNCHANGED <<todo, timer, timers, pending, sent, exitSignaled, shutdownSignaled,
                   cancelled, rearmed>>

(* setupAgoConnection(), without the mutex; then !exitSignaled             *)
Connect ==
    /\ \/ Goto("connect", "setupApp") /\ exitSignaled = 0 /\ todo' = Timers
       \/ Goto("connect", "cleanup") /\ UNCHANGED todo
    /\ UNCHANGED <<io, ioWork, timers, sig, connection, cancelled, rearmed>>

(* setupApp() starts the timers or throws a StartupError or a              *)
(* ConfigurationError before.                                              *)
Arm(t) == timers' = [timers EXCEPT ![t] = "armed"]

SetupApp ==
    /\ mpc = "setupApp"
    /\ \/ \E t \in todo : Arm(t) /\ todo' = todo \ {t} /\ UNCHANGED mpc
       \/ todo = {} /\ mpc' = "check" /\ UNCHANGED <<todo, timers>>
       \/ todo = Timers /\ mpc' = "cleanup" /\ todo' = {} /\ UNCHANGED timers
    /\ UNCHANGED <<io, ioWork, sig, connection, cancelled, rearmed>>

(* main() aborts the startup after a signal.                               *)
StartLoop ==
    /\ \/ Goto("check", "loop") /\ exitSignaled = 0
       \/ Goto("check", "doShutdown") /\ exitSignaled > 0
    /\ UNCHANGED <<todo, io, ioWork, timers, sig, connection, cancelled, rearmed>>

LeaveLoop ==
    /\ Goto("loop", "doShutdown")
    /\ shutdownSignaled
    /\ UNCHANGED <<todo, io, ioWork, timers, sig, connection, cancelled, rearmed>>

(* cancel() stops a timer, not a handler that is queued already.           *)
Cancel ==
    /\ mpc = "cancel"
    /\ \/ \E t \in todo :
           /\ todo' = todo \ {t}
           /\ timers' = [timers EXCEPT ![t] = IF @ = "armed" THEN "off" ELSE @]
           /\ cancelled' = cancelled \cup {t}
           /\ UNCHANGED mpc
       \/ todo = {} /\ mpc' = "cleanup" /\ UNCHANGED <<todo, timers, cancelled>>
    /\ UNCHANGED <<io, ioWork, sig, connection, rearmed>>

(* The resolver cancels its timers in doShutdown(), the timer process in   *)
(* cleanupApp().  (Only the latter is called after a failed start; there   *)
(* is no timer to cancel then.)                                            *)
DoShutdown ==
    /\ \/ Goto("doShutdown", "cancel") /\ todo' = Timers
       \/ Goto("doShutdown", "cleanup") /\ UNCHANGED todo
    /\ UNCHANGED <<io, ioWork, timers, sig, connection, cancelled, rearmed>>

CleanupApp ==
    /\ \/ Goto("cleanup", "cancel") /\ cancelled # Timers /\ todo' = Timers
       \/ Goto("cleanup", "cleanupIoThread") /\ cancelled = Timers /\ UNCHANGED todo
    /\ UNCHANGED <<io, ioWork, timers, sig, connection, cancelled, rearmed>>

\* mutant of CleanupIoThread: the wait for the next signal is not cancelled
CleanupIoThread_Waits ==
    /\ Goto("cleanupIoThread", "join")
    /\ ioWork' = FALSE
    /\ UNCHANGED <<todo, io, timers, sig, connection, cancelled, rearmed>>

(* cleanupIoThread(), under appMutex up to the join                        *)
CleanupIoThread ==
    /\ Goto("cleanupIoThread", "join")
    /\ signals' = IF signals = "armed" THEN "off" ELSE signals
    /\ ioWork' = FALSE
    /\ UNCHANGED <<todo, io, timers, pending, sent, exitSignaled, shutdownSignaled,
                   connection, cancelled, rearmed>>

\* mutant of Join: the connection is given up without waiting
Join_Skipped ==
    /\ Goto("join", "reset")
    /\ UNCHANGED <<todo, io, ioWork, timers, sig, connection, cancelled, rearmed>>

Join ==
    /\ Goto("join", "reset")
    /\ ioThread \in {"none", "ended"}
    /\ UNCHANGED <<todo, io, ioWork, timers, sig, connection, cancelled, rearmed>>

CleanupAgoConnection ==
    /\ Goto("reset", "return")
    /\ connection' = "reset"
    /\ UNCHANGED <<todo, io, ioWork, timers, sig, cancelled, rearmed>>

Return ==
    /\ Goto("return", "exited")
    /\ UNCHANGED <<todo, io, ioWork, timers, sig, connection, cancelled, rearmed>>

MainStep ==
    \/ Setup \/ Connect \/ SetupApp \/ StartLoop \/ LeaveLoop \/ DoShutdown \/ Cancel
    \/ CleanupApp \/ CleanupIoThread \/ Join \/ CleanupAgoConnection \/ Return

-----------------------------------------------------------------------------
(***************************************************************************)
(* The io thread                                                           *)
(***************************************************************************)
TakeSignal ==
    /\ ioThread = "idle" /\ ioThread' = "signalExit"
    /\ signals = "expired" /\ signals' = "off"
    /\ UNCHANGED <<main, timer, ioWork, timers, pending, sent, exitSignaled, shutdownSignaled,
                   connection, cancelled, rearmed>>

\* mutant of HardTermination: one signal later
HardTermination_Later == exitSignaled' > 3
HardTermination == exitSignaled' > 2

(* signalExit(): the connection is told to shut down without appMutex.     *)
SignalExit ==
    /\ ioThread = "signalExit"
    /\ exitSignaled' = exitSignaled + 1
    /\ ioThread' = IF exitSignaled = 0 THEN "shutdown" ELSE "await"
    /\ mpc' = IF HardTermination THEN "killed" ELSE mpc
    /\ UNCHANGED <<todo, timer, ioWork, timers, signals, pending, sent, shutdownSignaled,
                   connection, cancelled, rearmed>>

Shutdown ==
    /\ ioThread = "shutdown" /\ ioThread' = "await"
    /\ shutdownSignaled' = TRUE
    /\ UNCHANGED <<main, timer, ioWork, timers, signals, pending, sent, exitSignaled,
                   connection, cancelled, rearmed>>

\* mutant of Terminated: the end of the io thread is not looked at
Terminated_Never == FALSE
Terminated == ~ioWork

(* signal_handler() waits for the next signal, under appMutex.             *)
Await ==
    /\ ioThread = "await" /\ ioThread' = "idle"
    /\ \/ Terminated /\ UNCHANGED <<signals, pending>>
       \/ ~Terminated /\ pending = 0 /\ signals' = "armed" /\ UNCHANGED pending
       \/ ~Terminated /\ pending > 0 /\ signals' = "expired" /\ pending' = pending - 1
    /\ UNCHANGED <<main, timer, ioWork, timers, sent, exitSignaled, shutdownSignaled,
                   connection, cancelled, rearmed>>

(* A timer's handler works, over the connection, and arms its timer again. *)
TakeTimer(t) ==
    /\ ioThread = "idle" /\ ioThread' = "work"
    /\ timers[t] = "expired" /\ timers' = [timers EXCEPT ![t] = "off"]
    /\ timer' = t
    /\ UNCHANGED <<main, ioWork, sig, connection, cancelled, rearmed>>

Work ==
    /\ ioThread = "work" /\ ioThread' = "rearm"
    /\ UNCHANGED <<main, timer, ioWork, timers, sig, connection, cancelled, rearmed>>

Rearm ==
    /\ ioThread = "rearm" /\ ioThread' = "idle"
    /\ Arm(timer)
    /\ rearmed' = (rearmed \/ timer \in cancelled)
    /\ UNCHANGED <<main, timer, ioWork, sig, connection, cancelled>>

OutOfWork ==
    /\ ioThread = "idle" /\ ioThread' = "ended"
    /\ ~ioWork /\ signals = "off" /\ \A t \in Timers : timers[t] = "off"
    /\ UNCHANGED <<main, timer, ioWork, timers, sig, connection, cancelled, rearmed>>

IoStep ==
    \/ TakeSignal \/ SignalExit \/ Shutdown \/ Await
    \/ (\E t \in Timers : TakeTimer(t)) \/ Work \/ Rearm
    \/ OutOfWork

-----------------------------------------------------------------------------
Expire(t) ==
    /\ timers[t] = "armed" /\ timers' = [timers EXCEPT ![t] = "expired"]
    /\ UNCHANGED <<main, io, ioWork, sig, connection, cancelled, rearmed>>

Kill ==
    /\ mpc # "setup"
    /\ sent < MaxSignals /\ sent' = sent + 1
    /\ IF signals = "armed" THEN signals' = "expired" /\ UNCHANGED pending
       ELSE pending' = pending + 1 /\ UNCHANGED signals
    /\ UNCHANGED <<main, io, ioWork, timers, exitSignaled, shutdownSignaled, connection,
                   cancelled, rearmed>>

Next == ~Ended /\ (MainStep \/ IoStep \/ Kill \/ \E t \in Timers : Expire(t))

Spec == Init /\ [][Next]_vars

(* Both threads run: connecting, an iteration of the loop and a handler's  *)
(* requests have timeouts.  Handlers are queued in their order, so timers  *)
(* that expire again and again do not keep a signal waiting.               *)
Fairness ==
    /\ WF_vars(~Ended /\ MainStep)
    /\ WF_vars(~Ended /\ IoStep)
    /\ SF_vars(~Ended /\ TakeSignal)

FairSpec == Spec /\ Fairness

-----------------------------------------------------------------------------
(* Every variable keeps its type; the third signal is the last one.        *)
TypeOK ==
    /\ mpc \in {"setup", "connect", "setupApp", "check", "loop", "doShutdown", "cancel", "cleanup",
               "cleanupIoThread", "join", "reset", "return", "exited", "killed"}
    /\ todo \subseteq Timers
    /\ ioThread \in {"none", "idle", "ended", "signalExit", "shutdown", "await", "work", "rearm"}
    /\ timer \in Timers
    /\ ioWork \in BOOLEAN
    /\ timers \in [Timers -> {"off", "armed", "expired"}]
    /\ signals \in {"off", "armed", "expired"}
    /\ pending \in 0..MaxSignals /\ sent \in 0..MaxSignals
    /\ exitSignaled \in 0..3 /\ (exitSignaled = 3 => mpc = "killed")
    /\ connection \in {"none", "there", "reset"}
    /\ shutdownSignaled \in BOOLEAN
    /\ cancelled \subseteq Timers
    /\ rearmed \in BOOLEAN

(* The io thread never uses a connection that main() has not yet created   *)
(* or has already given up, whenever signals come and timers expire.       *)
ConnectionAlive ==
    ~Ended /\ ioThread \in {"shutdown", "work", "rearm"} => connection = "there"

(* Nothing that the end of the process waits for is lost.  Every signal is *)
(* handled, being handled or kept for the handler, which takes it at once  *)
(* when it waits for one, and does wait for the next as long as main() can *)
(* run the loop; the first one shuts the connection down; and the thread   *)
(* that main() joins waits for no signal, and for no timer unless one was  *)
(* armed again after it had been cancelled (signal_handler(),              *)
(* signalExit(), cleanupIoThread()).                                       *)
Count(happens) == IF happens THEN 1 ELSE 0
SignalsCounted ==
    sent = exitSignaled + pending + Count(signals = "expired") + Count(ioThread = "signalExit")
HandlerWaits ==
    /\ pending > 0 => signals # "armed"
    /\ mpc = "loop" => \/ signals # "off" /\ ioThread \notin {"none", "ended"}
                       \/ ioThread \in {"signalExit", "shutdown", "await"}
FirstShutsDown == exitSignaled > 0 => shutdownSignaled \/ ioThread = "shutdown"
JoinsEnding ==
    mpc = "join" => signals # "armed" /\ (rearmed \/ \A t \in Timers : timers[t] # "armed")
ExitUnhindered == SignalsCounted /\ HandlerWaits /\ FirstShutsDown /\ JoinsEnding

(* A signal, or a start that fails, leads to the end of the process, from  *)
(* wherever it is, unless a timer's handler that was running or queued     *)
(* when its timer was cancelled has armed it again.                        *)
ExitEnds ==
    exitSignaled > 0 \/ mpc = "cleanup" ~> Ended \/ rearmed
=============================================================================
