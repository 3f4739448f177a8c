----------------------------- MODULE AppProofs ------------------------------
(***************************************************************************)
(* Proofs about App, for any timers and any number of signals.             *)
(***************************************************************************)
EXTENDS App, TLAPS

Unchanged == UNCHANGED vars

(* One step of either thread, of the user or of the clock                  *)
LEMMA StepCases ==
    ASSUME [Next]_vars
    PROVE  \/ ~Ended /\ MainStep
           \/ ~Ended /\ IoStep
           \/ ~Ended /\ Kill
           \/ ~Ended /\ \E t \in Timers : Expire(t)
           \/ Unchanged
  BY DEF Next, Unchanged

-----------------------------------------------------------------------------
(* Signals nobody waited for are signals that were sent.                   *)
TypeInv == TypeOK /\ pending <= sent

LEMMA TypeInit == Init => TypeInv
<1>1. ASSUME Init PROVE timers \in [Timers -> {"off", "armed", "expired"}]
  BY <1>1 DEF Init
<1>2. ASSUME Init PROVE pending <= sent /\ pending \in 0..MaxSignals /\ sent \in 0..MaxSignals
  BY <1>2, AppAssumption DEF Init, AppAssumption
<1>3. ASSUME Init PROVE TypeOK
  <2>1. exitSignaled \in 0..3 /\ (exitSignaled = 3 => mpc = "killed")
    BY <1>3 DEF Init
  <2> QED BY <1>1, <1>2, <1>3, <2>1 DEF Init, TypeOK
<1> QED BY <1>2, <1>3 DEF TypeInv

LEMMA TypeMain == ASSUME TypeInv, ~Ended, MainStep PROVE TypeInv'
<1> USE AppAssumption DEF TypeInv, TypeOK, Ended, Goto, main, io, sig
<1>1. CASE Setup BY <1>1 DEF Setup
<1>2. CASE Connect BY <1>2 DEF Connect
<1>3. CASE SetupApp BY <1>3 DEF SetupApp, Arm
<1>4. CASE StartLoop BY <1>4 DEF StartLoop
<1>5. CASE LeaveLoop BY <1>5 DEF LeaveLoop
<1>6. CASE DoShutdown BY <1>6 DEF DoShutdown
<1>7. CASE Cancel BY <1>7 DEF Cancel
<1>8. CASE CleanupApp BY <1>8 DEF CleanupApp
<1>9. CASE CleanupIoThread BY <1>9 DEF CleanupIoThread
<1>10. CASE Join BY <1>10 DEF Join
<1>11. CASE CleanupAgoConnection BY <1>11 DEF CleanupAgoConnection
<1>12. CASE Return BY <1>12 DEF Return
<1> QED BY <1>1, <1>2, <1>3, <1>4, <1>5, <1>6, <1>7, <1>8, <1>9, <1>10, <1>11, <1>12
        DEF MainStep

(* The third signal ends the process: there is no fourth.                  *)
LEMMA TypeIo == ASSUME TypeInv, ~Ended, IoStep PROVE TypeInv'
<1> USE AppAssumption DEF TypeInv, TypeOK, Ended, Goto, main, io, sig
<1>1. CASE TakeSignal BY <1>1 DEF TakeSignal
<1>2. CASE SignalExit
  <2>1. exitSignaled \in 0..2
    OBVIOUS
  <2> QED BY <1>2, <2>1 DEF SignalExit, HardTermination
<1>3. CASE Shutdown BY <1>3 DEF Shutdown
<1>4. CASE Await BY <1>4 DEF Await
<1>5. CASE \E t \in Timers : TakeTimer(t) BY <1>5 DEF TakeTimer
<1>6. CASE Work BY <1>6 DEF Work
<1>7. CASE Rearm BY <1>7 DEF Rearm, Arm
<1>8. CASE OutOfWork BY <1>8 DEF OutOfWork
<1> QED BY <1>1, <1>2, <1>3, <1>4, <1>5, <1>6, <1>7, <1>8 DEF IoStep

LEMMA TypeStep == ASSUME TypeInv, [Next]_vars PROVE TypeInv'
<1> USE AppAssumption DEF TypeInv, TypeOK, Ended, main, io, sig
<1>1. CASE ~Ended /\ Kill BY <1>1 DEF Kill
<1>2. CASE ~Ended /\ \E t \in Timers : Expire(t) BY <1>2 DEF Expire
<1>3. CASE Unchanged BY <1>3 DEF Unchanged, vars
<1> QED BY <1>1, <1>2, <1>3, TypeMain, TypeIo, StepCases

(* Every variable keeps its type, and the third signal is the last one.    *)
THEOREM TypeCorrect == Spec => []TypeOK
<1>1. TypeInv => TypeOK
  BY DEF TypeInv
<1> QED BY TypeInit, TypeStep, <1>1, PTL DEF Spec

-----------------------------------------------------------------------------
(* The io thread is started with the connection there, and has ended       *)
(* before the connection goes.                                             *)
ConnectionInv ==
    /\ mpc = "setup" => ioThread = "none"
    /\ mpc \in {"reset", "return"} => ioThread \in {"none", "ended"}
    /\ ioThread # "none" /\ mpc # "return" /\ ~Ended => connection = "there"

LEMMA ConnectionInit == Init => ConnectionInv
  BY DEF Init, ConnectionInv, Ended

LEMMA ConnectionMain == ASSUME ConnectionInv, ~Ended, MainStep PROVE ConnectionInv'
<1> USE DEF ConnectionInv, Ended, Goto, main, io, sig
<1>1. CASE Setup BY <1>1 DEF Setup
<1>2. CASE Connect BY <1>2 DEF Connect
<1>3. CASE SetupApp BY <1>3 DEF SetupApp
<1>4. CASE StartLoop BY <1>4 DEF StartLoop
<1>5. CASE LeaveLoop BY <1>5 DEF LeaveLoop
<1>6. CASE DoShutdown BY <1>6 DEF DoShutdown
<1>7. CASE Cancel BY <1>7 DEF Cancel
<1>8. CASE CleanupApp BY <1>8 DEF CleanupApp
<1>9. CASE CleanupIoThread BY <1>9 DEF CleanupIoThread
<1>10. CASE Join BY <1>10 DEF Join
<1>11. CASE CleanupAgoConnection BY <1>11 DEF CleanupAgoConnection
<1>12. CASE Return BY <1>12 DEF Return
<1> QED BY <1>1, <1>2, <1>3, <1>4, <1>5, <1>6, <1>7, <1>8, <1>9, <1>10, <1>11, <1>12
        DEF MainStep

LEMMA ConnectionIo == ASSUME ConnectionInv, ~Ended, IoStep PROVE ConnectionInv'
<1> USE DEF ConnectionInv, Ended, Goto, main, io, sig
<1>1. CASE TakeSignal BY <1>1 DEF TakeSignal
<1>2. CASE SignalExit BY <1>2 DEF SignalExit
<1>3. CASE Shutdown BY <1>3 DEF Shutdown
<1>4. CASE Await BY <1>4 DEF Await
<1>5. CASE \E t \in Timers : TakeTimer(t) BY <1>5 DEF TakeTimer
<1>6. CASE Work BY <1>6 DEF Work
<1>7. CASE Rearm BY <1>7 DEF Rearm
<1>8. CASE OutOfWork BY <1>8 DEF OutOfWork
<1> QED BY <1>1, <1>2, <1>3, <1>4, <1>5, <1>6, <1>7, <1>8 DEF IoStep

LEMMA ConnectionStep == ASSUME ConnectionInv, [Next]_vars PROVE ConnectionInv'
<1> USE DEF ConnectionInv, Ended, main, io, sig
<1>1. CASE ~Ended /\ Kill BY <1>1 DEF Kill
<1>2. CASE ~Ended /\ \E t \in Timers : Expire(t) BY <1>2 DEF Expire
<1>3. CASE Unchanged BY <1>3 DEF Unchanged, vars
<1> QED BY <1>1, <1>2, <1>3, ConnectionMain, ConnectionIo, StepCases

(* The io thread never uses a connection that main() has not yet created   *)
(* or has already given up.                                                *)
THEOREM ConnectionAliveCorrect == Spec => []ConnectionAlive
<1>1. ConnectionInv => ConnectionAlive
  BY DEF ConnectionInv, ConnectionAlive, Ended
<1> QED BY ConnectionInit, ConnectionStep, <1>1, PTL DEF Spec

-----------------------------------------------------------------------------
(***************************************************************************)
(* What the end of the process waits for.  The handler waits for the next  *)
(* signal as long as the io thread is kept from ending; a timer that has   *)
(* been cancelled stays off unless it is armed again; and what is left at  *)
(* the join has been cancelled.                                            *)
(***************************************************************************)
Starting == {"connect", "setupApp", "check", "loop"}
SignalInv ==
    /\ mpc = "setup" => signals = "off" /\ pending = 0 /\ ioThread = "none" /\ cancelled = {}
    /\ pending > 0 => signals # "armed"
    /\ mpc \in Starting => ioWork /\ ioThread # "none" /\ cancelled = {}
    /\ ioWork => ioThread # "ended"
    /\ ioWork /\ ioThread # "none" =>
           signals # "off" \/ ioThread \in {"signalExit", "shutdown", "await"}
    /\ ioThread \in {"signalExit", "shutdown", "await"} => signals = "off"
    /\ mpc \in {"join", "reset", "return"} => signals # "armed" /\ ~ioWork
TimersInv ==
    /\ \A t \in cancelled : timers[t] = "armed" => rearmed
    /\ mpc \in {"cleanupIoThread", "join"} => cancelled = Timers

ExitInv == SignalsCounted /\ FirstShutsDown /\ SignalInv /\ TimersInv

LEMMA ExitInit == Init => ExitInv
<1> SUFFICES ASSUME Init PROVE ExitInv
  OBVIOUS
<1> USE DEF Init
<1>1. SignalsCounted
  BY DEF SignalsCounted, Count
<1>2. FirstShutsDown
  BY DEF FirstShutsDown
<1>3. SignalInv
  BY DEF SignalInv, Starting
<1>4. TimersInv
  BY DEF TimersInv
<1> QED BY <1>1, <1>2, <1>3, <1>4 DEF ExitInv

LEMMA CountedMain == ASSUME ExitInv, ~Ended, MainStep PROVE SignalsCounted' /\ FirstShutsDown'
<1> USE DEF ExitInv, SignalsCounted, FirstShutsDown, Count, Goto, io, sig
<1>1. CASE Setup BY <1>1 DEF Setup, SignalInv
<1>2. CASE \/ Connect \/ SetupApp \/ StartLoop \/ LeaveLoop \/ DoShutdown \/ Cancel \/ CleanupApp
           \/ Join \/ CleanupAgoConnection \/ Return
  BY <1>2 DEF Connect, SetupApp, StartLoop, LeaveLoop, DoShutdown, Cancel, CleanupApp, Join,
     CleanupAgoConnection, Return
<1>3. CASE CleanupIoThread BY <1>3 DEF CleanupIoThread
<1> QED BY <1>1, <1>2, <1>3 DEF MainStep

LEMMA SignalMain == ASSUME TypeInv, ExitInv, ~Ended, MainStep PROVE SignalInv'
<1> USE DEF ExitInv, SignalInv, Starting, TypeInv, TypeOK, Goto, io, sig
<1>1. CASE Setup BY <1>1 DEF Setup
<1>2. CASE Connect BY <1>2 DEF Connect
<1>3. CASE SetupApp BY <1>3 DEF SetupApp
<1>4. CASE StartLoop BY <1>4 DEF StartLoop
<1>5. CASE LeaveLoop BY <1>5 DEF LeaveLoop
<1>6. CASE DoShutdown BY <1>6 DEF DoShutdown
<1>7. CASE Cancel BY <1>7 DEF Cancel
<1>8. CASE CleanupApp BY <1>8 DEF CleanupApp
<1>9. CASE CleanupIoThread BY <1>9 DEF CleanupIoThread
<1>10. CASE Join BY <1>10 DEF Join
<1>11. CASE CleanupAgoConnection BY <1>11 DEF CleanupAgoConnection
<1>12. CASE Return BY <1>12 DEF Return
<1> QED BY <1>1, <1>2, <1>3, <1>4, <1>5, <1>6, <1>7, <1>8, <1>9, <1>10, <1>11, <1>12
        DEF MainStep

\* A timer is armed before any is cancelled, and stopped when it is.
LEMMA TimersMain == ASSUME TypeInv, ExitInv, ~Ended, MainStep PROVE TimersInv'
<1> USE DEF ExitInv, TimersInv, TypeInv, TypeOK, Goto, io, sig
<1>1. CASE SetupApp
  <2>1. cancelled = {}
    BY <1>1 DEF SetupApp, SignalInv, Starting
  <2> QED BY <1>1, <2>1 DEF SetupApp
<1>2. CASE Cancel
  <2>1. CASE todo # {} /\ mpc' = mpc
    <3>1. PICK t \in todo : /\ timers' = [timers EXCEPT ![t] = IF @ = "armed" THEN "off" ELSE @]
                            /\ cancelled' = cancelled \cup {t} /\ mpc' = mpc
      BY <1>2, <2>1 DEF Cancel
    <3>2. timers'[t] # "armed" /\ \A u \in Timers : u # t => timers'[u] = timers[u]
      BY <3>1
    <3> QED BY <1>2, <3>1, <3>2 DEF Cancel
  <2>2. CASE UNCHANGED <<timers, cancelled>> /\ mpc' = "cleanup"
    BY <1>2, <2>2 DEF Cancel
  <2> QED BY <1>2, <2>1, <2>2 DEF Cancel
<1>3. CASE CleanupApp BY <1>3 DEF CleanupApp
<1>4. CASE \/ Setup \/ Connect \/ StartLoop \/ LeaveLoop \/ DoShutdown \/ CleanupIoThread
           \/ Join \/ CleanupAgoConnection \/ Return
  BY <1>4 DEF Setup, Connect, StartLoop, LeaveLoop, DoShutdown, CleanupIoThread, Join,
     CleanupAgoConnection, Return
<1> QED BY <1>1, <1>2, <1>3, <1>4 DEF MainStep

LEMMA ExitIo == ASSUME TypeInv, ExitInv, ~Ended, IoStep PROVE ExitInv'
<1> USE DEF ExitInv, TypeInv, TypeOK, Ended, main, io, sig
<1>1. SignalsCounted'
  <2> USE AppAssumption DEF SignalsCounted, Count
  <2>1. CASE TakeSignal BY <2>1 DEF TakeSignal
  <2>2. CASE SignalExit BY <2>2 DEF SignalExit
  <2>3. CASE Shutdown BY <2>3 DEF Shutdown
  <2>4. CASE Await BY <2>4 DEF Await, SignalInv, Terminated
  <2>5. CASE \E t \in Timers : TakeTimer(t) BY <2>5 DEF TakeTimer
  <2>6. CASE Work BY <2>6 DEF Work
  <2>7. CASE Rearm BY <2>7 DEF Rearm
  <2>8. CASE OutOfWork BY <2>8 DEF OutOfWork
  <2> QED BY <2>1, <2>2, <2>3, <2>4, <2>5, <2>6, <2>7, <2>8 DEF IoStep
<1>2. FirstShutsDown'
  <2> USE DEF FirstShutsDown
  <2>1. CASE SignalExit BY <2>1 DEF SignalExit
  <2>2. CASE Shutdown BY <2>2 DEF Shutdown
  <2>3. CASE TakeSignal \/ Await \/ (\E t \in Timers : TakeTimer(t)) \/ Work \/ Rearm \/ OutOfWork
    BY <2>3 DEF TakeSignal, Await, TakeTimer, Work, Rearm, OutOfWork
  <2> QED BY <2>1, <2>2, <2>3 DEF IoStep
<1>3. SignalInv'
  <2> USE DEF SignalInv, Starting
  <2>1. CASE TakeSignal BY <2>1 DEF TakeSignal
  <2>2. CASE SignalExit BY <2>2 DEF SignalExit
  <2>3. CASE Shutdown BY <2>3 DEF Shutdown
  <2>4. CASE Await BY <2>4 DEF Await, Terminated
  <2>5. CASE \E t \in Timers : TakeTimer(t) BY <2>5 DEF TakeTimer
  <2>6. CASE Work BY <2>6 DEF Work
  <2>7. CASE Rearm BY <2>7 DEF Rearm
  <2>8. CASE OutOfWork BY <2>8 DEF OutOfWork
  <2> QED BY <2>1, <2>2, <2>3, <2>4, <2>5, <2>6, <2>7, <2>8 DEF IoStep
<1>4. TimersInv'
  <2> USE DEF TimersInv
  <2>1. CASE Rearm
    <3>1. /\ timers' = [timers EXCEPT ![timer] = "armed"] /\ cancelled' = cancelled
          /\ rearmed' = (rearmed \/ timer \in cancelled) /\ mpc' = mpc
      BY <2>1 DEF Rearm, Arm
    <3> QED BY <3>1
  <2>2. CASE \E t \in Timers : TakeTimer(t) BY <2>2 DEF TakeTimer
  <2>3. CASE TakeSignal \/ SignalExit \/ Shutdown \/ Await \/ Work \/ OutOfWork
    BY <2>3 DEF TakeSignal, SignalExit, Shutdown, Await, Work, OutOfWork
  <2> QED BY <2>1, <2>2, <2>3 DEF IoStep
<1> QED BY <1>1, <1>2, <1>3, <1>4

LEMMA ExitStep == ASSUME TypeInv, ExitInv, [Next]_vars PROVE ExitInv'
<1>1. CASE ~Ended /\ MainStep
  BY <1>1, CountedMain, SignalMain, TimersMain DEF ExitInv
<1>2. CASE ~Ended /\ IoStep
  BY <1>2, ExitIo
<1>3. CASE ~Ended /\ Kill
  <2> USE AppAssumption, <1>3 DEF ExitInv, TypeInv, TypeOK, Kill, main, io
  <2>1. SignalsCounted' BY DEF SignalsCounted, Count, SignalInv
  <2>2. FirstShutsDown' BY DEF FirstShutsDown
  <2>3. SignalInv' BY DEF SignalInv, Starting
  <2>4. TimersInv' BY DEF TimersInv
  <2> QED BY <2>1, <2>2, <2>3, <2>4
<1>4. CASE ~Ended /\ \E t \in Timers : Expire(t)
  <2> USE <1>4 DEF ExitInv, TypeInv, TypeOK, Expire, main, io, sig
  <2>1. SignalsCounted' BY DEF SignalsCounted, Count
  <2>2. FirstShutsDown' BY DEF FirstShutsDown
  <2>3. SignalInv' BY DEF SignalInv, Starting
  <2>4. TimersInv' BY DEF TimersInv
  <2> QED BY <2>1, <2>2, <2>3, <2>4
<1>5. CASE Unchanged
  BY <1>5 DEF Unchanged, vars, main, io, sig, ExitInv, SignalsCounted, Count, FirstShutsDown,
     SignalInv, Starting, TimersInv
<1> QED BY <1>1, <1>2, <1>3, <1>4, <1>5, StepCases

(* Nothing that the end of the process waits for is lost: signals, the     *)
(* handler that takes them, the shutdown of the connection, and what the   *)
(* joined thread still waits for (signal_handler(), signalExit(),          *)
(* cleanupIoThread()).                                                     *)
THEOREM ExitUnhinderedCorrect == Spec => []ExitUnhindered
<1>1. TypeInv /\ ExitInv => ExitUnhindered
  BY DEF ExitInv, SignalInv, TimersInv, Starting, ExitUnhindered, HandlerWaits, JoinsEnding
<1> QED BY TypeInit, TypeStep, ExitInit, ExitStep, <1>1, PTL DEF Spec

=============================================================================
