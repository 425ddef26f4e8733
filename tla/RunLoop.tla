------------------------------ MODULE RunLoop ------------------------------
(***************************************************************************)
(* TcpClient::run and the TimerThread that it drives, together: the loop   *)
(* calls Update on the timers and then RunPoll, and the callbacks and      *)
(* handlers that run inside these register and unregister timers, connect  *)
(* and stop, while other threads do the same from outside.  A callback     *)
(* runs under the lock of its map, also while it connects.                 *)
(***************************************************************************)
EXTENDS Integers, Sequences

CONSTANTS
  Threads, Runner,                 \* the threads, and the one that calls run
  Registrars, Secs, MilSecs,       \* as in TimerEngine
  ClkTck, NoThread, Absent,
  MaxId, MaxClock, MaxUnReg,       \* bounds of TimerEngine
  TestTimes, MaxSockets,           \* as in TcpClient
  Dialers                          \* bound: the threads that connect

VARIABLES
  curId, timers, lock, clock, call, upd, handles, cancelled, ranOnce, unregs, base,
  isRun, loop, sockets, told,
  dial                             \* call of TcpClient

Engine == INSTANCE TimerEngine
Client == INSTANCE TcpClient WITH call <- dial

engineVars ==
  <<curId, timers, lock, clock, call, upd, handles, cancelled, ranOnce, unregs, base>>
clientVars == <<isRun, loop, sockets, told, dial>>
vars == <<engineVars, clientVars>>

(* A thread is in one call at a time, but for those it makes in onConnect. *)
(* The Runner makes its calls before and after run, in a callback of       *)
(* Update and in a handler of RunPoll.                                     *)
Quiet(t) == call[t].pc = "idle" /\ ~Client!Calling(t)
InUserCode(t) ==
  /\ call[t].pc = "idle"
  /\ \A id \in Client!CallsOf(t) : dial[id].ret = "telling"
  /\ t = Runner => loop \in {"new", "poll", "done"} \/ upd.at = "callback"

-----------------------------------------------------------------------------
(* Calls, of any thread.  In the onConnect of another thread an UnRegister *)
(* could be overtaken like any other one, and the connect with it: there   *)
(* onConnect leaves the timers alone.                                      *)
CallTimers(t) ==
  /\ InUserCode(t) /\ loop # "gone"
  /\ t # Runner => ~Client!Calling(t)
  /\ Engine!StartCall(t)
  /\ UNCHANGED clientVars

CallConnect(t) ==
  /\ InUserCode(t) /\ t \in Dialers
  /\ Client!Connect(t)
  /\ UNCHANGED engineVars

CallStop(t) ==
  /\ InUserCode(t)
  /\ Client!Stop
  /\ UNCHANGED engineVars

CallGoesOn(t) ==
  \/ Engine!CallStep(t) /\ UNCHANGED clientVars
  \/ call[t].pc = "idle" /\ Client!ConnectStep(t) /\ UNCHANGED engineVars

-----------------------------------------------------------------------------
(* run: test the flag, Update, RunPoll.                                    *)
Start == Client!Start /\ call[Runner].pc = "idle" /\ UNCHANGED engineVars

EnterUpdate == Client!TestRun /\ loop' = "update" /\ Engine!BeginUpdate

LeaveRun == Client!TestRun /\ loop' = "done" /\ UNCHANGED engineVars

UpdateGoesOn ==
  /\ Quiet(Runner)
  /\ \/ Engine!BeginPass
     \/ Engine!EraseMarked
     \/ Engine!SkipTimer
     \/ Engine!RunCallback
     \/ Engine!CallbackReturns
     \/ Engine!EndPass /\ upd'.at # "out"
  /\ UNCHANGED clientVars

UpdateReturns == Engine!EndPass /\ upd'.at = "out" /\ Client!UpdateReturns

PollCloses == call[Runner].pc = "idle" /\ Client!PollCloses /\ UNCHANGED engineVars

PollReturns == call[Runner].pc = "idle" /\ Client!PollReturns /\ UNCHANGED engineVars

Destroy ==
  /\ \A t \in Threads : call[t].pc = "idle"
  /\ Client!Destroy
  /\ UNCHANGED engineVars

Tick == Engine!Tick /\ UNCHANGED clientVars

-----------------------------------------------------------------------------
Init == Engine!Init /\ Client!Init

Run == EnterUpdate \/ LeaveRun \/ UpdateGoesOn \/ UpdateReturns \/ PollReturns

Next ==
  \/ \E t \in Threads : CallTimers(t) \/ CallConnect(t) \/ CallStop(t) \/ CallGoesOn(t)
  \/ Start \/ Run \/ PollCloses \/ Destroy \/ Tick

Spec == Init /\ [][Next]_vars

(* Every thread is scheduled, so that it finishes the call it is in and,   *)
(* if it is in run, goes on with the loop; and time passes.  Nobody has to *)
(* call, and no mutex is promised to be given in turn.                     *)
FairSpec ==
  /\ Spec
  /\ \A t \in Threads : WF_vars(CallGoesOn(t))
  /\ WF_vars(Run)
  /\ WF_vars(Tick)

-----------------------------------------------------------------------------
InRun == loop \in {"test", "update", "poll"}

(* What TcpClient was checked under holds of the real Update: it returns,  *)
(* with its two locks, its callbacks and what these register, unregister   *)
(* and connect to, so that the loop goes on and ends after stop.           *)
ImplementsClient == Client!FairSpec

(* A timer that is due while run runs is run, unless it is cancelled or    *)
(* the client is stopped first: the two passes of Update reach every       *)
(* timer, whatever is registered and unregistered around it.               *)
DueTimerRuns ==
  \A i \in 1..MaxId :
    InRun /\ (\E m \in 1..2 : /\ i \in Engine!Keys(m)
                              /\ ~timers[m][i].del /\ Engine!Due(timers[m][i]))
      ~> (upd.at = "callback" /\ upd.it = i) \/ i \in cancelled \/ ~isRun

(* A Register or UnRegister made in the Runner's callbacks and handlers    *)
(* returns: it finds the lock of the pass it runs in to be its own, and no *)
(* thread keeps the other one.                                             *)
CallbackCallsReturn == call[Runner].pc # "idle" ~> call[Runner].pc = "idle"

(* An UnRegister of another thread may be overtaken by Update for as long  *)
(* as run runs, since the mutexes are not fair; stop ends that, though a   *)
(* callback may still connect under the lock.                              *)
StopFreesCallers ==
  \A t \in Threads \ {Runner} : call[t].pc # "idle" /\ ~isRun ~> call[t].pc = "idle"
=============================================================================
