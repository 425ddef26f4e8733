----------------------------- MODULE TcpClient -----------------------------
(***************************************************************************)
(* qing::net::TcpClient (src/net/tcp_client.cpp): connect, which tries one *)
(* socket up to ten times, and the run loop that calls Update and RunPoll  *)
(* in turn until stop.  Any thread may connect, the one of the run loop    *)
(* too, from a timer's callback or a socket's handler.                     *)
(*                                                                         *)
(* GetSockMgr() and what it returns are not in the repository: it gives    *)
(* out sockets, keeps them registered for RunPoll, and RunPoll handles     *)
(* their events, the end of a connection included, and returns.            *)
(* GetSocketInstance, whose result nobody tests, returns an object.        *)
(***************************************************************************)
EXTENDS Integers, Sequences

CONSTANTS
  Threads,     \* the threads that use one TcpClient
  Runner,      \* the one that calls run
  TestTimes,   \* test_times, how often connect tries: 10
  MaxSockets   \* bound: how many times connect is called

ASSUME ClientAssumption ==
  /\ Runner \in Threads
  /\ TestTimes \in Nat \ {0}
  /\ MaxSockets \in Nat

VARIABLES
  isRun,    \* _bIsRun
  loop,     \* where the Runner is: before, in or after run
  sockets,  \* the sockets, by the calls of connect that made them
  call,     \* call[id]: the call of connect that made socket id
  told      \* history: the sockets that onConnect was called with

vars == <<isRun, loop, sockets, call, told>>

(* open: socket() is not -1.  link: history, ::connect has succeeded.      *)
NewSocket == [open |-> TRUE, status |-> "connecting", link |-> FALSE, nonblocking |-> FALSE]

(* times and status are test_times and status; ret is what the call has    *)
(* returned, "none" before it has, "telling" while it is in onConnect.     *)
(* The locals of a call that has returned are gone.                        *)
NewCall(t) == [by |-> t, times |-> TestTimes, status |-> "connecting", ret |-> "none"]
EndedCall(r) == [by |-> Runner, times |-> 0, status |-> "connecting", ret |-> r]

Returned(id) == call[id].ret \in {"true", "false"}

(* onConnect may connect again: the calls that a thread is in are nested,  *)
(* the latest one is the innermost.                                        *)
CallsOf(t) == {id \in DOMAIN call : call[id].by = t /\ ~Returned(id)}
Calling(t) == CallsOf(t) # {}
Innermost(id) ==
  /\ id \in DOMAIN call /\ ~Returned(id)
  /\ \A k \in CallsOf(call[id].by) : k <= id

(* The loop of connect goes on.                                            *)
TryingForever(id) ==
  /\ Innermost(id) /\ call[id].ret = "none"
  /\ call[id].status = "connecting"
Trying(id) ==
  /\ Innermost(id) /\ call[id].ret = "none"
  /\ call[id].status = "connecting" /\ call[id].times > 0
Tried(id) == Innermost(id) /\ call[id].ret = "none" /\ ~Trying(id)

-----------------------------------------------------------------------------
(* connect and _connect: a new socket, known to the poller from now on.    *)
Connect(t) ==
  /\ \A id \in CallsOf(t) : call[id].ret = "telling"
  /\ loop # "gone"
  /\ t = Runner => loop # "test"
  /\ Len(sockets) < MaxSockets
  /\ sockets' = Append(sockets, NewSocket)
  /\ call' = Append(call, NewCall(t))
  /\ UNCHANGED <<isRun, loop, told>>

(* The objects that GetSocketInstance(socket_ptr->socket()) may return.    *)
(* Once RunPoll has closed the socket, socket() is -1 and what it finds is *)
(* some object without a descriptor, maybe none that connect made: 0.      *)
Instances(id) ==
  IF sockets[id].open THEN {id}
  ELSE {0} \cup {k \in DOMAIN sockets : ~sockets[k].open}

(* sock_connect, ::connect refused, as it always is with -1: the status of *)
(* the object that was found tells the caller.                             *)
Marked(k) ==
  [i \in DOMAIN sockets |-> IF i = k THEN [sockets[i] EXCEPT !.status = "unconnected"]
                            ELSE sockets[i]]
AttemptFailsUncounted(id) ==
  /\ Trying(id)
  /\ \E k \in Instances(id) : sockets' = Marked(k)
  /\ UNCHANGED <<isRun, loop, call, told>>
AttemptFails(id) ==
  /\ Trying(id)
  /\ \E k \in Instances(id) : sockets' = Marked(k)
  /\ call' = [call EXCEPT ![id].times = @ - 1]
  /\ UNCHANGED <<isRun, loop, told>>

(* sock_connect, ::connect done: only now is the socket made nonblocking.  *)
AttemptSucceeds(id) ==
  /\ Trying(id)
  /\ sockets[id].open
  /\ sockets' = [sockets EXCEPT ![id] =
                   [@ EXCEPT !.status = "connected", !.link = TRUE, !.nonblocking = TRUE]]
  /\ call' = [call EXCEPT ![id].status = "connected"]
  /\ UNCHANGED <<isRun, loop, told>>

(* test_times <= 0: connect returns false, and leaves the socket as it is. *)
ExhaustedLate(n) == n < 0
Exhausted(n) == n <= 0

GiveUp(id) ==
  /\ Tried(id)
  /\ Exhausted(call[id].times)
  /\ call' = [call EXCEPT ![id] = EndedCall("false")]
  /\ UNCHANGED <<isRun, loop, sockets, told>>

(* onConnect is called with the socket.  What it does, a connect or a stop *)
(* too, happens before OnConnectReturns.                                   *)
OnConnect(id) ==
  /\ Tried(id)
  /\ ~Exhausted(call[id].times)
  /\ told' = Append(told, id)
  /\ call' = [call EXCEPT ![id].ret = "telling"]
  /\ UNCHANGED <<isRun, loop, sockets>>

OnConnectReturns(id) ==
  /\ Innermost(id) /\ call[id].ret = "telling"
  /\ call' = [call EXCEPT ![id] = EndedCall("true")]
  /\ UNCHANGED <<isRun, loop, sockets, told>>

-----------------------------------------------------------------------------
(* run.                                                                    *)
Start ==
  /\ loop = "new" /\ ~Calling(Runner)
  /\ loop' = "test"
  /\ UNCHANGED <<isRun, sockets, call, told>>

TestRunForever ==
  /\ loop = "test"
  /\ loop' = "update"
  /\ UNCHANGED <<isRun, sockets, call, told>>
TestRun ==
  /\ loop = "test"
  /\ loop' = IF isRun THEN "update" ELSE "done"
  /\ UNCHANGED <<isRun, sockets, call, told>>

(* Update returns once its callbacks have.                                 *)
UpdateReturns ==
  /\ loop = "update" /\ ~Calling(Runner)
  /\ loop' = "poll"
  /\ UNCHANGED <<isRun, sockets, call, told>>

(* RunPoll finds that the peer or an error has ended a connection: close() *)
(* sets the socket to -1 and does not touch its status.                    *)
PollCloses ==
  /\ loop = "poll" /\ ~Calling(Runner)
  /\ \E id \in DOMAIN sockets :
       sockets[id].open /\ sockets' = [sockets EXCEPT ![id].open = FALSE]
  /\ UNCHANGED <<isRun, loop, call, told>>

PollReturns ==
  /\ loop = "poll" /\ ~Calling(Runner)
  /\ loop' = "test"
  /\ UNCHANGED <<isRun, sockets, call, told>>

(* stop, from any thread, a callback or a handler.                         *)
Stop ==
  /\ isRun /\ loop # "gone"
  /\ isRun' = FALSE
  /\ UNCHANGED <<loop, sockets, call, told>>

(* ~TcpClient, which does not wait for run: its user has to.               *)
Destroy ==
  /\ loop \in {"new", "done"}
  /\ \A t \in Threads : ~Calling(t)
  /\ loop' = "gone"
  /\ isRun' = FALSE
  /\ UNCHANGED <<sockets, call, told>>

-----------------------------------------------------------------------------
Init ==
  /\ isRun = TRUE
  /\ loop = "new"
  /\ sockets = <<>>
  /\ call = <<>>
  /\ told = <<>>

Attempt(id) == AttemptFails(id) \/ AttemptSucceeds(id)
Finish(id) == GiveUp(id) \/ OnConnect(id) \/ OnConnectReturns(id)
ConnectStep(t) == \E id \in CallsOf(t) : Attempt(id) \/ Finish(id)
LoopStep == TestRun \/ UpdateReturns \/ PollReturns

Next ==
  \/ \E t \in Threads : Connect(t) \/ ConnectStep(t)
  \/ Start \/ LoopStep \/ PollCloses \/ Stop \/ Destroy

Spec == Init /\ [][Next]_vars

(* A connect that has started goes on, and so does the loop: ::connect,    *)
(* onConnect, Update and RunPoll return.                                   *)
FairSpec ==
  /\ Spec
  /\ \A t \in Threads : WF_vars(ConnectStep(t))
  /\ WF_vars(LoopStep)

-----------------------------------------------------------------------------
(* Type correctness.                                                       *)
TypeOK ==
  /\ isRun \in BOOLEAN
  /\ loop \in {"new", "test", "update", "poll", "done", "gone"}
  /\ sockets \in Seq([open : BOOLEAN, status : {"unconnected", "connecting", "connected"},
                      link : BOOLEAN, nonblocking : BOOLEAN])
  /\ Len(sockets) <= MaxSockets
  /\ call \in Seq([by : Threads, times : 0..TestTimes, status : {"connecting", "connected"},
                   ret : {"none", "telling", "true", "false"}])
  /\ Len(call) = Len(sockets)
  /\ told \in Seq(1..MaxSockets)

(* What connect returns, what onConnect was told and what the socket's own *)
(* status says agree with each other and with the network, however the     *)
(* attempts went.  RunPoll may have closed the socket meanwhile, and other *)
(* calls that look up -1 may then have marked it; that changes neither the *)
(* answer nor the number of times onConnect is called, and never makes a   *)
(* socket look connected that is not.                                      *)
ConnectTells ==
  \A id \in DOMAIN sockets :
    LET s == sockets[id]
        calls == {i \in DOMAIN told : told[i] = id}
    IN
    /\ call[id].ret = "true" => s.link /\ (s.open => s.status = "connected")
    /\ call[id].ret = "false" => ~s.link /\ (s.open => s.status = "unconnected")
    /\ s.status = "connected" => s.link
    /\ call[id].ret \in {"telling", "true"} <=> calls # {}
    /\ \A i, j \in calls : i = j

(* connect returns, however often ::connect fails, and with it the calls   *)
(* that onConnect makes.                                                   *)
ConnectReturns == \A t \in Threads : Calling(t) ~> ~Calling(t)

(* After stop the run loop ends, whatever its callbacks connect to.        *)
StopEndsRun == ~isRun ~> loop \notin {"test", "update", "poll"}
=============================================================================
