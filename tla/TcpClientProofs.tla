-------------------------- MODULE TcpClientProofs --------------------------
(***************************************************************************)
(* TcpClient::connect tells the truth, for any number of threads that      *)
(* connect, the run loop's included, any number of connects, nested in     *)
(* onConnect or not, and whatever object the look-up of -1 finds.          *)
(***************************************************************************)
EXTENDS TcpClient, TLAPS

Status == {"unconnected", "connecting", "connected"}
Socket == [open : BOOLEAN, status : Status, link : BOOLEAN, nonblocking : BOOLEAN]
Call == [by : Threads, times : 0..TestTimes, status : {"connecting", "connected"},
         ret : {"none", "telling", "true", "false"}]

(* A connect that has not returned: its local status, the socket's own, as *)
(* long as RunPoll has not closed it, and the network agree as far as the  *)
(* call has come.                                                          *)
PendingOf(s, c) ==
  /\ c.ret = "none" /\ c.status = "connecting" =>
       ~s.link /\ (c.times < TestTimes /\ s.open => s.status = "unconnected")
  /\ c.ret = "none" /\ c.status = "connected" =>
       s.link /\ c.times > 0 /\ (s.open => s.status = "connected")
  /\ c.ret = "telling" => s.link /\ (s.open => s.status = "connected")

(* A connect that has returned, and what holds of every socket.            *)
ReturnedOf(s, c) ==
  /\ c.ret = "true" => s.link /\ (s.open => s.status = "connected")
  /\ c.ret = "false" => ~s.link /\ (s.open => s.status = "unconnected")
  /\ s.status = "connected" => s.link

AgreeInv ==
  \A id \in DOMAIN sockets : PendingOf(sockets[id], call[id]) /\ ReturnedOf(sockets[id], call[id])

(* onConnect was called once for each connect that came that far.          *)
ToldInv ==
  /\ \A i \in DOMAIN told : told[i] \in DOMAIN sockets
  /\ \A id \in DOMAIN sockets :
       call[id].ret \in {"telling", "true"} <=> \E i \in DOMAIN told : told[i] = id
  /\ \A i, j \in DOMAIN told : told[i] = told[j] => i = j

ClientInv == TypeOK /\ AgreeInv /\ ToldInv

-----------------------------------------------------------------------------
(* The invariant holds at first.                                           *)
LEMMA InitClientInv == Init => ClientInv
  BY ClientAssumption DEF Init, ClientInv, TypeOK, AgreeInv, ToldInv

(* The types of a state, by the names used here.                           *)
LEMMA ClientTypes ==
  ASSUME TypeOK
  PROVE  /\ sockets \in Seq(Socket) /\ call \in Seq(Call)
         /\ Len(sockets) \in 0..MaxSockets /\ Len(call) = Len(sockets)
         /\ DOMAIN sockets = 1..Len(sockets) /\ DOMAIN call = DOMAIN sockets
         /\ \A id \in DOMAIN sockets : /\ sockets[id] \in Socket /\ call[id] \in Call
                                        /\ id \in 1..MaxSockets
<1>1. /\ sockets \in Seq(Socket) /\ call \in Seq(Call)
      /\ Len(sockets) <= MaxSockets /\ Len(call) = Len(sockets)
  BY DEF TypeOK, Socket, Status, Call
<1>2. /\ Len(sockets) \in Nat
      /\ DOMAIN sockets = 1..Len(sockets) /\ DOMAIN call = 1..Len(call)
  BY <1>1
<1>3. \A id \in DOMAIN sockets : sockets[id] \in Socket /\ call[id] \in Call
  BY <1>1, <1>2
<1> QED
  BY <1>1, <1>2, <1>3, ClientAssumption

(* A new socket is nobody else's.                                          *)
LEMMA ConnectClientInv ==
  ASSUME ClientInv, NEW t \in Threads, Connect(t)
  PROVE  ClientInv'
<1> DEFINE n == Len(sockets) + 1
<1>1. /\ Len(sockets) < MaxSockets
      /\ sockets' = Append(sockets, NewSocket)
      /\ call' = Append(call, NewCall(t))
      /\ UNCHANGED <<isRun, loop, told>>
  BY DEF Connect
<1>2. NewSocket \in Socket /\ NewCall(t) \in Call
  BY ClientAssumption DEF NewSocket, Socket, Status, NewCall, Call
<1>3. /\ sockets \in Seq(Socket) /\ call \in Seq(Call)
      /\ Len(sockets) \in Nat /\ Len(call) = Len(sockets)
  BY ClientTypes DEF ClientInv
<1>4. /\ sockets' \in Seq(Socket) /\ Len(sockets') = n
      /\ DOMAIN sockets' = 1..n /\ DOMAIN sockets = 1..(n - 1)
      /\ \A k \in DOMAIN sockets : sockets'[k] = sockets[k]
      /\ sockets'[n] = NewSocket
  BY <1>1, <1>2, <1>3
<1>5. /\ call' \in Seq(Call) /\ Len(call') = n
      /\ \A k \in DOMAIN sockets : call'[k] = call[k]
      /\ call'[n] = NewCall(t)
  BY <1>1, <1>2, <1>3, <1>4
<1>6. TypeOK'
  BY <1>1, <1>3, <1>4, <1>5, ClientAssumption DEF ClientInv, TypeOK, Socket, Status, Call
<1>7. PendingOf(NewSocket, NewCall(t)) /\ ReturnedOf(NewSocket, NewCall(t))
  BY ClientAssumption DEF NewSocket, NewCall, PendingOf, ReturnedOf
<1>8. AgreeInv'
  BY <1>4, <1>5, <1>7 DEF ClientInv, AgreeInv
<1>9. ToldInv'
  <2>1. call'[n].ret = "none"
    BY <1>5 DEF NewCall
  <2>2. \A i \in DOMAIN told : told[i] \in 1..(n - 1)
    BY <1>4 DEF ClientInv, ToldInv
  <2> QED
    BY <1>1, <1>3, <1>4, <1>5, <2>1, <2>2 DEF ClientInv, ToldInv
<1> QED
  BY <1>6, <1>8, <1>9 DEF ClientInv

(* Marking an object whose descriptor is gone keeps the invariant: nothing *)
(* is claimed of the status of a closed socket but that it is not          *)
(* "connected" without a connection.                                       *)
LEMMA AttemptFailsClientInv ==
  ASSUME ClientInv, NEW id \in DOMAIN call, AttemptFails(id)
  PROVE  ClientInv'
<1> DEFINE c == [call[id] EXCEPT !.times = @ - 1]
<1>1. PICK k \in Instances(id) :
        /\ sockets' = Marked(k)
        /\ call' = [call EXCEPT ![id] = c]
        /\ UNCHANGED <<isRun, loop, told>>
  BY DEF AttemptFails
<1>2. /\ sockets \in Seq(Socket) /\ call \in Seq(Call)
      /\ Len(sockets) \in 0..MaxSockets /\ Len(call) = Len(sockets)
      /\ DOMAIN sockets = 1..Len(sockets) /\ DOMAIN call = DOMAIN sockets
      /\ \A j \in DOMAIN sockets : sockets[j] \in Socket /\ call[j] \in Call
  BY ClientTypes DEF ClientInv
<1>3. /\ call[id].ret = "none" /\ call[id].status = "connecting" /\ call[id].times > 0
      /\ id \in DOMAIN sockets
  BY <1>2 DEF AttemptFails, Trying
<1>4. /\ c \in Call /\ c.ret = "none" /\ c.status = "connecting"
      /\ c.times < TestTimes
  <2>1. call[id] \in Call /\ call[id].times \in 1..TestTimes
    BY <1>2, <1>3, ClientAssumption DEF Call
  <2>2. call[id].times - 1 \in 0..TestTimes /\ call[id].times - 1 < TestTimes
    BY <2>1, ClientAssumption
  <2> QED
    BY <1>3, <2>1, <2>2 DEF Call
<1>5. /\ call' \in Seq(Call) /\ Len(call') = Len(call) /\ DOMAIN call' = DOMAIN call
      /\ call'[id] = c
      /\ \A j \in DOMAIN call : j # id => call'[j] = call[j]
  <2> HIDE DEF c
  <2> QED
    BY <1>1, <1>2, <1>4
<1>6. /\ DOMAIN sockets' = DOMAIN sockets
      /\ \A j \in DOMAIN sockets :
           /\ sockets'[j] \in Socket
           /\ sockets'[j].link = sockets[j].link /\ sockets'[j].open = sockets[j].open
           /\ sockets'[j].status = IF j = k THEN "unconnected" ELSE sockets[j].status
  BY <1>1, <1>2 DEF Marked, Socket, Status
<1>7. sockets' \in Seq(Socket) /\ Len(sockets') = Len(sockets)
  <2>1. sockets' = [j \in 1..Len(sockets) |-> sockets'[j]]
    BY <1>1, <1>2 DEF Marked
  <2> QED
    BY <2>1, <1>2, <1>6
<1>8. TypeOK'
  BY <1>1, <1>2, <1>5, <1>7 DEF ClientInv, TypeOK, Socket, Status, Call
<1>9. sockets[id].open => k = id
  BY DEF Instances
<1>10. \A j \in DOMAIN sockets : j = k /\ j # id => ~sockets[j].open
  BY <1>2, <1>3, <1>9 DEF Instances
<1>11. AgreeInv'
  <2> SUFFICES ASSUME NEW j \in DOMAIN sockets
               PROVE  PendingOf(sockets'[j], call'[j]) /\ ReturnedOf(sockets'[j], call'[j])
    BY <1>6 DEF AgreeInv
  <2>0. PendingOf(sockets[j], call[j]) /\ ReturnedOf(sockets[j], call[j])
    BY DEF ClientInv, AgreeInv
  <2>1. CASE j = id
    BY <1>3, <1>4, <1>5, <1>6, <1>9, <2>0, <2>1 DEF PendingOf, ReturnedOf
  <2>2. CASE j # id /\ j = k
    <3>1. call'[j] = call[j] /\ ~sockets[j].open
      BY <1>2, <1>5, <1>10, <2>2
    <3> QED
      BY <3>1, <2>0, <2>2, <1>6 DEF PendingOf, ReturnedOf
  <2>3. CASE j # id /\ j # k
    <3>1. call'[j] = call[j]
      BY <1>2, <1>5, <2>3
    <3> QED
      BY <3>1, <2>0, <2>3, <1>6 DEF PendingOf, ReturnedOf
  <2> QED
    BY <2>1, <2>2, <2>3
<1>12. \A j \in DOMAIN sockets : call'[j].ret = call[j].ret
  BY <1>2, <1>3, <1>4, <1>5
<1>13. ToldInv'
  BY <1>1, <1>6, <1>12 DEF ClientInv, ToldInv
<1> QED
  BY <1>8, <1>11, <1>13 DEF ClientInv

(* A step that replaces the call and the socket of id by ones that agree,  *)
(* without calling onConnect or returning from it.                         *)
LEMMA ReplaceClientInv ==
  ASSUME ClientInv, NEW id \in DOMAIN sockets, NEW s \in Socket, NEW c \in Call,
         sockets' = [sockets EXCEPT ![id] = s],
         call' = [call EXCEPT ![id] = c],
         UNCHANGED <<isRun, loop, told>>,
         PendingOf(s, c), ReturnedOf(s, c),
         c.ret \in {"telling", "true"} <=> call[id].ret \in {"telling", "true"}
  PROVE  ClientInv'
<1>2. /\ sockets \in Seq(Socket) /\ call \in Seq(Call)
      /\ Len(sockets) \in 0..MaxSockets /\ Len(call) = Len(sockets)
      /\ DOMAIN sockets = 1..Len(sockets) /\ DOMAIN call = DOMAIN sockets
  BY ClientTypes DEF ClientInv
<1>3. /\ sockets' \in Seq(Socket) /\ Len(sockets') = Len(sockets)
      /\ DOMAIN sockets' = DOMAIN sockets
      /\ sockets'[id] = s
      /\ \A j \in DOMAIN sockets : j # id => sockets'[j] = sockets[j]
  BY <1>2
<1>4. /\ call' \in Seq(Call) /\ Len(call') = Len(call) /\ DOMAIN call' = DOMAIN call
      /\ call'[id] = c
      /\ \A j \in DOMAIN sockets : j # id => call'[j] = call[j]
  BY <1>2
<1>5. TypeOK'
  BY <1>2, <1>3, <1>4 DEF ClientInv, TypeOK, Socket, Status, Call
<1>6. AgreeInv'
  BY <1>3, <1>4 DEF ClientInv, AgreeInv
<1>7. \A j \in DOMAIN sockets :
        call'[j].ret \in {"telling", "true"} <=> call[j].ret \in {"telling", "true"}
  BY <1>4
<1>8. ToldInv'
  BY <1>3, <1>7 DEF ClientInv, ToldInv
<1> QED
  BY <1>5, <1>6, <1>8 DEF ClientInv

(* The steps of a call that change nothing but its own call and socket.    *)
LEMMA OwnStepClientInv ==
  ASSUME ClientInv, NEW id \in DOMAIN call,
         AttemptSucceeds(id) \/ GiveUp(id) \/ OnConnectReturns(id)
  PROVE  ClientInv'
<1>1. /\ sockets \in Seq(Socket) /\ call \in Seq(Call)
      /\ id \in DOMAIN sockets
      /\ sockets[id] \in Socket /\ call[id] \in Call
  BY ClientTypes DEF ClientInv
<1>2. PendingOf(sockets[id], call[id]) /\ ReturnedOf(sockets[id], call[id])
  BY <1>1 DEF ClientInv, AgreeInv
<1>3. sockets = [sockets EXCEPT ![id] = sockets[id]]
  BY <1>1
<1>4. CASE AttemptSucceeds(id)
  <2> DEFINE s == [sockets[id] EXCEPT !.status = "connected", !.link = TRUE, !.nonblocking = TRUE]
             c == [call[id] EXCEPT !.status = "connected"]
  <2>1. s \in Socket /\ s.link /\ s.status = "connected"
    BY <1>1 DEF Socket, Status
  <2>2. call[id].times > 0 /\ call[id].ret = "none"
    BY <1>4 DEF AttemptSucceeds, Trying
  <2>3. c \in Call /\ c.ret = "none" /\ c.status = "connected" /\ c.times > 0
    BY <1>1, <2>2 DEF Call
  <2>4. PendingOf(s, c) /\ ReturnedOf(s, c)
    BY <2>1, <2>3 DEF PendingOf, ReturnedOf
  <2>5. /\ sockets' = [sockets EXCEPT ![id] = s] /\ call' = [call EXCEPT ![id] = c]
        /\ UNCHANGED <<isRun, loop, told>>
    BY <1>4 DEF AttemptSucceeds
  <2> HIDE DEF s, c
  <2> QED
    BY <1>1, <2>1, <2>2, <2>3, <2>4, <2>5, ReplaceClientInv
<1>5. CASE GiveUp(id)
  <2> DEFINE s == sockets[id]
             c == EndedCall("false")
  <2>1. call[id].times <= 0 /\ call[id].ret = "none"
    BY <1>5 DEF GiveUp, Tried, Exhausted
  <2>2. call[id].times \in 0..TestTimes /\ call[id].status \in {"connecting", "connected"}
    BY <1>1 DEF Call
  <2>3. ~s.link /\ (s.open => s.status = "unconnected") /\ (s.status = "connected" => s.link)
    BY <1>2, <2>1, <2>2, ClientAssumption DEF PendingOf, ReturnedOf
  <2>4. c \in Call /\ c.ret = "false"
    BY ClientAssumption DEF EndedCall, Call
  <2>5. PendingOf(s, c) /\ ReturnedOf(s, c)
    BY <2>3, <2>4 DEF PendingOf, ReturnedOf
  <2>6. /\ sockets' = [sockets EXCEPT ![id] = s] /\ call' = [call EXCEPT ![id] = c]
        /\ UNCHANGED <<isRun, loop, told>>
    BY <1>3, <1>5 DEF GiveUp
  <2> HIDE DEF s, c
  <2> QED
    BY <1>1, <2>1, <2>4, <2>5, <2>6, ReplaceClientInv DEF s
<1>6. CASE OnConnectReturns(id)
  <2> DEFINE s == sockets[id]
             c == EndedCall("true")
  <2>1. call[id].ret = "telling"
    BY <1>6 DEF OnConnectReturns
  <2>2. s.link /\ (s.open => s.status = "connected")
    BY <1>2, <2>1 DEF PendingOf
  <2>3. c \in Call /\ c.ret = "true"
    BY ClientAssumption DEF EndedCall, Call
  <2>4. PendingOf(s, c) /\ ReturnedOf(s, c)
    BY <2>2, <2>3 DEF PendingOf, ReturnedOf
  <2>5. /\ sockets' = [sockets EXCEPT ![id] = s] /\ call' = [call EXCEPT ![id] = c]
        /\ UNCHANGED <<isRun, loop, told>>
    BY <1>3, <1>6 DEF OnConnectReturns
  <2> HIDE DEF s, c
  <2> QED
    BY <1>1, <2>1, <2>3, <2>4, <2>5, ReplaceClientInv DEF s
<1> QED
  BY <1>4, <1>5, <1>6

(* onConnect is called for a socket it was not called for before.          *)
LEMMA OnConnectClientInv ==
  ASSUME ClientInv, NEW id \in DOMAIN call, OnConnect(id)
  PROVE  ClientInv'
<1> DEFINE c == [call[id] EXCEPT !.ret = "telling"]
           n == Len(told) + 1
<1>1. /\ sockets \in Seq(Socket) /\ call \in Seq(Call)
      /\ DOMAIN call = DOMAIN sockets
      /\ id \in DOMAIN sockets /\ id \in 1..MaxSockets
      /\ sockets[id] \in Socket /\ call[id] \in Call
  BY ClientTypes DEF ClientInv
<1>2. /\ call[id].ret = "none" /\ call[id].status = "connected"
      /\ call' = [call EXCEPT ![id] = c]
      /\ told' = Append(told, id)
      /\ UNCHANGED <<isRun, loop, sockets>>
  <2>1. /\ Innermost(id) /\ call[id].ret = "none" /\ ~Trying(id) /\ ~(call[id].times <= 0)
        /\ call' = [call EXCEPT ![id] = c]
        /\ told' = Append(told, id)
        /\ UNCHANGED <<isRun, loop, sockets>>
    BY DEF OnConnect, Tried, Exhausted
  <2>2. call[id].times \in Nat /\ call[id].status \in {"connecting", "connected"}
    BY <1>1, ClientAssumption DEF Call
  <2> HIDE DEF c
  <2> QED
    BY <2>1, <2>2 DEF Trying
<1>3. c \in Call /\ c.ret = "telling"
  BY <1>1 DEF Call
<1>4. /\ call' \in Seq(Call) /\ Len(call') = Len(call) /\ DOMAIN call' = DOMAIN call
      /\ call'[id] = c
      /\ \A j \in DOMAIN sockets : j # id => call'[j] = call[j]
  <2> HIDE DEF c
  <2> QED
    BY <1>1, <1>2, <1>3
<1>5. told \in Seq(1..MaxSockets)
  BY DEF ClientInv, TypeOK
<1>6. /\ told' \in Seq(1..MaxSockets)
      /\ DOMAIN told = 1..Len(told) /\ Len(told) \in Nat
      /\ DOMAIN told' = 1..n
      /\ told'[n] = id
      /\ \A i \in DOMAIN told : told'[i] = told[i]
  BY <1>1, <1>2, <1>5
<1>7. TypeOK'
  BY <1>2, <1>4, <1>6 DEF ClientInv, TypeOK, Call
<1>8. AgreeInv'
  <2>1. PendingOf(sockets[id], call[id]) /\ ReturnedOf(sockets[id], call[id])
    BY <1>1 DEF ClientInv, AgreeInv
  <2>2. PendingOf(sockets[id], c) /\ ReturnedOf(sockets[id], c)
    BY <1>2, <1>3, <2>1 DEF PendingOf, ReturnedOf
  <2> QED
    BY <1>2, <1>4, <2>2 DEF ClientInv, AgreeInv
<1>9. \A i \in DOMAIN told : told[i] # id
  BY <1>1, <1>2 DEF ClientInv, ToldInv
<1>10. ToldInv'
  <2>1. \A i \in DOMAIN told' : told'[i] \in DOMAIN sockets'
    BY <1>1, <1>2, <1>6 DEF ClientInv, ToldInv
  <2>2. ASSUME NEW j \in DOMAIN sockets'
        PROVE  call'[j].ret \in {"telling", "true"} <=> \E i \in DOMAIN told' : told'[i] = j
    <3>1. CASE j = id
      BY <3>1, <1>3, <1>4, <1>6
    <3>2. CASE j # id
      <4>1. call'[j] = call[j] /\ j \in DOMAIN sockets
        BY <1>2, <1>4, <3>2
      <4>2. (\E i \in DOMAIN told' : told'[i] = j) <=> \E i \in DOMAIN told : told[i] = j
        BY <1>6, <3>2
      <4> QED
        BY <4>1, <4>2 DEF ClientInv, ToldInv
    <3> QED
      BY <3>1, <3>2
  <2>3. \A i, j \in DOMAIN told' : told'[i] = told'[j] => i = j
    BY <1>6, <1>9 DEF ClientInv, ToldInv
  <2> QED
    BY <2>1, <2>2, <2>3 DEF ToldInv
<1> QED
  BY <1>7, <1>8, <1>10 DEF ClientInv

(* RunPoll closes sockets without touching their status.                   *)
LEMMA PollClosesClientInv ==
  ASSUME ClientInv, PollCloses
  PROVE  ClientInv'
<1>1. PICK k \in DOMAIN sockets :
        /\ sockets' = [sockets EXCEPT ![k].open = FALSE]
        /\ UNCHANGED <<isRun, loop, call, told>>
  BY DEF PollCloses
<1> DEFINE s == [sockets[k] EXCEPT !.open = FALSE]
<1>2. /\ call \in Seq(Call) /\ k \in DOMAIN call
      /\ sockets[k] \in Socket /\ call[k] \in Call
  BY <1>1, ClientTypes DEF ClientInv
<1>3. /\ s \in Socket /\ ~s.open
      /\ s.link = sockets[k].link /\ s.status = sockets[k].status
  BY <1>2 DEF Socket
<1>4. PendingOf(sockets[k], call[k]) /\ ReturnedOf(sockets[k], call[k])
  BY <1>1 DEF ClientInv, AgreeInv
<1>5. PendingOf(s, call[k]) /\ ReturnedOf(s, call[k])
  BY <1>3, <1>4 DEF PendingOf, ReturnedOf
<1>6. /\ sockets' = [sockets EXCEPT ![k] = s] /\ call' = [call EXCEPT ![k] = call[k]]
      /\ UNCHANGED <<isRun, loop, told>>
  BY <1>1, <1>2
<1> HIDE DEF s
<1> QED
  BY <1>1, <1>2, <1>3, <1>5, <1>6, ReplaceClientInv

(* Every step keeps the invariant.                                         *)
LEMMA ClientStep == ClientInv /\ [Next]_vars => ClientInv'
<1> SUFFICES ASSUME ClientInv, [Next]_vars PROVE ClientInv'
  OBVIOUS
<1>1. ASSUME NEW t \in Threads, Connect(t) PROVE ClientInv'
  BY <1>1, ConnectClientInv
<1>2. ASSUME NEW t \in Threads, ConnectStep(t) PROVE ClientInv'
  <2>1. PICK id \in CallsOf(t) : Attempt(id) \/ Finish(id)
    BY <1>2 DEF ConnectStep
  <2>2. id \in DOMAIN call
    BY DEF CallsOf
  <2> QED
    BY <2>1, <2>2, AttemptFailsClientInv, OwnStepClientInv, OnConnectClientInv
    DEF Attempt, Finish
<1>3. ASSUME PollCloses PROVE ClientInv'
  BY <1>3, PollClosesClientInv
<1>4. ASSUME Start \/ LoopStep \/ Stop \/ Destroy \/ UNCHANGED vars PROVE ClientInv'
  <2>1. /\ UNCHANGED <<sockets, call, told>>
        /\ isRun' \in BOOLEAN
        /\ loop' \in {"new", "test", "update", "poll", "done", "gone"}
    BY <1>4 DEF Start, LoopStep, TestRun, UpdateReturns, PollReturns, Stop, Destroy, vars,
                ClientInv, TypeOK
  <2> QED
    BY <2>1 DEF ClientInv, TypeOK, AgreeInv, ToldInv
<1> QED
  BY <1>1, <1>2, <1>3, <1>4 DEF Next

(* The invariant holds in every reachable state.                           *)
LEMMA ClientInvariance == Spec => []ClientInv
  BY InitClientInv, ClientStep, PTL DEF Spec

(* Sockets, calls and the run loop keep their types, however connects,     *)
(* closes and stop interleave.                                             *)
THEOREM TypeCorrect == Spec => []TypeOK
<1>1. ClientInv => TypeOK
  BY DEF ClientInv
<1> QED
  BY <1>1, ClientInvariance, PTL

(* connect, onConnect and the socket's status agree with the network in    *)
(* every reachable state, for any number of threads and of connects, and   *)
(* whatever object a look-up of -1 finds and marks.                        *)
THEOREM ConnectIsTruthful == Spec => []ConnectTells
<1>1. ClientInv => ConnectTells
  BY DEF ClientInv, AgreeInv, ReturnedOf, ToldInv, ConnectTells
<1> QED
  BY <1>1, ClientInvariance, PTL
=============================================================================
