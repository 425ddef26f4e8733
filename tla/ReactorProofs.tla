--------------------------- MODULE ReactorProofs ---------------------------
(***************************************************************************)
(* Proofs about Reactor, for any descriptors, builds and bounds.           *)
(***************************************************************************)
EXTENDS Reactor, SequenceTheorems, TLAPS

-----------------------------------------------------------------------------
(* The inductive invariant.                                                *)

Events(n) == [fd : Fds, obj : 1..n, what : Filters \cup {"error"}, eof : BOOLEAN]
Frames(n) == [handler : Filters \cup {"close"}, obj : 1..n]

(* TypeOK, with what the sequences hold, and with what makes an event name *)
(* an object: only a registration that has one waits for anything.         *)
Shape ==
  /\ backend \in Backends
  /\ sock \in Seq(Fds \cup {-1}) /\ Len(sock) \in 1..MaxObjs
  /\ closes \in Seq(Nat) /\ Len(closes) = Len(sock)
  /\ pool \in [Fds -> 0..Len(sock)]
  /\ open \subseteq Fds /\ lost \subseteq open
  /\ reg \in [Fds -> [obj : 0..Len(sock), want : SUBSET Filters]]
  /\ \A fd \in Fds : reg[fd].want # {} => reg[fd].obj # 0
  /\ events \in Seq(Events(Len(sock)))
  /\ at \in Nat \ {0} /\ result \in Nat
  /\ running \in Seq(Frames(Len(sock)))

IInv ==
  /\ Shape
  /\ DescriptorsOwned
  /\ RegisteredIsOwner
  /\ CloseOnce

-----------------------------------------------------------------------------
(* Sequences.                                                              *)

(* A sequence over a set is one over every larger set.                     *)
LEMMA SeqGrows ==
  ASSUME NEW S, NEW T, S \subseteq T, NEW s \in Seq(S)
  PROVE  s \in Seq(T)
<1>1. s \in [1..Len(s) -> T] /\ Len(s) \in Nat
  BY LenProperties
<1> QED
  BY <1>1

(* A handler that returns leaves handlers behind.                          *)
LEMMA TailOfRunning ==
  ASSUME Shape, running # <<>>
  PROVE  /\ Tail(running) \in Seq(Frames(Len(sock)))
         /\ Head(running) \in Frames(Len(sock))
  BY HeadTailProperties DEF Shape

(* What a step that leaves the sockets and their registrations alone has   *)
(* to keep.                                                                *)
LEMMA SocketsAlone ==
  ASSUME IInv, UNCHANGED <<backend, sock, closes, pool, open, lost, reg>>,
         events' \in Seq(Events(Len(sock))), at' \in Nat \ {0}, result' \in Nat,
         running' \in Seq(Frames(Len(sock)))
  PROVE  IInv'
<1>1. Shape'
  BY DEF IInv, Shape
<1>2. DescriptorsOwned'
  BY DEF IInv, DescriptorsOwned
<1>3. RegisteredIsOwner'
  BY DEF IInv, RegisteredIsOwner
<1>4. CloseOnce'
  BY DEF IInv, CloseOnce, Streams
<1> QED
  BY <1>1, <1>2, <1>3, <1>4 DEF IInv

-----------------------------------------------------------------------------
(* Every state satisfies the invariant: one lemma per action.              *)

LEMMA InitInv == Init => IInv
<1> SUFFICES ASSUME Init PROVE IInv
  OBVIOUS
<1> USE ReactorAssumption
<1>1. Shape
  <2>1. sock \in Seq(Fds \cup {-1}) /\ Len(sock) = 1 /\ closes \in Seq(Nat) /\ Len(closes) = 1
    BY DEF Init
  <2>2. <<>> \in Seq(Events(1)) /\ <<>> \in Seq(Frames(1))
    OBVIOUS
  <2>3. reg \in [Fds -> [obj : 0..1, want : SUBSET Filters]]
    BY DEF Init, NoReg, Filters
  <2>4. pool \in [Fds -> 0..1]
    BY DEF Init
  <2>5. events \in Seq(Events(Len(sock))) /\ running \in Seq(Frames(Len(sock)))
    BY <2>1, <2>2 DEF Init
  <2>6. Len(sock) \in 1..MaxObjs /\ Len(closes) = Len(sock)
    BY <2>1
  <2>7. /\ backend \in Backends /\ open = {} /\ lost = {} /\ at = 1 /\ result = 0
        /\ \A fd \in Fds : reg[fd].want = {}
    BY DEF Init, NoReg
  <2>8. /\ pool \in [Fds -> 0..Len(sock)]
        /\ reg \in [Fds -> [obj : 0..Len(sock), want : SUBSET Filters]]
    BY <2>1, <2>3, <2>4
  <2>9. open \subseteq Fds /\ lost \subseteq open /\ at \in Nat \ {0} /\ result \in Nat
    BY <2>7
  <2> QED
    BY <2>1, <2>5, <2>6, <2>7, <2>8, <2>9 DEF Shape
<1>2. sock = <<-1>> /\ DOMAIN sock = {1} /\ sock[1] = -1 /\ Len(sock) = 1
  BY DEF Init
<1>3. DescriptorsOwned
  BY <1>2 DEF Init, DescriptorsOwned
<1>4. RegisteredIsOwner
  BY DEF Init, RegisteredIsOwner, NoReg
<1>5. CloseOnce
  BY <1>2 DEF CloseOnce, Streams
<1> QED
  BY <1>1, <1>3, <1>4, <1>5 DEF IInv

(* A registration belongs to an open descriptor.                           *)
LEMMA FreshUnregistered ==
  ASSUME IInv, NEW fd \in Fds \ open
  PROVE  reg[fd].obj = 0 /\ reg[fd].want = {} /\ \A o \in DOMAIN sock : sock[o] # fd
<1>1. DOMAIN sock = 1..Len(sock) /\ fd # -1
  BY LenProperties, ReactorAssumption DEF IInv, Shape
<1>2. \A o \in DOMAIN sock : sock[o] # fd
  BY <1>1 DEF IInv, DescriptorsOwned
<1>3. reg[fd] \in [obj : 0..Len(sock), want : SUBSET Filters]
  BY DEF IInv, Shape
<1>4. reg[fd].obj = 0
  <2>1. CASE reg[fd].obj # 0
    <3>1. reg[fd].obj \in 1..Len(sock)
      BY <1>3, <2>1
    <3>2. sock[reg[fd].obj] = fd \/ fd \in lost
      BY <2>1 DEF IInv, RegisteredIsOwner
    <3> QED
      BY <1>1, <1>2, <3>1, <3>2 DEF IInv, Shape
  <2> QED
    BY <2>1
<1> QED
  BY <1>2, <1>3, <1>4 DEF IInv, Shape

(* What a listen that makes fd, or -1, the listener's socket has to keep.  *)
LEMMA ListenerSocket ==
  ASSUME IInv, NEW fd \in Fds \cup {-1}, NEW opened,
         opened \subseteq Fds \ open, fd = -1 \/ fd \in opened,
         open' = open \cup opened,
         lost' = lost \cup (opened \ {fd}) \cup Overwritten,
         sock' = [sock EXCEPT ![Listener] = fd],
         (fd # -1 /\ Add(fd, Listener)) \/ UNCHANGED <<pool, reg>>,
         UNCHANGED <<backend, closes, events, at, result, running>>
  PROVE  IInv'
<1> USE ReactorAssumption
<1> DEFINE n == Len(sock)
<1>1. /\ n \in Nat \ {0} /\ DOMAIN sock = 1..n /\ sock \in Seq(Fds \cup {-1})
      /\ Listener \in 1..n
  BY LenProperties DEF Listener, IInv, Shape
<1>2. /\ sock' \in Seq(Fds \cup {-1}) /\ Len(sock') = n /\ DOMAIN sock' = 1..n
      /\ \A o \in 1..n : sock'[o] = IF o = Listener THEN fd ELSE sock[o]
  BY <1>1, ExceptSeq, LenProperties
<1>3. \A g \in opened : reg[g].obj = 0 /\ reg[g].want = {} /\ \A o \in 1..n : sock[o] # g
  BY <1>1, FreshUnregistered
<1>4. /\ pool' \in [Fds -> 0..n]
      /\ reg' \in [Fds -> [obj : 0..n, want : SUBSET Filters]]
      /\ \A g \in Fds : reg'[g].want # {} => reg'[g].obj # 0
      /\ \A g \in Fds : \/ pool'[g] = pool[g] /\ reg'[g] = reg[g]
                        \/ g = fd /\ reg'[g].obj = 0
                        \/ g = fd /\ reg'[g].obj = Listener /\ pool'[g] = Listener
  <2>1. /\ pool \in [Fds -> 0..n] /\ reg \in [Fds -> [obj : 0..n, want : SUBSET Filters]]
        /\ \A g \in Fds : reg[g].want # {} => reg[g].obj # 0
    BY DEF IInv, Shape
  <2>2. CASE fd # -1 /\ Add(fd, Listener)
    <3>1. Listener \in 0..n /\ Listener # 0 /\ fd \in Fds /\ {"read"} \subseteq Filters
      BY <1>1, <2>2 DEF Listener, Filters
    <3>2. reg[fd].obj = 0
      BY <1>3, <2>2
    <3> QED
      BY <2>1, <2>2, <3>1, <3>2 DEF Add, AddWithPtr
  <2>3. CASE UNCHANGED <<pool, reg>>
    BY <2>1, <2>3
  <2> QED
    BY <2>2, <2>3
<1>5. Overwritten \subseteq open /\ Overwritten \subseteq Fds
  <2>1. sock[Listener] \in Fds \cup {-1}
    BY <1>1, ElementOfSeq
  <2> QED
    BY <1>1, <2>1 DEF Overwritten, IInv, DescriptorsOwned
<1>6. Shape'
  BY <1>1, <1>2, <1>4, <1>5 DEF IInv, Shape
<1>7. DescriptorsOwned'
  <2>1. \A o, k \in 1..n : sock'[o] = sock'[k] /\ o # k => sock'[o] = -1
    BY <1>1, <1>2, <1>3 DEF IInv, DescriptorsOwned
  <2>2. \A o \in 1..n : o # Listener /\ sock[o] # -1 => sock[o] \notin Overwritten
    BY <1>1 DEF IInv, DescriptorsOwned, Overwritten
  <2>3. \A g : g \in open \ lost <=> g # -1 /\ \E o \in 1..n : sock[o] = g
    BY <1>1 DEF IInv, DescriptorsOwned
  <2>4. ASSUME NEW g
        PROVE  g \in open' \ lost' <=> g # -1 /\ \E o \in 1..n : sock'[o] = g
    <3>1. CASE g \in opened
      <4>1. g \notin lost /\ g \notin Overwritten
        BY <3>1, <1>5 DEF IInv, Shape
      <4>2. g \in open' \ lost' <=> g = fd
        BY <3>1, <4>1
      <4>3. (\E o \in 1..n : sock'[o] = g) <=> g = fd
        BY <1>1, <1>2, <1>3, <3>1
      <4> QED
        BY <3>1, <4>2, <4>3
    <3>2. CASE g \notin opened
      <4>1. g \in open' \ lost' <=> g \in open \ lost /\ g \notin Overwritten
        BY <3>2
      <4>2. g # -1 =>
              ((\E o \in 1..n : sock'[o] = g) <=>
               (\E o \in 1..n : o # Listener /\ sock[o] = g))
        BY <1>1, <1>2, <3>2
      <4>3. g # -1 =>
              ((\E o \in 1..n : o # Listener /\ sock[o] = g) <=>
               (\E o \in 1..n : sock[o] = g) /\ g \notin Overwritten)
        BY <1>1, <2>2 DEF Overwritten
      <4> QED
        BY <2>3, <4>1, <4>2, <4>3
    <3> QED
      BY <3>1, <3>2
  <2>5. open' \ lost' = {sock'[o] : o \in DOMAIN sock'} \ {-1}
    BY <1>2, <2>4
  <2> QED
    BY <1>2, <2>1, <2>5 DEF DescriptorsOwned
<1>8. RegisteredIsOwner'
  <2> SUFFICES ASSUME NEW g \in Fds, reg'[g].obj # 0
               PROVE  /\ pool'[g] = reg'[g].obj
                      /\ sock'[reg'[g].obj] = g \/ (reg'[g].obj = Listener /\ g \in lost')
    BY DEF RegisteredIsOwner
  <2>1. CASE pool'[g] = pool[g] /\ reg'[g] = reg[g]
    <3>1. reg[g].obj \in 1..n
      <4>1. reg[g] \in [obj : 0..n, want : SUBSET Filters] /\ reg[g].obj # 0
        BY <2>1 DEF IInv, Shape
      <4> QED
        BY <1>1, <4>1
    <3>2. /\ pool[g] = reg[g].obj
          /\ sock[reg[g].obj] = g \/ (reg[g].obj = Listener /\ g \in lost)
      BY <2>1 DEF IInv, RegisteredIsOwner
    <3>3. CASE reg[g].obj = Listener /\ sock[Listener] = g
      <4>1. g \in Overwritten
        BY <3>3 DEF Overwritten
      <4> QED
        BY <2>1, <3>2, <3>3, <4>1
    <3>4. CASE reg[g].obj # Listener
      BY <1>2, <2>1, <3>1, <3>2, <3>4
    <3>5. CASE reg[g].obj = Listener /\ g \in lost
      BY <2>1, <3>2, <3>5
    <3> QED
      BY <3>2, <3>3, <3>4, <3>5
  <2>2. CASE g = fd /\ reg'[g].obj = Listener /\ pool'[g] = Listener
    BY <1>1, <1>2, <2>2
  <2> QED
    BY <1>4, <2>1, <2>2
<1>9. CloseOnce'
  <2>1. \A o \in 2..n : o \in 1..n /\ o # Listener
    BY <1>1 DEF Listener
  <2> QED
    BY <1>2, <2>1 DEF IInv, CloseOnce, Streams
<1> QED
  BY <1>6, <1>7, <1>8, <1>9 DEF IInv

LEMMA ListenInv == IInv /\ Listen => IInv'
<1> SUFFICES ASSUME IInv, Listen PROVE IInv'
  OBVIOUS
<1>1. PICK fd \in Fds \ open :
        /\ open' = open \cup {fd}
        /\ sock' = [sock EXCEPT ![Listener] = fd]
        /\ Add(fd, Listener) \/ UNCHANGED <<pool, reg>>
  BY DEF Listen
<1>2. fd \in Fds \cup {-1} /\ fd # -1
  BY ReactorAssumption
<1>3. lost' = lost \cup ({fd} \ {fd}) \cup Overwritten
  BY DEF Listen
<1>4. UNCHANGED <<backend, closes, events, at, result, running>>
  BY DEF Listen
<1> QED
  BY <1>1, <1>2, <1>3, <1>4, ListenerSocket

LEMMA ListenFailsInv == IInv /\ ListenFails => IInv'
<1> SUFFICES ASSUME IInv, ListenFails PROVE IInv'
  OBVIOUS
<1>1. PICK opened \in {{}} \cup {{fd} : fd \in Fds \ open} :
        open' = open \cup opened /\ lost' = lost \cup opened \cup Overwritten
  BY DEF ListenFails
<1>2. opened \subseteq Fds \ open /\ -1 \notin opened
  BY ReactorAssumption
<1>3. lost' = lost \cup (opened \ {-1}) \cup Overwritten
  BY <1>1, <1>2
<1>4. /\ sock' = [sock EXCEPT ![Listener] = -1]
      /\ UNCHANGED <<backend, closes, pool, reg, events, at, result, running>>
  BY DEF ListenFails
<1> QED
  BY <1>1, <1>2, <1>3, <1>4, ListenerSocket

LEMMA WaitInv == IInv /\ Wait => IInv'
<1> SUFFICES ASSUME IInv, Wait PROVE IInv'
  OBVIOUS
<1> USE ReactorAssumption
<1>1. PICK n \in 1..MaxEvents : \E s \in Reportable(n) :
        /\ events' = s \o SubSeq(events, n + 1, Len(events))
        /\ result' = n
        /\ reg' = IF backend = "kqueue" THEN reg
                  ELSE [fd \in Fds |-> IF \E i \in 1..n : s[i].fd = fd
                                       THEN [reg[fd] EXCEPT !.want = {}] ELSE reg[fd]]
  BY DEF Wait
<1>2. PICK s \in Reportable(n) :
        /\ events' = s \o SubSeq(events, n + 1, Len(events))
        /\ result' = n
        /\ reg' = IF backend = "kqueue" THEN reg
                  ELSE [fd \in Fds |-> IF \E i \in 1..n : s[i].fd = fd
                                       THEN [reg[fd] EXCEPT !.want = {}] ELSE reg[fd]]
  BY <1>1
<1>3. \A fd \in Fds : ReportedFor(fd) \subseteq Events(Len(sock))
  <2> SUFFICES ASSUME NEW fd \in Fds, NEW x \in ReportedFor(fd)
               PROVE  x \in Events(Len(sock))
    OBVIOUS
  <2>1. reg[fd].want # {}
    <3>1. reg[fd].want = {} => ReportedFor(fd) = {}
      BY DEF ReportedFor
    <3> QED
      BY <3>1
  <2>2. reg[fd].obj \in 1..Len(sock) /\ reg[fd].want \subseteq Filters
    BY <2>1, SMTT(30) DEF IInv, Shape
  <2>3. PICK e \in reg[fd].want \cup {"error"}, f \in BOOLEAN : x = Event(fd, e, f)
    <3> DEFINE K == {Event(fd, e, f) : e \in reg[fd].want, f \in BOOLEAN}
               P == {Event(fd, e, FALSE) : e \in reg[fd].want \cup {"error"}}
    <3>1. ReportedFor(fd) = IF reg[fd].want = {} THEN {} ELSE IF backend = "kqueue" THEN K ELSE P
      BY DEF ReportedFor
    <3>2. x \in K \/ x \in P
      <4> HIDE DEF K, P
      <4> QED
        BY <2>1, <3>1
    <3>3. CASE x \in K
      <4>1. \E e \in reg[fd].want, f \in BOOLEAN : x = Event(fd, e, f)
        BY <3>3
      <4> QED
        BY <4>1, Zenon
    <3>4. CASE x \in P
      BY <3>4, Zenon
    <3> HIDE DEF K, P
    <3> QED
      BY <3>2, <3>3, <3>4
  <2>4. e \in Filters \cup {"error"}
    BY <2>2
  <2> QED
    BY <2>2, <2>3, <2>4, Zenon DEF Event, Events
<1>4. s \in [1..n -> Events(Len(sock))] /\ n \in Nat \ {0}
  BY <1>2, <1>3 DEF Reportable
<1>5. events' \in Seq(Events(Len(sock)))
  <2>1. s \in Seq(Events(Len(sock)))
    BY <1>4
  <2>2. events \in Seq(Events(Len(sock))) /\ Len(events) \in Nat
    BY LenProperties DEF IInv, Shape
  <2>3. SubSeq(events, n + 1, Len(events)) \in Seq(Events(Len(sock)))
    BY <1>4, <2>2, SubSeqProperties
  <2> QED
    BY <1>2, <2>1, <2>3, ConcatProperties
<1>6. \A fd \in Fds : reg'[fd] = reg[fd] \/ reg'[fd] = [reg[fd] EXCEPT !.want = {}]
  BY <1>2
<1>7. /\ reg' \in [Fds -> [obj : 0..Len(sock), want : SUBSET Filters]]
      /\ \A fd \in Fds : /\ reg'[fd].obj = reg[fd].obj
                         /\ reg'[fd].want # {} => reg[fd].want # {}
  <2>1. reg \in [Fds -> [obj : 0..Len(sock), want : SUBSET Filters]]
    BY DEF IInv, Shape
  <2>2. \A fd \in Fds : [reg[fd] EXCEPT !.want = {}] \in [obj : 0..Len(sock), want : SUBSET Filters]
    BY <2>1
  <2>3. reg' \in [Fds -> [obj : 0..Len(sock), want : SUBSET Filters]]
    BY <1>2, <2>1, <2>2
  <2> QED
    BY <1>6, <2>1, <2>3
<1>9. Shape'
  <2>1. at' \in Nat \ {0} /\ result' \in Nat
    BY <1>2, <1>4 DEF Wait
  <2>2. \A fd \in Fds : reg'[fd].want # {} => reg'[fd].obj # 0
    BY <1>7 DEF IInv, Shape
  <2> QED
    BY <1>5, <1>7, <2>1, <2>2 DEF Wait, IInv, Shape
<1>10. DescriptorsOwned' /\ CloseOnce'
  BY DEF Wait, IInv, DescriptorsOwned, CloseOnce, Streams
<1>11. RegisteredIsOwner'
  BY <1>7 DEF Wait, IInv, RegisteredIsOwner
<1> QED
  BY <1>9, <1>10, <1>11 DEF IInv

LEMMA WaitFailsInv == IInv /\ WaitFails => IInv'
<1> SUFFICES ASSUME IInv, WaitFails PROVE IInv'
  OBVIOUS
<1>1. result' \in Nat
  BY ReactorAssumption DEF WaitFails, ErrorResult
<1>2. /\ events' \in Seq(Events(Len(sock))) /\ running' \in Seq(Frames(Len(sock)))
  BY DEF WaitFails, IInv, Shape
<1> QED
  BY <1>1, <1>2, SocketsAlone DEF WaitFails

LEMMA DispatchInv == IInv /\ Dispatch => IInv'
<1> SUFFICES ASSUME IInv, Dispatch PROVE IInv'
  OBVIOUS
<1>1. events \in Seq(Events(Len(sock))) /\ at \in 1..Len(events) /\ Len(events) \in Nat
  BY DEF Dispatch, IInv, Shape
<1>2. events[at] \in Events(Len(sock))
  BY <1>1, ElementOfSeq
<1>3. Handlers(events[at]) \in Seq(Frames(Len(sock)))
  <2> DEFINE e == events[at]
             S == Seq(Frames(Len(sock)))
  <2>1. Handler(e.obj, "read") \in Frames(Len(sock))
    BY <1>2 DEF Handler, Events, Frames, Filters
  <2>2. e.what # "error" => Handler(e.obj, e.what) \in Frames(Len(sock))
    BY <1>2 DEF Handler, Events, Frames, Filters
  <2>3. (IF e.eof THEN <<Handler(e.obj, "read")>> ELSE <<>>) \in S
    BY <2>1
  <2>4. (IF e.what = "error" THEN <<>> ELSE <<Handler(e.obj, e.what)>>) \in S
    BY <2>2
  <2> QED
    BY <2>3, <2>4, ConcatProperties DEF Handlers
<1> QED
  BY <1>1, <1>3, SocketsAlone, SMTT(30) DEF Dispatch, IInv, Shape

LEMMA ReturnInv == IInv /\ Return => IInv'
<1> SUFFICES ASSUME IInv, Return PROVE IInv'
  OBVIOUS
<1>1. running' \in Seq(Frames(Len(sock)))
  BY TailOfRunning DEF Return, IInv
<1> QED
  BY <1>1, SocketsAlone DEF Return, IInv, Shape

(* accept gives the new object a descriptor that nobody has, and a pool    *)
(* entry of its own.                                                       *)
LEMMA AcceptInv == IInv /\ Accept => IInv'
<1> SUFFICES ASSUME IInv, Accept PROVE IInv'
  OBVIOUS
<1> USE ReactorAssumption
<1>0. /\ running' \in Seq(Frames(Len(sock)))
      /\ UNCHANGED <<backend, events, at, result>>
  BY TailOfRunning DEF Accept, IInv
<1>1. CASE UNCHANGED <<sock, closes, pool, open, lost, reg>>
  BY <1>0, <1>1, SocketsAlone DEF IInv, Shape
<1>2. ASSUME NEW fd \in Fds \ open, open' = open \cup {fd}, lost' = lost \cup {fd},
             UNCHANGED <<sock, closes, pool, reg>>
      PROVE  IInv'
  <2>1. Shape'
    BY <1>0, <1>2 DEF IInv, Shape
  <2>2. DescriptorsOwned'
    BY <1>2 DEF IInv, Shape, DescriptorsOwned
  <2>3. RegisteredIsOwner' /\ CloseOnce'
    BY <1>0, <1>2 DEF IInv, RegisteredIsOwner, CloseOnce, Streams
  <2> QED
    BY <2>1, <2>2, <2>3 DEF IInv
<1>3. ASSUME NEW fd \in Fds \ open, open' = open \cup {fd}, Len(sock) < MaxObjs,
             sock' = Append(sock, fd), closes' = Append(closes, 0),
             Add(fd, Len(sock) + 1), lost' = lost
      PROVE  IInv'
  <2> DEFINE n == Len(sock)
  <2>1. /\ n \in Nat \ {0} /\ Len(sock') = n + 1 /\ sock' \in Seq(Fds \cup {-1})
        /\ \A o \in 1..n : sock'[o] = sock[o]
        /\ sock'[n + 1] = fd
        /\ DOMAIN sock = 1..n /\ DOMAIN sock' = 1..(n + 1)
    <3>1. sock \in Seq(Fds \cup {-1}) /\ fd \in Fds \cup {-1} /\ n \in Nat \ {0}
      BY DEF IInv, Shape
    <3> QED
      BY <1>3, <3>1, AppendProperties, LenProperties
  <2>2. /\ Len(closes') = n + 1 /\ closes' \in Seq(Nat)
        /\ \A o \in 1..n : closes'[o] = closes[o]
        /\ closes'[n + 1] = 0
    <3>1. closes \in Seq(Nat) /\ Len(closes) = n
      BY DEF IInv, Shape
    <3> QED
      BY <1>3, <3>1, AppendProperties
  <2>3. \A o \in 1..n : sock[o] # fd
    BY <2>1, FreshUnregistered
  <2>4. fd # -1
    OBVIOUS
  <2>5. reg[fd].obj = 0 /\ reg[fd].want = {}
    BY FreshUnregistered
  <2>6. /\ pool' \in [Fds -> 0..(n + 1)]
        /\ pool'[fd] = n + 1
        /\ \A g \in Fds \ {fd} : pool'[g] = pool[g]
    BY <1>3, <2>1 DEF Add, AddWithPtr, IInv, Shape
  <2>7. /\ reg' \in [Fds -> [obj : 0..(n + 1), want : SUBSET Filters]]
        /\ reg'[fd] = reg[fd] \/ reg'[fd].obj = n + 1
        /\ \A g \in Fds \ {fd} : reg'[g] = reg[g]
    <3>1. reg \in [Fds -> [obj : 0..(n + 1), want : SUBSET Filters]]
      BY <2>1 DEF IInv, Shape
    <3>2. [obj |-> n + 1, want |-> {"read"}] \in [obj : 0..(n + 1), want : SUBSET Filters]
      BY <2>1 DEF Filters
    <3> QED
      BY <1>3, <3>1, <3>2, SMTT(30) DEF Add, AddWithPtr
  <2>8. Events(n) \subseteq Events(n + 1) /\ Frames(n) \subseteq Frames(n + 1)
    <3>1. 1..n \subseteq 1..(n + 1)
      BY <2>1
    <3> QED
      BY <3>1, Zenon DEF Events, Frames
  <2>9. events' \in Seq(Events(n + 1)) /\ running' \in Seq(Frames(n + 1))
    BY <1>0, <2>8, SeqGrows DEF IInv, Shape
  <2>10. Shape'
    <3>1. \A g \in Fds : reg'[g].want # {} => reg'[g].obj # 0
      BY <2>1, <2>5, <2>7, SMTT(30) DEF IInv, Shape
    <3>2. open' \subseteq Fds /\ lost' \subseteq open' /\ n + 1 \in 1..MaxObjs
      BY <1>3, <2>1 DEF IInv, Shape
    <3> QED
      BY <1>0, <2>1, <2>2, <2>6, <2>7, <2>9, <3>1, <3>2 DEF IInv, Shape
  <2>11. DescriptorsOwned'
    <3>1. {sock'[o] : o \in DOMAIN sock'} = {sock[o] : o \in DOMAIN sock} \cup {fd}
      BY <2>1
    <3>2. open' \ lost' = (open \ lost) \cup {fd}
      BY <1>3 DEF IInv, Shape
    <3>3. \A o, k \in DOMAIN sock' : sock'[o] = sock'[k] /\ o # k => sock'[o] = -1
      BY <2>1, <2>3 DEF IInv, DescriptorsOwned
    <3> QED
      BY <2>4, <3>1, <3>2, <3>3 DEF IInv, DescriptorsOwned
  <2>12. RegisteredIsOwner'
    <3> SUFFICES ASSUME NEW g \in Fds, reg'[g].obj # 0
                 PROVE  /\ pool'[g] = reg'[g].obj
                        /\ sock'[reg'[g].obj] = g \/ (reg'[g].obj = Listener /\ g \in lost')
      BY DEF RegisteredIsOwner
    <3>1. CASE g = fd
      BY <2>1, <2>5, <2>6, <2>7, <3>1
    <3>2. CASE g # fd
      <4>1. pool'[g] = pool[g] /\ reg'[g] = reg[g] /\ reg[g].obj # 0
        BY <2>6, <2>7, <3>2
      <4>2. reg[g].obj \in 1..n
        <5>1. reg[g] \in [obj : 0..n, want : SUBSET Filters]
          BY DEF IInv, Shape
        <5> QED
          BY <2>1, <4>1, <5>1
      <4> QED
        BY <1>3, <2>1, <4>1, <4>2 DEF IInv, RegisteredIsOwner
    <3> QED
      BY <3>1, <3>2
  <2>13. CloseOnce'
    BY <2>1, <2>2, <2>4 DEF IInv, CloseOnce, Streams
  <2> QED
    BY <2>10, <2>11, <2>12, <2>13 DEF IInv
<1> QED
  BY <1>1, <1>2, <1>3 DEF Accept

(* What a step that changes no more than one registration has to keep.     *)
LEMMA OneRegistration ==
  ASSUME IInv, NEW fd \in Fds, NEW r \in [obj : 0..Len(sock), want : SUBSET Filters],
         r.want # {} => r.obj # 0,
         r.obj # 0 => /\ pool[fd] = r.obj
                      /\ sock[r.obj] = fd \/ (r.obj = Listener /\ fd \in lost),
         reg' = [reg EXCEPT ![fd] = r],
         UNCHANGED <<backend, sock, closes, pool, open, lost, events, at, result, running>>
  PROVE  IInv'
<1>1. /\ reg' \in [Fds -> [obj : 0..Len(sock), want : SUBSET Filters]]
      /\ reg'[fd] = r
      /\ \A g \in Fds \ {fd} : reg'[g] = reg[g]
  BY DEF IInv, Shape
<1>2. Shape'
  <2>1. \A g \in Fds : reg'[g].want # {} => reg'[g].obj # 0
    BY <1>1 DEF IInv, Shape
  <2> QED
    BY <1>1, <2>1 DEF IInv, Shape
<1>3. RegisteredIsOwner'
  BY <1>1 DEF IInv, RegisteredIsOwner
<1>4. DescriptorsOwned' /\ CloseOnce'
  BY DEF IInv, DescriptorsOwned, CloseOnce, Streams
<1> QED
  BY <1>2, <1>3, <1>4 DEF IInv

(* What was added is the caller in the pool, so kqueue registers it too.   *)
LEMMA ModifyInv ==
  ASSUME IInv, NEW o \in DOMAIN sock, NEW e \in Filters, Added(o), Modify(o, e)
  PROVE  IInv'
<1> DEFINE fd == sock[o]
<1>1. /\ o \in 1..Len(sock) /\ fd \in Fds /\ Len(sock) \in Nat
      /\ reg[fd] \in [obj : 0..Len(sock), want : SUBSET Filters]
      /\ pool[fd] = o
  BY LenProperties DEF Added, IInv, Shape
<1>2. PICK w \in SUBSET Filters : reg' = [reg EXCEPT ![fd] = [obj |-> o, want |-> w]]
  <2>1. CASE backend = "epoll"
    BY <2>1 DEF Modify
  <2>2. CASE backend # "epoll"
    <3>1. reg[fd].want \cup {e} \in SUBSET Filters
      BY <1>1
    <3>2. reg' = [reg EXCEPT ![fd] = [obj |-> o, want |-> reg[fd].want \cup {e}]]
      BY <1>1, <2>2 DEF Modify
    <3> QED
      BY <3>1, <3>2
  <2> QED
    BY <2>1, <2>2
<1> DEFINE r == [obj |-> o, want |-> w]
<1>3. r \in [obj : 0..Len(sock), want : SUBSET Filters] /\ r.obj = o /\ o # 0
  BY <1>1
<1>4. reg' = [reg EXCEPT ![fd] = r]
  BY <1>2
<1> HIDE DEF r
<1> QED
  BY <1>1, <1>3, <1>4, OneRegistration DEF Modify

LEMMA RemoveInv ==
  ASSUME IInv, NEW o \in DOMAIN sock, NEW e \in Filters, Remove(o, e)
  PROVE  IInv'
<1> DEFINE fd == sock[o]
           r == [obj |-> IF Left(o, e) = {} THEN 0 ELSE reg[fd].obj, want |-> Left(o, e)]
<1>1. /\ fd \in Fds
      /\ reg[fd] \in [obj : 0..Len(sock), want : SUBSET Filters]
  BY LenProperties DEF Remove, Removed, IInv, Shape
<1>2. reg' = [reg EXCEPT ![fd] = r]
  BY DEF Remove, Removed
<1>3. Left(o, e) \subseteq reg[fd].want
  BY DEF Left
<1>4. /\ r \in [obj : 0..Len(sock), want : SUBSET Filters]
      /\ r.want = Left(o, e) /\ r.obj = IF Left(o, e) = {} THEN 0 ELSE reg[fd].obj
  <2>1. 0 \in 0..Len(sock)
    BY DEF IInv, Shape
  <2> QED
    BY <1>1, <1>3, <2>1
<1>5. r.want # {} => r.obj # 0
  BY <1>1, <1>3, <1>4 DEF IInv, Shape
<1>6. r.obj # 0 => /\ pool[fd] = r.obj
                   /\ sock[r.obj] = fd \/ (r.obj = Listener /\ fd \in lost)
  BY <1>1, <1>4 DEF IInv, RegisteredIsOwner
<1>7. UNCHANGED <<backend, sock, closes, pool, open, lost, events, at, result, running>>
  BY DEF Remove, Removed
<1> HIDE DEF r, fd
<1> QED
  BY <1>1, <1>2, <1>4, <1>5, <1>6, <1>7, OneRegistration

(* The descriptor that close gives back was the object's own, and no lost  *)
(* one: nothing else in the program refers to it any more.                 *)
LEMMA CloseInv ==
  ASSUME IInv, NEW o \in Streams, Close(o)
  PROVE  IInv'
<1> USE ReactorAssumption
<1> DEFINE n == Len(sock)
           fd == sock[o]
<1>1. /\ o \in 2..n /\ n \in Nat /\ o \in 1..n /\ o # Listener
      /\ DOMAIN sock = 1..n /\ fd \in Fds /\ fd # -1
      /\ sock \in Seq(Fds \cup {-1}) /\ closes \in Seq(Nat) /\ Len(closes) = n
  BY LenProperties DEF Close, Streams, Listener, IInv, Shape
<1>2. /\ sock' \in Seq(Fds \cup {-1}) /\ Len(sock') = n /\ DOMAIN sock' = 1..n
      /\ \A k \in 1..n : sock'[k] = IF k = o THEN -1 ELSE sock[k]
  <2>1. sock' = [sock EXCEPT ![o] = -1] /\ -1 \in Fds \cup {-1}
    BY DEF Close, Closed
  <2> QED
    BY <1>1, <2>1, ExceptSeq, LenProperties
<1>3. /\ closes' \in Seq(Nat) /\ Len(closes') = n
      /\ \A k \in 1..n : closes'[k] = IF k = o THEN closes[o] + 1 ELSE closes[k]
  <2>1. closes' = [closes EXCEPT ![o] = closes[o] + 1] /\ closes[o] + 1 \in Nat
    BY <1>1, ElementOfSeq DEF Close, Closed
  <2> QED
    BY <1>1, <2>1, ExceptSeq
<1>4. /\ reg' \in [Fds -> [obj : 0..n, want : SUBSET Filters]]
      /\ reg'[fd].obj = 0 /\ reg'[fd].want = {}
      /\ \A g \in Fds \ {fd} : reg'[g] = reg[g]
  <2>1. reg' = [reg EXCEPT ![fd] = NoReg] /\ NoReg \in [obj : 0..n, want : SUBSET Filters]
    BY <1>1 DEF Close, NoReg
  <2> QED
    BY <1>1, <2>1 DEF IInv, Shape, NoReg
<1>5. running' \in Seq(Frames(n))
  <2>1. <<[handler |-> "close", obj |-> o]>> \in Seq(Frames(n))
    BY <1>1 DEF Frames
  <2> QED
    BY <2>1, ConcatProperties DEF Close, Closed, IInv, Shape
<1>6. /\ open' = open \ {fd}
      /\ UNCHANGED <<backend, pool, lost, events, at, result>>
  BY DEF Close, Closed
<1>7. fd \in open /\ fd \notin lost /\ \A k \in 1..n : k # o => sock[k] # fd
  BY <1>1 DEF IInv, DescriptorsOwned
<1>8. Shape'
  <2>1. \A g \in Fds : reg'[g].want # {} => reg'[g].obj # 0
    BY <1>4 DEF IInv, Shape
  <2>2. open' \subseteq Fds /\ lost' \subseteq open'
    BY <1>6, <1>7 DEF IInv, Shape
  <2> QED
    BY <1>2, <1>3, <1>4, <1>5, <1>6, <2>1, <2>2 DEF IInv, Shape
<1>9. DescriptorsOwned'
  <2>1. {sock'[k] : k \in DOMAIN sock'} \ {-1} = ({sock[k] : k \in DOMAIN sock} \ {-1}) \ {fd}
    BY <1>1, <1>2, <1>7
  <2>2. \A k, j \in DOMAIN sock' : sock'[k] = sock'[j] /\ k # j => sock'[k] = -1
    BY <1>1, <1>2 DEF IInv, DescriptorsOwned
  <2> QED
    BY <1>6, <2>1, <2>2 DEF IInv, DescriptorsOwned
<1>10. RegisteredIsOwner'
  <2> SUFFICES ASSUME NEW g \in Fds, reg'[g].obj # 0
               PROVE  /\ pool'[g] = reg'[g].obj
                      /\ sock'[reg'[g].obj] = g \/ (reg'[g].obj = Listener /\ g \in lost')
    BY DEF RegisteredIsOwner
  <2>1. g # fd /\ reg'[g] = reg[g] /\ reg[g].obj # 0
    BY <1>4
  <2>2. reg[g].obj \in 1..n
    <3>1. reg[g] \in [obj : 0..n, want : SUBSET Filters]
      BY DEF IInv, Shape
    <3> QED
      BY <1>1, <2>1, <3>1
  <2>3. /\ pool[g] = reg[g].obj
        /\ sock[reg[g].obj] = g \/ (reg[g].obj = Listener /\ g \in lost)
    BY <2>1 DEF IInv, RegisteredIsOwner
  <2>4. reg[g].obj # o
    BY <1>1, <2>1, <2>3
  <2>5. sock'[reg[g].obj] = sock[reg[g].obj]
    BY <1>2, <2>2, <2>4
  <2> QED
    BY <1>6, <2>1, <2>3, <2>5
<1>11. CloseOnce'
  <2> SUFFICES ASSUME NEW k \in 2..n
               PROVE  closes'[k] = IF sock'[k] = -1 THEN 1 ELSE 0
    BY <1>2 DEF CloseOnce, Streams
  <2>1. closes[k] = IF sock[k] = -1 THEN 1 ELSE 0
    BY DEF IInv, CloseOnce, Streams
  <2>2. k \in 1..n
    BY <1>1
  <2> QED
    BY <1>1, <1>2, <1>3, <2>1, <2>2
<1> QED
  BY <1>8, <1>9, <1>10, <1>11 DEF IInv

LEMMA HandleInv == IInv /\ Handle => IInv'
  BY CloseInv, ModifyInv, RemoveInv DEF Handle

LEMMA StepInv == IInv /\ [Next]_vars => IInv'
<1> SUFFICES ASSUME IInv, [Next]_vars PROVE IInv'
  OBVIOUS
<1>1. CASE UNCHANGED vars
  BY <1>1, SocketsAlone DEF vars, IInv, Shape
<1> QED
  BY <1>1, ListenInv, ListenFailsInv, WaitInv, WaitFailsInv, DispatchInv, AcceptInv,
     HandleInv, ReturnInv DEF Next

-----------------------------------------------------------------------------
(* The theorems.                                                           *)

LEMMA InvHolds == Spec => []IInv
  BY InitInv, StepInv, PTL DEF Spec

LEMMA ShapeTypeOK == IInv => TypeOK
<1> SUFFICES ASSUME IInv PROVE TypeOK
  OBVIOUS
<1>1. DOMAIN sock = 1..Len(sock) /\ DOMAIN closes = DOMAIN sock
  BY LenProperties DEF IInv, Shape
<1>2. \A o \in DOMAIN sock : sock[o] \in Fds \cup {-1}
  BY <1>1, ElementOfSeq DEF IInv, Shape
<1>3. \A i \in DOMAIN events : events[i].obj \in DOMAIN sock
  <2>1. DOMAIN events = 1..Len(events) /\ events \in Seq(Events(Len(sock)))
    BY LenProperties DEF IInv, Shape
  <2>2. \A i \in DOMAIN events : events[i] \in Events(Len(sock))
    BY <2>1, ElementOfSeq
  <2> QED
    BY <1>1, <2>2 DEF Events
<1>4. \A i \in DOMAIN running : running[i].obj \in DOMAIN sock
  <2>1. DOMAIN running = 1..Len(running) /\ running \in Seq(Frames(Len(sock)))
    BY LenProperties DEF IInv, Shape
  <2>2. \A i \in DOMAIN running : running[i] \in Frames(Len(sock))
    BY <2>1, ElementOfSeq
  <2> QED
    BY <1>1, <2>2 DEF Frames
<1> QED
  BY <1>1, <1>2, <1>3, <1>4 DEF IInv, Shape, TypeOK

(* Every variable of the poller keeps its type; in particular what the     *)
(* wait reports and what poll has still to handle names objects that       *)
(* exist.                                                                  *)
THEOREM TypeCorrect == Spec => []TypeOK
  BY InvHolds, ShapeTypeOK, PTL

(* No descriptor has two owners, and none that accept or listen opened is  *)
(* forgotten other than by getNewSocket, by accept if it is 0, and by a    *)
(* second listen, whatever the first one came to: also when close gives    *)
(* one back in the middle of a batch of events and accept gets it again.   *)
THEOREM DescriptorsHaveOneOwner == Spec => []DescriptorsOwned
<1>1. IInv => DescriptorsOwned
  BY DEF IInv
<1> QED
  BY <1>1, InvHolds, PTL

(* What add, modify, remove and close leave registered for a descriptor is *)
(* the object that has the descriptor now, with either build, or the       *)
(* listener that a second listen took it from.                             *)
THEOREM EventsReachTheOwner == Spec => []RegisteredIsOwner
<1>1. IInv => RegisteredIsOwner
  BY DEF IInv
<1> QED
  BY <1>1, InvHolds, PTL

(* TcpSocket::close calls the close handler once in a socket's life,       *)
(* whoever closes it and however deep inside other handlers.               *)
THEOREM ClosedOnce == Spec => []CloseOnce
<1>1. IInv => CloseOnce
  BY DEF IInv
<1> QED
  BY <1>1, InvHolds, PTL

-----------------------------------------------------------------------------
(* A wait that fails.                                                      *)

(* After an error poll has nothing to dispatch.                            *)
ErrorReportsNone == failed => running = <<>> /\ result = 0

(* Where no signal interrupts epoll's wait, poll runs no handler after a   *)
(* wait that failed.  (Where one does, it may: the test `result < 0` of an *)
(* unsigned result is never true.)                                         *)
THEOREM QuietAfterError ==
  ASSUME "epoll" \notin Interrupted
  PROVE  Spec => []QuietOnError
<1>1. Init => ErrorReportsNone
  BY DEF Init, ErrorReportsNone
<1>2. IInv /\ ErrorReportsNone /\ [Next]_vars => ErrorReportsNone'
  <2> SUFFICES ASSUME IInv, ErrorReportsNone, [Next]_vars, failed'
               PROVE  running' = <<>> /\ result' = 0
    BY DEF ErrorReportsNone
  <2>1. at \in Nat \ {0}
    BY DEF IInv, Shape
  <2>2. CASE WaitFails
    <3>1. backend = "kqueue"
      BY <2>2, ReactorAssumption DEF WaitFails
    <3> QED
      BY <2>2, <3>1 DEF WaitFails, Between, ErrorResult
  <2>3. CASE Wait
    BY <2>3 DEF Wait
  <2>4. CASE failed' = failed /\ running # <<>>
    BY <2>4 DEF ErrorReportsNone
  <2>5. CASE failed' = failed /\ UNCHANGED <<running, result>>
    BY <2>5 DEF ErrorReportsNone
  <2>6. CASE Dispatch
    BY <2>1, <2>6 DEF Dispatch, ErrorReportsNone
  <2>7. Listen \/ ListenFails \/ UNCHANGED vars => failed' = failed /\ UNCHANGED <<running, result>>
    BY DEF Listen, ListenFails, vars
  <2>8. Accept \/ Return => failed' = failed /\ running # <<>>
    BY DEF Accept, Return
  <2>9. Handle => failed' = failed /\ running # <<>>
    BY DEF Handle, InHandler, Close, Closed, Modify, Remove, Removed
  <2> QED
    BY <2>2, <2>3, <2>4, <2>5, <2>6, <2>7, <2>8, <2>9 DEF Next
<1>3. ErrorReportsNone => QuietOnError
  BY DEF ErrorReportsNone, QuietOnError
<1> QED
  BY <1>1, <1>2, <1>3, InvHolds, PTL DEF Spec
=============================================================================
