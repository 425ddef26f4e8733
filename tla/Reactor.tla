------------------------------ MODULE Reactor ------------------------------
(***************************************************************************)
(* The server side of qing::net on epoll and kqueue: Poller (poll, add,    *)
(* modify, remove), TcpListener (listen, accept) and the life of the       *)
(* TcpSockets that accept makes.  One thread polls, and every handler runs *)
(* inside poll; a handler of the application may close, modify or remove   *)
(* any socket, also one whose event poll has fetched but not handled yet.  *)
(*                                                                         *)
(* SocketMgr() is not in the repository: RegistAcceptor is taken to add    *)
(* the listener to the poller, as the IOCP version of listen does itself,  *)
(* and GetHandler to find the object that a descriptor was added with.     *)
(* TcpSocket::close calls the descriptor _handle, its name before it       *)
(* became _socket.                                                         *)
(***************************************************************************)
EXTENDS Integers, Sequences, FiniteSets

CONSTANTS
  Backends,     \* the builds, HAVE_EPOLL and HAVE_KQUEUE: "epoll" and "kqueue"
  Fds,          \* the descriptors that the kernel gives out
  MaxObjs,      \* bound: the listener and the sockets that are accepted
  MaxLost,      \* bound: listen is not called again once so many descriptors are lost
  MaxEvents,    \* MAX_EVENT_SIZE
  MaxUint,      \* 2^32 - 1, the uint32_t that -1 is assigned to
  Interrupted   \* the builds whose wait a signal may interrupt

ASSUME ReactorAssumption ==
  /\ Backends \subseteq {"epoll", "kqueue"}
  /\ Fds \subseteq Nat
  /\ MaxObjs \in Nat \ {0}
  /\ MaxLost \in Nat
  /\ MaxEvents \in Nat \ {0}
  /\ MaxUint \in Nat /\ MaxEvents < MaxUint
  /\ Interrupted \subseteq Backends

VARIABLES
  backend,   \* the build that runs
  sock,      \* sock[o]: _socket of object o; object 1 is the listener
  closes,    \* closes[o]: history, how often o's _closeHandler was called
  pool,      \* _socketPool: the object of a descriptor, 0 if there is none
  open,      \* the kernel's open descriptors
  lost,      \* history: the ones that were opened and then forgotten
  reg,       \* the kernel's registrations: a descriptor's object and filters
  events,    \* _events
  at,        \* the index of the event that poll looks at next
  result,    \* how many events the wait has reported
  running,   \* the handlers that run, the innermost one first
  failed     \* history: the last wait ended with an error

vars == <<backend, sock, closes, pool, open, lost, reg, events, at, result, running, failed>>

Listener == 1
Streams == 2..Len(sock)
NoReg == [obj |-> 0, want |-> {}]
Filters == {"read", "write"}

-----------------------------------------------------------------------------
(* Poller::add with EVENT_READ.  The pool keeps the object even if the     *)
(* kernel refuses.                                                         *)
AddWithPtr(fd, o, ptr) ==
  /\ pool' = [pool EXCEPT ![fd] = o]
  /\ \/ reg' = [reg EXCEPT ![fd] = [obj |-> ptr, want |-> {"read"}]]
     \/ UNCHANGED reg
AddThis(fd, o) == AddWithPtr(fd, o, Listener)
Add(fd, o) == AddWithPtr(fd, o, o)

(* Where the application runs: between two polls, and in the handlers of   *)
(* its sockets.                                                            *)
Between == running = <<>> /\ at > result
InHandler == running # <<>> /\ Head(running).obj # Listener

(* TcpListener::listen overwrites _socket, whatever it was.  When          *)
(* setsockopt, bind or listen fails, the new descriptor stays with the     *)
(* listener, and a second listen forgets it.                               *)
Overwritten == {sock[Listener]} \ {-1}
Listen ==
  /\ Between \/ InHandler
  /\ Cardinality(lost) < MaxLost
  /\ \E fd \in Fds \ open :
       /\ open' = open \cup {fd}
       /\ sock' = [sock EXCEPT ![Listener] = fd]
       /\ Add(fd, Listener) \/ UNCHANGED <<pool, reg>>
  /\ lost' = lost \cup Overwritten
  /\ UNCHANGED <<backend, closes, events, at, result, running, failed>>

(* Util::getNewSocket returns -1: it gets no descriptor, or it has opened  *)
(* one and forgets it.                                                     *)
ListenFails ==
  /\ Between \/ InHandler
  /\ Cardinality(lost) < MaxLost
  /\ \E opened \in {{}} \cup {{fd} : fd \in Fds \ open} :
       open' = open \cup opened /\ lost' = lost \cup opened \cup Overwritten
  /\ sock' = [sock EXCEPT ![Listener] = -1]
  /\ UNCHANGED <<backend, closes, pool, reg, events, at, result, running, failed>>

(* Poller::modify: epoll replaces what a registered descriptor waits for,  *)
(* kqueue adds a filter.                                                   *)
Modify(o, e) ==
  /\ sock[o] # -1
  /\ IF backend = "epoll"
     THEN /\ reg[sock[o]].obj # 0
          /\ reg' = [reg EXCEPT ![sock[o]] = [obj |-> o, want |-> {e}]]
     ELSE /\ pool[sock[o]] # 0
          /\ reg' = [reg EXCEPT ![sock[o]] = [obj |-> pool[sock[o]], want |-> @.want \cup {e}]]
  /\ UNCHANGED <<backend, sock, closes, pool, open, lost, events, at, result, running, failed>>

(* Poller::remove: the kernel forgets, the pool does not.                  *)
Left(o, e) == IF backend = "epoll" THEN {} ELSE reg[sock[o]].want \ {e}
Removed(o, left) ==
  /\ sock[o] # -1
  /\ reg' = [reg EXCEPT ![sock[o]] = left]
  /\ UNCHANGED <<backend, sock, closes, pool, open, lost, events, at, result, running, failed>>
RemoveClearsPtr(o, e) == Removed(o, [obj |-> 0, want |-> Left(o, e)])
Remove(o, e) ==
  Removed(o, [obj |-> IF Left(o, e) = {} THEN 0 ELSE reg[sock[o]].obj, want |-> Left(o, e)])

(* TcpSocket::close: closing the last descriptor also ends its             *)
(* registrations, then _closeHandler runs.                                 *)
Closed(o) ==
  /\ sock' = [sock EXCEPT ![o] = -1]
  /\ closes' = [closes EXCEPT ![o] = @ + 1]
  /\ running' = <<[handler |-> "close", obj |-> o]>> \o running
  /\ UNCHANGED <<backend, pool, lost, events, at, result, failed>>
CloseUnchecked(o) ==
  /\ open' = open \ {sock[o]}
  /\ reg' = [fd \in Fds |-> IF fd = sock[o] THEN NoReg ELSE reg[fd]]
  /\ Closed(o)
CloseLeaks(o) ==
  /\ sock[o] # -1
  /\ UNCHANGED <<open, reg>>
  /\ Closed(o)
Close(o) ==
  /\ sock[o] # -1
  /\ open' = open \ {sock[o]}
  /\ reg' = [reg EXCEPT ![sock[o]] = NoReg]
  /\ Closed(o)

-----------------------------------------------------------------------------
(* Poller::poll.  The wait reports some of what is registered, in any      *)
(* order, each filter of a descriptor once.  epoll reports a descriptor    *)
(* only once: the masks of convertEventMask have EPOLLONESHOT.  An event   *)
(* names the object; fd is history.                                        *)

Event(fd, what, eof) == [fd |-> fd, obj |-> reg[fd].obj, what |-> what, eof |-> eof]
ReportedFor(fd) ==
  IF reg[fd].want = {} THEN {}
  ELSE IF backend = "kqueue" THEN {Event(fd, e, f) : e \in reg[fd].want, f \in BOOLEAN}
  ELSE {Event(fd, e, FALSE) : e \in reg[fd].want \cup {"error"}}
Reportable(n) ==
  {s \in [1..n -> UNION {ReportedFor(fd) : fd \in Fds}] :
     \A i, j \in 1..n :
       s[i].fd = s[j].fd /\ (backend = "kqueue" => s[i].what = s[j].what) => i = j}

(* The kernel writes the first n entries of the array, older ones stay     *)
(* behind them.                                                            *)
Wait ==
  /\ Between
  /\ \E n \in 1..MaxEvents : \E s \in Reportable(n) :
       /\ events' = s \o SubSeq(events, n + 1, Len(events))
       /\ result' = n
       /\ reg' = IF backend = "kqueue" THEN reg
                 ELSE [fd \in Fds |-> IF \E i \in 1..n : s[i].fd = fd
                                      THEN [reg[fd] EXCEPT !.want = {}] ELSE reg[fd]]
  /\ at' = 1
  /\ failed' = FALSE
  /\ UNCHANGED <<backend, sock, closes, pool, open, lost, running>>

(* An error of the wait.  kqueue compares the uint32_t with -1, which is   *)
(* right; epoll asks whether it is below 0, which it never is.             *)
ErrorResultUnsigned == MaxUint
ErrorResult == IF backend = "kqueue" THEN 0 ELSE MaxUint

WaitFails ==
  /\ Between
  /\ backend \in Interrupted
  /\ result' = ErrorResult
  /\ at' = 1
  /\ failed' = TRUE
  /\ UNCHANGED <<backend, sock, closes, pool, open, lost, reg, events, running>>

(* The next event.  epoll runs no handler for an error without input or    *)
(* output; kqueue calls onRead first when the flags say EOF or error, and  *)
(* then again for the event's filter.  Beyond what was ever reported the   *)
(* array holds nothing the model could name.                               *)
Handler(o, e) == [handler |-> e, obj |-> o]
Handlers(e) ==
  (IF e.eof THEN <<Handler(e.obj, "read")>> ELSE <<>>)
    \o (IF e.what = "error" THEN <<>> ELSE <<Handler(e.obj, e.what)>>)

Dispatch ==
  /\ running = <<>>
  /\ at <= result /\ at <= Len(events)
  /\ running' = Handlers(events[at])
  /\ at' = at + 1
  /\ UNCHANGED <<backend, sock, closes, pool, open, lost, reg, events, result, failed>>

-----------------------------------------------------------------------------
(* The handlers.                                                           *)

(* TcpListener::onRead: accept, which may fail, or add a new TcpSocket.    *)
(* It takes descriptor 0 for a failure, and leaves it open.  The event may *)
(* be of a descriptor that a later listen has overwritten: ::accept gets   *)
(* the one that _socket is now, and fails unless ::listen was done on it.  *)
Added(o) == sock[o] # -1 /\ pool[sock[o]] = o
Taken(fd) == fd > 0
Accept ==
  /\ running # <<>> /\ Head(running).obj = Listener /\ Head(running).handler = "read"
  /\ running' = Tail(running)
  /\ \/ \E fd \in Fds \ open :
          /\ Added(Listener)
          /\ open' = open \cup {fd}
          /\ \/ /\ Taken(fd)
                /\ Len(sock) < MaxObjs
                /\ sock' = Append(sock, fd)
                /\ closes' = Append(closes, 0)
                /\ Add(fd, Len(sock) + 1)
                /\ UNCHANGED lost
             \/ /\ ~Taken(fd)
                /\ lost' = lost \cup {fd}
                /\ UNCHANGED <<sock, closes, pool, reg>>
     \/ UNCHANGED <<sock, closes, pool, open, lost, reg>>
  /\ UNCHANGED <<backend, events, at, result, failed>>

(* What a handler of the application does: onRead, onWrite and             *)
(* _closeHandler of a TcpSocket.  It modifies what was added to the        *)
(* poller, and not a listener whose listen has failed.                     *)
Handle ==
  /\ InHandler
  /\ \/ \E o \in Streams : Close(o)
     \/ \E o \in DOMAIN sock, e \in Filters : (Added(o) /\ Modify(o, e)) \/ Remove(o, e)

Return ==
  /\ running # <<>>
  /\ InHandler \/ Head(running).handler = "write"
  /\ running' = Tail(running)
  /\ UNCHANGED <<backend, sock, closes, pool, open, lost, reg, events, at, result, failed>>

-----------------------------------------------------------------------------
Init ==
  /\ backend \in Backends
  /\ sock = <<-1>>
  /\ closes = <<0>>
  /\ pool = [fd \in Fds |-> 0]
  /\ open = {}
  /\ lost = {}
  /\ reg = [fd \in Fds |-> NoReg]
  /\ events = <<>>
  /\ at = 1
  /\ result = 0
  /\ running = <<>>
  /\ failed = FALSE

Next == Listen \/ ListenFails \/ Wait \/ WaitFails \/ Dispatch \/ Accept \/ Handle \/ Return

Spec == Init /\ [][Next]_vars

-----------------------------------------------------------------------------
(* Type correctness.                                                       *)
TypeOK ==
  /\ backend \in Backends
  /\ Len(sock) \in 1..MaxObjs
  /\ \A o \in DOMAIN sock : sock[o] \in Fds \cup {-1}
  /\ DOMAIN closes = DOMAIN sock
  /\ pool \in [Fds -> 0..Len(sock)]
  /\ open \subseteq Fds /\ lost \subseteq Fds
  /\ reg \in [Fds -> [obj : 0..Len(sock), want : SUBSET Filters]]
  /\ \A i \in DOMAIN events : events[i].obj \in DOMAIN sock
  /\ \A i \in DOMAIN running : running[i].obj \in DOMAIN sock

(* Every open descriptor is the socket of one object, whichever            *)
(* descriptors were closed, and given out again, while events of their old *)
(* owners were still to be handled.  Only getNewSocket, accept for         *)
(* descriptor 0, and a listen that is repeated lose any.                   *)
DescriptorsOwned ==
  /\ open \ lost = {sock[o] : o \in DOMAIN sock} \ {-1}
  /\ \A o, n \in DOMAIN sock : sock[o] = sock[n] /\ o # n => sock[o] = -1

(* What the kernel reports for a descriptor goes to the object that has it *)
(* now, and the pool agrees; a listener also hears of the descriptors that *)
(* a second listen took from it, which nobody else can get.                *)
RegisteredIsOwner ==
  \A fd \in Fds : LET o == reg[fd].obj IN
    o # 0 => pool[fd] = o /\ (sock[o] = fd \/ (o = Listener /\ fd \in lost))

(* A socket's close handler runs exactly once: not again for a later event *)
(* of the same wait, for kqueue's second onRead, or for a close from       *)
(* inside the handler itself.                                              *)
CloseOnce == \A o \in Streams : closes[o] = IF sock[o] = -1 THEN 1 ELSE 0

(* A wait that was interrupted or failed reports nothing: no handler runs  *)
(* until the next wait succeeds.                                           *)
QuietOnError == failed => running = <<>>
=============================================================================
