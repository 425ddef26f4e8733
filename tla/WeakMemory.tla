---------------------------- MODULE WeakMemory ----------------------------
(***************************************************************************)
(* What include/qing/util/atomicops.h gives the queue on a weakly ordered  *)
(* machine: weak_atomic, whose loads and stores are relaxed, and fence.    *)
(*                                                                         *)
(* Every location keeps the sequence of the messages stored to it, and a   *)
(* thread has a view, the index of the newest message it must know of each *)
(* location.  A load may return any message that is not older; it teaches  *)
(* the thread what the message's writer had released, but only an acquire  *)
(* fence makes the thread heed it.  A load never returns a store that is   *)
(* still to come: load buffering is left out.                              *)
(***************************************************************************)
EXTENDS Naturals, Sequences

Join(v, w) == [l \in DOMAIN v |-> IF v[l] < w[l] THEN w[l] ELSE v[l]]
Know(v, loc, i) == [l \in DOMAIN v |-> IF l = loc THEN i ELSE v[l]]

(* A memory m: the messages, and for each thread its view cur, what an     *)
(* acquire fence would make of it (acq), and what its stores release       *)
(* (rel).  At first every thread knows init.                               *)
NewMemory(init, threads) ==
  LET known == [l \in DOMAIN init |-> 1]
  IN [msgs |-> [l \in DOMAIN init |-> <<[val |-> init[l], view |-> known]>>],
      views |-> [t \in threads |-> [cur |-> known, acq |-> known, rel |-> known]]]

Newest(m, l) == Len(m.msgs[l])
Val(m, l, i) == m.msgs[l][i].val
Latest(m, l) == Val(m, l, Newest(m, l))

(* weak_atomic::load of message i, one of those that t may still read.     *)
Readable(m, t, l) == m.views[t].cur[l]..Newest(m, l)
Load(m, t, l, i) ==
  [m EXCEPT !.views[t] = [cur |-> Know(@.cur, l, i), acq |-> Join(@.acq, m.msgs[l][i].view),
                          rel |-> @.rel]]

(* weak_atomic::operator=.                                                 *)
Store(m, t, l, x) ==
  LET n == Newest(m, l) + 1
  IN [m EXCEPT !.msgs[l] = Append(@, [val |-> x, view |-> Know(m.views[t].rel, l, n)]),
               !.views[t] = [cur |-> Know(@.cur, l, n), acq |-> Know(@.acq, l, n),
                             rel |-> @.rel]]

(* An access that is not atomic.  It is a data race if another thread's    *)
(* last write to the place does not happen before it.                      *)
Write(m, t, l, x) ==
  LET n == Newest(m, l) + 1
  IN [m EXCEPT !.msgs[l] = Append(@, [val |-> x, view |-> <<>>]),
               !.views[t] = [cur |-> Know(@.cur, l, n), acq |-> Know(@.acq, l, n),
                             rel |-> @.rel]]
Read(m, t, l) == Val(m, l, m.views[t].cur[l])
Raced(m, t, l) == m.views[t].cur[l] # Newest(m, l)

(* fence, which also keeps the CPU's order.                                *)
Acquires(order) == order \in {"acquire", "acq_rel", "seq_cst"}
Releases(order) == order \in {"release", "acq_rel", "seq_cst"}
Fence(m, t, order) ==
  LET cur == IF Acquires(order) THEN m.views[t].acq ELSE m.views[t].cur
  IN [m EXCEPT !.views[t] = [cur |-> cur, acq |-> @.acq,
                             rel |-> IF Releases(order) THEN cur ELSE @.rel]]

(* compiler_fence: another CPU does not notice.                            *)
CompilerFence(m, t, order) == m
=============================================================================
