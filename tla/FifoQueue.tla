----------------------------- MODULE FifoQueue -----------------------------
(***************************************************************************)
(* What moodycamel::ReaderWriterQueue promises: one first-in first-out     *)
(* queue, whose operations take effect at one instant.                     *)
(***************************************************************************)
EXTENDS Sequences, Naturals

VARIABLES
  q,     \* the elements, the oldest one first
  sent,  \* how many elements have been enqueued; the n-th one is n
  got,   \* what the consumer was given last by try_dequeue or peek
  gone   \* the queue has been destroyed, with what was left in it

fvars == <<q, sent, got, gone>>

Enqueue == sent' = sent + 1 /\ q' = Append(q, sent + 1) /\ UNCHANGED got
Dequeue == q # <<>> /\ got' = Head(q) /\ q' = Tail(q) /\ UNCHANGED sent
Pop == q # <<>> /\ q' = Tail(q) /\ UNCHANGED <<got, sent>>
Peek == q # <<>> /\ got' = Head(q) /\ UNCHANGED <<q, sent>>
Use == ~gone /\ (Enqueue \/ Dequeue \/ Pop \/ Peek) /\ UNCHANGED gone
Destroy == ~gone /\ gone' = TRUE /\ q' = <<>> /\ UNCHANGED <<got, sent>>

Init == q = <<>> /\ sent = 0 /\ got = 0 /\ gone = FALSE
Next == Use \/ Destroy
Spec == Init /\ [][Next]_fvars
=============================================================================
