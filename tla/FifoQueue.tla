----------------------------- MODULE FifoQueue -----------------------------
(***************************************************************************)
(* What MQueue promises: values are taken in the order they were put, each *)
(* once; Close refuses further puts but leaves what is queued to be taken. *)
(***************************************************************************)
EXTENDS Sequences

CONSTANT Messages

VARIABLES
    q,      \* the queued values, oldest first
    out,    \* the values taken so far, in order
    open    \* puts are accepted

Init == q = <<>> /\ out = <<>> /\ open = TRUE

Put(v) == open /\ q' = Append(q, v) /\ UNCHANGED <<out, open>>

Take ==
    /\ q # <<>>
    /\ out' = Append(out, Head(q))
    /\ q' = Tail(q)
    /\ UNCHANGED open

Close == open' = FALSE /\ UNCHANGED <<q, out>>

Next == (\E v \in Messages : Put(v)) \/ Take \/ Close

Spec == Init /\ [][Next]_<<q, out, open>>
=============================================================================
