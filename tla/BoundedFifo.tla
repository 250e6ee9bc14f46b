---------------------------- MODULE BoundedFifo ----------------------------
(* What a bounded queue between two threads promises: items come out once, in *)
(* the order they went in, and there are never more than Bound of them.       *)
EXTENDS Integers, Sequences

CONSTANTS Item, Bound

VARIABLES
    q,      \* the items put and not yet taken, oldest first
    popped  \* the last item taken

Put(x) == Len(q) < Bound /\ q' = Append(q, x) /\ UNCHANGED popped
Get    == q # <<>> /\ popped' = Head(q) /\ q' = Tail(q)

Init == q = <<>> /\ popped \in Item
Next == Get \/ \E x \in Item : Put(x)
Spec == Init /\ [][Next]_<<q, popped>>
=============================================================================
