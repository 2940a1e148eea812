------------------------------ MODULE FifoQueue ------------------------------
(***************************************************************************)
(* What the string queue of utils.c promises its users: items come out one *)
(* at a time, each once, in the order they went in, and `nothing' is the   *)
(* answer only when nothing is there.  Each operation is one step.         *)
(***************************************************************************)
EXTENDS Naturals, Sequences

CONSTANTS Items,  (* what can be queued                                    *)
          None    (* the answer of an empty queue                          *)

VARIABLES queue,  (* the items put and not yet taken, oldest first         *)
          hand    (* the item the one consumer has taken, or None          *)

vars == <<queue, hand>>

Queued == {queue[i] : i \in 1..Len(queue)}

Init == queue = <<>> /\ hand = None

Put(item) ==
  /\ item \notin Queued \cup {hand}
  /\ queue' = Append(queue, item)
  /\ UNCHANGED hand

Take ==
  /\ queue # <<>>
  /\ hand = None
  /\ hand' = Head(queue)
  /\ queue' = Tail(queue)

Release ==
  /\ hand # None
  /\ hand' = None
  /\ UNCHANGED queue

Next == (\E item \in Items : Put(item)) \/ Take \/ Release

Spec == Init /\ [][Next]_vars

=============================================================================
