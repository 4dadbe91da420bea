------------------------------- MODULE Lists -------------------------------
(***************************************************************************)
(* The operation on lists that the queues and lists of threads share.      *)
(***************************************************************************)
EXTENDS Integers, Sequences

(* remove_if: the list without the thread t. *)
Erased(queue, t) ==
    LET upTo[n \in 0..Len(queue)] ==
            IF n = 0 THEN <<>>
            ELSE IF queue[n] = t THEN upTo[n - 1] ELSE Append(upTo[n - 1], queue[n])
    IN  upTo[Len(queue)]
=============================================================================
