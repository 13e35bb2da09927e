------------------------------- MODULE Mutex --------------------------------
(***************************************************************************)
(* What locks promise: of the threads that have taken a lock and not given *)
(* it back there is at most one.  In one clock several locks may change    *)
(* hands, but the same lock is not left and entered at once.               *)
(***************************************************************************)
CONSTANTS
  Thread,
  Lock

VARIABLE inside    \* for each lock, the threads that are inside

Init == inside = [k \in Lock |-> {}]

Enter(t, k) == inside[k] = {} /\ inside'[k] = {t}

Leave(t, k) == inside[k] = {t} /\ inside'[k] = {}

Next ==
  /\ inside' \in [Lock -> SUBSET Thread]
  /\ \A k \in Lock :
       \/ inside'[k] = inside[k]
       \/ \E t \in Thread : Enter(t, k) \/ Leave(t, k)

Spec == Init /\ [][Next]_inside

=============================================================================
