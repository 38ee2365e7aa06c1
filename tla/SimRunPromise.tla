--------------------------- MODULE SimRunPromise ---------------------------
(***************************************************************************)
(* What a simulation run promises to whoever polls it, with no workers, no   *)
(* queue and no crashes: the completed passes only ever grow, and a result   *)
(* appears at most once, together with the last pass.                        *)
(***************************************************************************)
EXTENDS Naturals

CONSTANTS Runs, Passes

VARIABLES
    done,       \* passes of each run that will never be computed again
    published   \* runs whose result can be read

vars == <<done, published>>

Init ==
    /\ done = [r \in Runs |-> 0]
    /\ published = {}

\* A checkpoint: any number of further passes become durable.
Advance(r) ==
    /\ \E n \in 0..Passes :
          /\ n > done[r]
          /\ done' = [done EXCEPT ![r] = n]
    /\ UNCHANGED published

Publish(r) ==
    /\ r \notin published
    /\ done' = [done EXCEPT ![r] = Passes]
    /\ published' = published \cup {r}

Next == \E r \in Runs : Advance(r) \/ Publish(r)

Spec == Init /\ [][Next]_vars
============================================================================
