--------------------------- MODULE ResearchPromise ---------------------------
(***************************************************************************)
(* What an invocation of research promises about the disposition table,     *)
(* whatever calls, fetches and crashes it meets: it settles each domain it  *)
(* took on at most once, leaves the others and every client's answer alone, *)
(* and calls a domain evidenced only with the sources to show for it.       *)
(***************************************************************************)
EXTENDS Naturals

CONSTANTS Domains, Rows, MinSources, None

VARIABLES
    rows,  \* the disposition row of each domain, or None
    todo   \* the domains the invocation may still settle

Client(row) == row # None /\ row.disposition = "CLIENT_CONFIRMED"

Init ==
    /\ rows \in [Domains -> Rows \cup {None}]
    /\ todo = {}

\* An invocation takes on domains that no client has answered for.
Start ==
    /\ todo = {}
    /\ todo' \in SUBSET {d \in Domains : ~Client(rows[d])}
    /\ UNCHANGED rows

Settle(d) ==
    /\ d \in todo
    /\ todo' = todo \ {d}
    /\ rows' = [rows EXCEPT ![d] = rows'[d]]
    /\ rows'[d] \in Rows
    /\ rows'[d].disposition # "CLIENT_CONFIRMED"
    /\ rows'[d].disposition = "EVIDENCED_PUBLIC" => rows'[d].sources >= MinSources

\* A domain that failed, or all that a dying process had left.
Leave ==
    /\ todo' \in SUBSET todo
    /\ UNCHANGED rows

Next == Start \/ Leave \/ \E d \in Domains : Settle(d)

Spec == Init /\ [][Next]_<<rows, todo>>
=============================================================================
