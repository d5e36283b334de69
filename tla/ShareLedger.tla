---------------------------- MODULE ShareLedger ----------------------------
(***************************************************************************)
(* The books of a client, as a user reads them: what becomes of a share    *)
(* between the miner that found it and the counter that shows it.  No       *)
(* session, socket or line is in it, only what a share may go through.      *)
(***************************************************************************)
EXTENDS Naturals, FiniteSets

CONSTANT FirstId    \* ids under it are of requests that are no shares

VARIABLES
    awaited,    \* ids of the shares submitted and not yet resolved
    next,       \* the id of the next submission
    books       \* the counters

ledgerVars == <<awaited, next, books>>

Init ==
    /\ awaited = {} /\ next = FirstId
    /\ books = [submitted |-> 0, accepted |-> 0, rejected |-> 0, stale |-> 0]

Entered(field, n) == [books EXCEPT ![field] = @ + n]

(* A share that is out of date is not submitted, but shown as stale. *)
Refuse ==
    /\ books' = Entered("stale", 1)
    /\ UNCHANGED <<awaited, next>>

(* A submission has an id that none had before it. *)
Submit ==
    /\ awaited' = awaited \cup {next} /\ next' = next + 1
    /\ books' = Entered("submitted", 1)

(* One answer resolves one share, once, to one outcome. *)
Resolve ==
    /\ \E id \in awaited : awaited' = awaited \ {id}
    /\ \E outcome \in {"accepted", "rejected", "stale"} : books' = Entered(outcome, 1)
    /\ UNCHANGED next

(* With the session, the answers that were still to come: all or none. *)
Lose ==
    /\ awaited # {} /\ awaited' = {}
    /\ books' = Entered("stale", Cardinality(awaited))
    /\ UNCHANGED next

Next == Refuse \/ Submit \/ Resolve \/ Lose

Spec == Init /\ [][Next]_ledgerVars
=============================================================================
