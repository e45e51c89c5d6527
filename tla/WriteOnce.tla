------------------------------ MODULE WriteOnce ------------------------------
(***************************************************************************)
(* What the effect ledger promises about one effect, without its rows,     *)
(* caches, locks, leases and crashes: at any moment at most one caller     *)
(* owns the effect, and once a success is on record nobody owns it again.  *)
(* This is the sentence in the docstring of run_once, "at most once per    *)
(* turn + action", read as far as an attempt that never reported back      *)
(* allows: such an attempt leaves the effect open, and it may be owned     *)
(* again.                                                                  *)
(***************************************************************************)
CONSTANTS Callers, NoCaller

VARIABLES
    owner,  \* the caller carrying the effect out, or NoCaller
    done    \* a success is on record

vars == <<owner, done>>

Init ==
    /\ owner = NoCaller
    /\ done = FALSE

Own(c) ==
    /\ owner = NoCaller
    /\ ~done
    /\ owner' = c
    /\ UNCHANGED done

\* The owner stops: with a success on record, or with the effect still open.
Settle ==
    /\ owner \in Callers
    /\ owner' = NoCaller
    /\ done' \in BOOLEAN

Next ==
    \/ \E c \in Callers : Own(c)
    \/ Settle

Spec == Init /\ [][Next]_vars
=============================================================================
