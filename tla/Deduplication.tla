--------------------------- MODULE Deduplication ---------------------------
(***************************************************************************)
(* The table of fingerprints (src/deduplication/engine.py).  An alert is a *)
(* duplicate while an unexpired row has its fingerprint.  Rows are never   *)
(* updated or deleted, and the clock does not go back, so that of all rows *)
(* of a fingerprint only the latest expiry matters.                        *)
(***************************************************************************)
EXTENDS Integers

CONSTANTS
    Fingerprints,  \* the values of NormalizedAlert.fingerprint
    Window,        \* correlation_window_minutes
    MaxTime        \* bound on the clock

ASSUME DeduplicationAssumption == Window \in Nat \ {0} /\ MaxTime \in Nat

VARIABLES
    now,     \* the clock
    expires  \* the latest expires_at of a fingerprint, 0 when it has no row

Fresh == now = 0 /\ expires = [f \in Fingerprints |-> 0]

\* is_duplicate: its own session.
IsDuplicate(f) == expires[f] > now

\* (variant: the window is never written)
MarkForgets(f) == expires' = [expires EXCEPT ![f] = now]
\* mark_as_seen: its own session.  A failed insert is logged and changes nothing.
MarkAsSeen(f) == expires' = [expires EXCEPT ![f] = now + Window]

Tick == now < MaxTime /\ now' = now + 1 /\ UNCHANGED expires
=============================================================================
