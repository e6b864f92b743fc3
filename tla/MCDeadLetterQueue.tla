------------------------ MODULE MCDeadLetterQueue --------------------------
(***************************************************************************)
(* Operations are interchangeable, and so are the records they find.  The  *)
(* run notes whether two operations were ever in progress at once: some    *)
(* promises are only kept as long as they were not.                        *)
(***************************************************************************)
EXTENDS DeadLetterQueue, TLC

VARIABLE overlapped

MCInit == Init /\ overlapped = FALSE
MCNext == Next /\ overlapped' = (overlapped \/ Cardinality(Busy') > 1)
MCSpec == MCInit /\ [][MCNext]_<<vars, overlapped>>

Symmetry == Permutations(Requests) \cup Permutations(Stored)

\* Without overlap, retry_count is the number of retries, of those too whose gauge
\* update failed or was cut short by a crash.
RetryCountExact ==
    ~overlapped =>
        \A r \in DOMAIN queue : queue[r].retries = Cardinality(Retries(r))

\* Without overlap, an operation that reports success leaves the gauge at the depth of
\* the queue, also after earlier ones failed half-way or the process was restarted.
SuccessRefreshesGauge ==
    [][~overlapped' => \A q \in Requests :
           pc[q] # "ok" /\ pc'[q] = "ok" => gauge' = Cardinality(Pending')]_<<vars, overlapped>>
=============================================================================
