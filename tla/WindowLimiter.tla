--------------------------- MODULE WindowLimiter ---------------------------
(***************************************************************************)
(* A limiter with one sliding window per client, in which at most Bound[c] *)
(* requests are admitted and below which none is refused.                  *)
(***************************************************************************)
EXTENDS Integers, FiniteSets, Sequences

CONSTANTS Clients, Window, Bound

VARIABLES now,       \* the clock
          arrivals,  \* every request so far: its client and its arrival time
          admitted   \* the numbers of the requests that were let through

windowVars == <<now, arrivals, admitted>>

\* The requests of client c that were admitted within the last Window ticks.
Recent(c) == {n \in admitted : /\ arrivals[n].client = c
                               /\ arrivals[n].time > now - Window}

WindowInit == now = 0 /\ arrivals = <<>> /\ admitted = {}

WindowTick == now' > now /\ UNCHANGED <<arrivals, admitted>>

WindowArrive(c) ==
    /\ arrivals' = Append(arrivals, [client |-> c, time |-> now])
    /\ admitted' = IF Cardinality(Recent(c)) < Bound[c]
                   THEN admitted \cup {Len(arrivals) + 1} ELSE admitted
    /\ UNCHANGED now

WindowNext == WindowTick \/ \E c \in Clients : WindowArrive(c)

WindowSpec == WindowInit /\ [][WindowNext]_windowVars
=============================================================================
