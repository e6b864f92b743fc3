----------------------------- MODULE RateLimit -----------------------------
(***************************************************************************)
(* The rate limiting middleware (src/api/middleware/rate_limit.py).        *)
(*                                                                         *)
(* A client is a (role, address) pair.  It has two sliding window counters *)
(* over the same window: one with the role's limit ("sustained"), one with *)
(* the burst limit.  Every request is offered to both and passes when      *)
(* either has room.  dispatch() does not await between the two calls, so   *)
(* an arrival is one step.  Counters live in the process and start empty;  *)
(* _cleanup_stale is not called by anything and is not modelled.  Requests *)
(* that dispatch passes on unseen (SKIP_PATHS, APP_ENV=testing) touch no   *)
(* counter and are not arrivals.                                           *)
(***************************************************************************)
EXTENDS Integers, FiniteSets, Sequences

CONSTANTS
    Clients,     \* the (role, address) pairs that send requests
    Limit,       \* Limit[c]: requests per window for the role of client c
    Percent,     \* Percent[c]: BURST_MULTIPLIER of the role, in hundredths
    BurstCap,    \* RATE_LIMIT_BURST
    Window,      \* length of both windows, in clock ticks
    MaxTime,     \* bound on the clock
    MaxArrivals  \* bound on the number of requests

ASSUME RateAssumption ==
    /\ Limit \in [Clients -> Nat]
    /\ Percent \in [Clients -> Nat]
    /\ BurstCap \in Nat
    /\ Window \in Nat \ {0}
    /\ MaxTime \in Nat /\ MaxArrivals \in Nat

\* min(int(limit * burst_mult), cfg.rate_limit_burst)
BurstLimit(c) ==
    LET scaled == (Limit[c] * Percent[c]) \div 100
    IN  IF scaled < BurstCap THEN scaled ELSE BurstCap

\* What the two counters amount to.
Larger(c) == IF BurstLimit(c) < Limit[c] THEN Limit[c] ELSE BurstLimit(c)

VARIABLES
    now,        \* time.time(), in ticks; it does not go back
    arrivals,   \* the requests so far, [client, time]; an entry is a position in it
    sustained,  \* entries of each client's sustained counter
    burst,      \* entries of each client's burst counter
    admitted    \* the requests that were passed on to a handler

vars == <<now, arrivals, sustained, burst, admitted>>

\* (variant that keeps an entry exactly one window old)
KeptAtCutoff(entries) == {n \in entries : arrivals[n].time >= now - Window}
\* entries = [t for t in entries if t > cutoff]
Kept(entries) == {n \in entries : arrivals[n].time > now - Window}

\* (variant with <= for <)
HasRoomOneMore(entries, limit) == Cardinality(entries) <= limit
\* len(entries) < limit
HasRoom(entries, limit) == Cardinality(entries) < limit

\* (variant that records the next request instead)
OfferedNext(entries, limit, n) ==
    IF HasRoom(Kept(entries), limit) THEN Kept(entries) \cup {n + 1} ELSE Kept(entries)
\* SlidingWindowCounter.allow: the entries it leaves when request n is offered.
Offered(entries, limit, n) ==
    IF HasRoom(Kept(entries), limit) THEN Kept(entries) \cup {n} ELSE Kept(entries)

Allowed(c) == \/ HasRoom(Kept(sustained[c]), Limit[c])
              \/ HasRoom(Kept(burst[c]), BurstLimit(c))

Init ==
    /\ now = 0
    /\ arrivals = <<>>
    /\ sustained = [c \in Clients |-> {}]
    /\ burst = [c \in Clients |-> {}]
    /\ admitted = {}

Arrive(c) ==
    LET n == Len(arrivals) + 1
    IN  /\ Len(arrivals) < MaxArrivals
        /\ arrivals' = Append(arrivals, [client |-> c, time |-> now])
        /\ sustained' = [sustained EXCEPT ![c] = Offered(@, Limit[c], n)]
        /\ burst' = [burst EXCEPT ![c] = Offered(@, BurstLimit(c), n)]
        /\ admitted' = IF Allowed(c) THEN admitted \cup {n} ELSE admitted
        /\ UNCHANGED now

Tick ==
    /\ now < MaxTime
    /\ now' = now + 1
    /\ UNCHANGED <<arrivals, sustained, burst, admitted>>

Exhausted == now = MaxTime /\ Len(arrivals) = MaxArrivals /\ UNCHANGED vars

Next == Tick \/ (\E c \in Clients : Arrive(c)) \/ Exhausted

Spec == Init /\ [][Next]_vars

-----------------------------------------------------------------------------
(* Properties *)

Positions == 1..Len(arrivals)

\* The counters hold positions of requests of their own client only.
TypeOK ==
    /\ now \in Nat
    /\ arrivals \in Seq([client : Clients, time : Nat])
    /\ sustained \in [Clients -> SUBSET Positions]
    /\ burst \in [Clients -> SUBSET Positions]
    /\ admitted \subseteq Positions
    /\ \A c \in Clients : \A n \in sustained[c] \cup burst[c] : arrivals[n].client = c

AdmittedSince(c, t) == {n \in admitted : arrivals[n].client = c /\ arrivals[n].time > t}

\* Although a request passes when either counter has room, no window of one minute,
\* wherever it ends, lets more requests of a client through than the larger limit.
WindowBound ==
    \A c \in Clients : Cardinality(AdmittedSince(c, now - Window)) <= Larger(c)

\* What the pair of counters comes to: one window with the larger limit, which refuses a
\* request only when that many were admitted within the last window.  (The limit of the
\* role plays no part where the burst limit exceeds it: see RoleLimitEnforced.)
Single == INSTANCE WindowLimiter WITH Bound <- [c \in Clients |-> Larger(c)]
ActsAsOneWindow == Single!WindowSpec

\* "Per-role rate limiting enforced (... analyst: 100/min ...)"
\* (docs/wazuh-integration.md:345): no minute admits more requests of a client than the
\* limit of its role.  The code lets a request pass when only the burst counter has room.
RoleLimitEnforced ==
    \A c \in Clients : Cardinality(AdmittedSince(c, now - Window)) <= Limit[c]
=============================================================================
