----------------------------- MODULE Enrichment ----------------------------
(***************************************************************************)
(* EnrichmentEngine (src/enrichment/engine.py) over the TTLCache that all  *)
(* its providers share (src/core/cache.py).  A task is one call of         *)
(* enrich_incident(): for each source address it asks the four feeds in    *)
(* turn.  Nothing locks the cache, so tasks on different threads           *)
(* interleave between looking an entry up, deleting it when it has expired *)
(* and storing a new one.                                                  *)
(***************************************************************************)
EXTENDS Naturals, Sequences

CONSTANTS
    Tasks, IPs, NoIP,
    Configured,  \* feeds with an API key or a database file
    TTL,         \* lifetime of a cache entry
    MaxTime      \* bound: the clock stops there

FeedOrder == <<"abuseipdb", "virustotal", "geoip", "asn">>
Feeds == {FeedOrder[n] : n \in DOMAIN FeedOrder}

ASSUME EnrichmentAssumption ==
    /\ Configured \subseteq Feeds
    /\ TTL \in Nat \ {0} /\ MaxTime \in Nat
    /\ NoIP \notin IPs

\* The feeds behind an API key, which is looked at before the cache; these are retried.
Keyed == {"abuseipdb", "virustotal"}
Attempts(f) == IF f \in Keyed THEN 2 ELSE 1

\* GeoIP and ASN say nothing of an address's reputation.
Reputations(f) ==
    CASE f = "abuseipdb" -> {"malicious", "clean"}
      [] f = "virustotal" -> {"malicious", "suspicious", "clean"}
      [] OTHER -> {"located"}

Verdicts == {"malicious", "suspicious", "clean", "located"}

\* Why a feed contributed nothing: no key or database, its lookup failed, an exception
\* left enrich() because its answer could not be read, or because the entry to delete
\* had gone.
Silences == {"unconfigured", "failed", "unreadable", "missing key"}

VARIABLES
    now,
    cache,  \* the entry of a feed for an address, or NoEntry
    task,   \* how far each call is
    intel   \* what each call heard of its addresses

enrichmentVars == <<now, cache, task, intel>>

Keys == Feeds \X IPs
Entry == [verdict : Verdicts, at : Nat]
NoEntry == [verdict |-> "absent", at |-> 0]
Stored(k) == cache[k] # NoEntry
Fresh(k) == Stored(k) /\ now - cache[k].at < TTL

Unasked == [ip \in IPs |-> [f \in Feeds |-> "unasked"]]
Outcomes == Verdicts \cup Silences \cup {"unasked"}

NotCalled == [pc |-> "idle", todo |-> {}, ip |-> NoIP, feed |-> 1, attempt |-> 1, since |-> 0]
Stages == {"next", "looking", "evicting", "asking"}

Feed(t) == FeedOrder[task[t].feed]
Key(t) == <<Feed(t), task[t].ip>>

\* The process has been running: entries of its past are still stored.
EnrichmentInit ==
    /\ now = 0
    /\ cache \in [Keys -> [verdict : Verdicts, at : {0}] \cup {NoEntry}]
    /\ \A k \in Keys : Stored(k) => cache[k].verdict \in Reputations(k[1]) /\ k[1] \in Configured
    /\ task = [t \in Tasks |-> NotCalled]
    /\ intel = [t \in Tasks |-> Unasked]

\* A call between two addresses, and one that looks a feed up.
Between(todo) ==
    [pc |-> "next", todo |-> todo, ip |-> NoIP, feed |-> 1, attempt |-> 1, since |-> 0]
Looking(todo, ip, feed, attempt, since) ==
    [pc |-> "looking", todo |-> todo, ip |-> ip, feed |-> feed, attempt |-> attempt,
     since |-> since]

Enrich(t, sourceIps) ==
    /\ task[t].pc = "idle"
    /\ task' = [task EXCEPT ![t] = Between(sourceIps)]
    /\ UNCHANGED <<now, cache, intel>>

\* enrich_ip of the next address.
EnrichIp(t, ip) ==
    /\ task[t].pc = "next" /\ ip \in task[t].todo
    /\ task' = [task EXCEPT ![t] = Looking(@.todo \ {ip}, ip, 1, 1, now)]
    /\ UNCHANGED <<now, cache, intel>>

\* A feed is done with; after the last one, so is the address.
Heard(t, outcome) ==
    /\ intel' = [intel EXCEPT ![t][task[t].ip][Feed(t)] = outcome]
    /\ task' = [task EXCEPT ![t] =
                   IF @.feed = Len(FeedOrder) THEN Between(@.todo)
                   ELSE Looking(@.todo, @.ip, @.feed + 1, 1, now)]

\* (variant without a second attempt)
RaisedOnce(t, why) == Heard(t, why)
\* An exception that enrich() lets out: @retry calls it again, or enrich_ip logs it.
RaisedBy(t, why) ==
    IF task[t].attempt < Attempts(Feed(t))
    THEN /\ task' = [task EXCEPT ![t] =
                         Looking(@.todo, @.ip, @.feed, @.attempt + 1, @.since)]
         /\ UNCHANGED intel
    ELSE Heard(t, why)

GoOn(t, stage) == task' = [task EXCEPT ![t].pc = stage] /\ UNCHANGED intel

\* The key, then the cache, then the database file.
Look(t) ==
    LET f == Feed(t)
        k == Key(t)
    IN  /\ task[t].pc = "looking"
        /\ \/ f \in Keyed \ Configured /\ Heard(t, "unconfigured")
           \/ f \notin Keyed \ Configured /\ Fresh(k) /\ Heard(t, cache[k].verdict)
           \/ f \notin Keyed \ Configured /\ Stored(k) /\ ~Fresh(k) /\ GoOn(t, "evicting")
           \/ f \in Configured /\ ~Stored(k) /\ GoOn(t, "asking")
           \/ f \notin Keyed \cup Configured /\ ~Stored(k) /\ Heard(t, "unconfigured")
        /\ UNCHANGED <<now, cache>>

\* `del` of an expired entry.  By now another task may have deleted it, or replaced it.
Evict(t) ==
    /\ task[t].pc = "evicting"
    /\ cache' = [cache EXCEPT ![Key(t)] = NoEntry]
    /\ IF Stored(Key(t)) THEN GoOn(t, "asking") ELSE RaisedBy(t, "missing key")
    /\ UNCHANGED now

\* The request, or the reading of the database file.
Ask(t) ==
    /\ task[t].pc = "asking"
    /\ \/ \E verdict \in Reputations(Feed(t)) :
             /\ cache' = [cache EXCEPT ![Key(t)] = [verdict |-> verdict, at |-> now]]
             /\ Heard(t, verdict)
       \/ Heard(t, "failed") /\ UNCHANGED cache
       \/ Feed(t) \in Keyed /\ RaisedBy(t, "unreadable") /\ UNCHANGED cache
    /\ UNCHANGED now

\* Time passes, but a lookup, whose requests time out, does not outlast an entry.
Tick ==
    /\ now < MaxTime
    /\ \A t \in Tasks : task[t].pc \in Stages \ {"next"} => now + 1 - task[t].since < TTL
    /\ now' = now + 1
    /\ UNCHANGED <<cache, task, intel>>

EnrichStep(t) == (\E ip \in IPs : EnrichIp(t, ip)) \/ Look(t) \/ Evict(t) \/ Ask(t)

\* enrich_incident returns.
Enriched(t) == task[t].pc = "next" /\ task[t].todo = {}

-----------------------------------------------------------------------------
(* What is made of the feeds *)

\* The merge goes through the feeds in order: a later reputation replaces an earlier one.
Reputation(heard) ==
    IF heard["virustotal"] \in Verdicts THEN heard["virustotal"] ELSE heard["abuseipdb"]

\* threat_intel_hit
ThreatIntelHit(t) == \E ip \in IPs : intel[t][ip]["abuseipdb"] = "malicious"

\* (variant that looks at the merged reputation only)
MergedOnly(t) == \E ip \in IPs : Reputation(intel[t][ip]) = "malicious"
\* What score_incident takes for a threat: the flag, or a merged reputation.
ThreatHit(t) ==
    ThreatIntelHit(t) \/ \E ip \in IPs : Reputation(intel[t][ip]) = "malicious"
=============================================================================
