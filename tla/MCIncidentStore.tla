-------------------------- MODULE MCIncidentStore --------------------------
(* Small instances of IncidentStore.  Two seeded incidents share no alert;  *)
(* one of them has two, so that a split can leave something behind.         *)
EXTENDS IncidentStore, TLC

CONSTANTS a1, a2, a3, i1, i2

MCAlerts == {a1, a2, a3}
MCSeeds == {i1, i2}
MCSeedAlerts == (i1 :> {a1, a2}) @@ (i2 :> {a3})
MCAttribute == [a \in MCAlerts |-> a]
MCEventId == [a \in MCAlerts |-> <<"event_id", a>>]

Put(i, s) == [op |-> "update", target |-> i, status |-> s]
Plain(op, i) == [op |-> op, target |-> i]
Merge(ids) == [op |-> "merge", ids |-> ids]
Split(i, A) == [op |-> "split", target |-> i, alerts |-> A]

\* Calls on one seeded incident and on the incident a split creates.
SerialCalls ==
    {Put(i1, "resolved"), Put(i1, "false_positive"), Plain("delete", i2),
     Plain("note", i1), Merge(<<i1, i2>>), Merge(<<i2, i1>>), Merge(<<i1, i1>>),
     Split(i1, {a1}), Split(i2, {a1, a3}), Split(i1, {a3})}
    \cup {Merge(<<i1, q>>) : q \in Requests}

OverlapCalls ==
    {Put(i1, "open"), Put(i1, "other"), Put(i1, "resolved"), Put(i1, "false_positive"),
     Plain("delete", i1), Plain("delete", i2), Plain("note", i1),
     Merge(<<i1, i2>>), Merge(<<i2, i1>>), Split(i1, {a1, a3}), Split(i1, {a1, a2})}

RequestSymmetry == Permutations(Requests)
=============================================================================
