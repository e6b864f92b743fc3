------------------------ MODULE IncidentStoreProofs ------------------------
(***************************************************************************)
(* Theorems about IncidentStore, for any number of alerts, seed incidents  *)
(* and requests, and for any set of calls.  The first sections hold under  *)
(* any interleaving of handlers: references between the tables, the fate   *)
(* of linked alerts, the truth of the audit trail, the dates of closed     *)
(* incidents, and the false-positive tally.  The last ones are about a     *)
(* store that is served by one worker.                                     *)
(***************************************************************************)
EXTENDS IncidentStore, FiniteSetTheorems, TLAPS

-----------------------------------------------------------------------------
(* What a session holds while its handler runs *)

\* Link rows are finitely many, so counting them gives a number.
FiniteRows ==
    /\ IsFiniteSet(links)
    /\ \A q \in Requests : IsFiniteSet(rows[q])

\* Up to its commit, a handler holds exactly the incidents its call names, and the
\* collections it has still to load are among them.
SessionLoaded(q) ==
    /\ DOMAIN seen[q] = Named(call[q])
    /\ \A k \in DOMAIN pending[q] : pending[q][k] \in Named(call[q])

SessionsLoaded ==
    \A q \in Requests :
        /\ pc[q] \in Running => WellFormed(call[q])
        /\ pc[q] \in {"loading", "ready"} => SessionLoaded(q)

\* Statistics rows are never deleted: those a session has read are still there.
StatsPersist ==
    \A q \in Requests : DOMAIN seenStats[q] \subseteq DOMAIN stats

TypeInv == TypeOK /\ FiniteRows /\ SessionsLoaded /\ StatsPersist

-----------------------------------------------------------------------------
(* Facts about calls, rows and sets *)

\* A call carries the fields its kind of request needs.
LEMMA CallShape ==
    ASSUME NEW c \in Calls
    PROVE  /\ c.op \in {"update", "delete", "note", "merge", "split"}
           /\ c.op = "merge" => c.ids \in Seq(IncidentIds)
           /\ c.op # "merge" => c.target \in IncidentIds
           /\ c.op = "split" => c.alerts \subseteq Alerts
           /\ c.op = "update" => c.status \in Statuses \cup {NoStatus}
           /\ Named(c) \subseteq IncidentIds
  BY StoreAssumption
     DEF UpdateCalls, PlainCalls, MergeCalls, SplitCalls, Named

\* A well-formed call names its target.
LEMMA TargetNamed ==
    ASSUME NEW c \in Calls, WellFormed(c)
    PROVE  Target(c) \in Named(c)
  BY CallShape DEF Target, Named, WellFormed

\* The collections a handler iterates over belong to incidents its call names.
LEMMA CollectionsNamed ==
    ASSUME NEW c \in Calls, WellFormed(c)
    PROVE  /\ Collections(c) \in Seq(IncidentIds)
           /\ \A k \in DOMAIN Collections(c) : Collections(c)[k] \in Named(c)
  BY CallShape DEF Collections, Named, WellFormed, IsMark

\* Writing a row column by column keeps its shape.
LEMMA FlushType ==
    ASSUME NEW read \in IncidentRow, NEW set \in IncidentRow, NEW stored \in IncidentRow
    PROVE  Flush(read, set, stored) \in IncidentRow
  BY DEF Flush, Column, IncidentRow

LEMMA FlushStatType ==
    ASSUME NEW read \in StatRow, NEW set \in StatRow, NEW stored \in StatRow
    PROVE  FlushStat(read, set, stored) \in StatRow
  BY DEF FlushStat, Column, StatRow

\* A mark keeps the weight between the floor and 1.0.
LEMMA MarkedType ==
    ASSUME NEW stat \in StatRow
    PROVE  Marked(stat) \in StatRow
  BY DEF Marked, StatRow

LEMMA UpdatedRowType ==
    ASSUME NEW row \in IncidentRow, NEW status \in Statuses \cup {NoStatus}
    PROVE  UpdatedRow(row, status) \in IncidentRow
  BY DEF UpdatedRow, IncidentRow, Statuses, Closing

LEMMA CopyType ==
    ASSUME NEW r \in LinkRow, NEW i \in IncidentIds, NEW rule \in Rules, NEW q \in Requests
    PROVE  Copy(r, i, rule, q) \in LinkRow
  BY DEF Copy, LinkRow, IncidentIds

\* A set of copies of finitely many rows is finite.
LEMMA CopiesFinite ==
    ASSUME NEW S, IsFiniteSet(S), NEW i, NEW rule, NEW q
    PROVE  IsFiniteSet({Copy(r, i, rule, q) : r \in S})
<1> DEFINE T == {Copy(r, i, rule, q) : r \in S}
           f == [r \in S |-> Copy(r, i, rule, q)]
<1>1. f \in Surjection(S, T)
  BY DEF Surjection
<1> QED
  BY <1>1, FS_Surjection

\* The link rows of one seed incident are finitely many.
LEMMA SeedLinksFinite ==
    ASSUME NEW i \in Seeds
    PROVE  IsFiniteSet(SeedLinks(i))
<1> DEFINE f == [a \in SeedAlerts[i] |->
                   [alert |-> a, incident |-> i, rule |-> "auto", path |-> <<i>>]]
<1>1. f \in Surjection(SeedAlerts[i], SeedLinks(i))
  BY DEF Surjection, SeedLinks
<1> QED
  BY <1>1, FS_Surjection, StoreAssumption

\* So are those of all of them.
LEMMA AllSeedLinksFinite == IsFiniteSet(UNION {SeedLinks(i) : i \in Seeds})
<1> DEFINE S == {SeedLinks(i) : i \in Seeds}
           f == [i \in Seeds |-> SeedLinks(i)]
<1>1. f \in Surjection(Seeds, S)
  BY DEF Surjection
<1>2. IsFiniteSet(S)
  BY <1>1, FS_Surjection, StoreAssumption
<1>3. \A T \in S : IsFiniteSet(T)
  BY SeedLinksFinite
<1> QED
  BY <1>2, <1>3, FS_UNION

-----------------------------------------------------------------------------
(* The initial states, and what an advancing handler leaves of its session *)

LEMMA NothingIsTable ==
    ASSUME NEW Keys, NEW Row
    PROVE  IsTable(Nothing, Keys, Row)
  BY DEF Nothing, IsTable

\* The invariant holds when the run begins.
LEMMA TypeInit == Init => TypeInv
<1> SUFFICES ASSUME Init PROVE TypeInv
  OBVIOUS
<1>1. \A i \in Seeds : Cardinality(SeedAlerts[i]) \in Int
  BY StoreAssumption, FS_CardinalityType
<1>2. IsTable(incidents, IncidentIds, IncidentRow)
  <2>1. \A i \in Seeds : Scope(SeedAlerts[i]) \subseteq {Attribute[a] : a \in Alerts}
    BY StoreAssumption DEF Scope
  <2>2. \A i \in Seeds : incidents[i] \in IncidentRow
    BY <1>1, <2>1 DEF Init, IncidentRow, Statuses
  <2> QED
    BY <2>2 DEF Init, IsTable, IncidentIds
<1>3. links \subseteq LinkRow
  <2>1. ASSUME NEW i \in Seeds, NEW a \in SeedAlerts[i]
        PROVE  [alert |-> a, incident |-> i, rule |-> "auto", path |-> <<i>>] \in LinkRow
    <3>1. a \in Alerts /\ i \in IncidentIds
      BY StoreAssumption DEF IncidentIds
    <3>2. <<i>> \in Seq(IncidentIds)
      BY <3>1
    <3> QED
      BY <3>1, <3>2 DEF LinkRow, Rules
  <2> QED
    BY <2>1 DEF Init, SeedLinks
<1>4. TablesOK
  BY <1>2, <1>3, NothingIsTable DEF Init, TablesOK
<1>5. SessionsOK
  BY NothingIsTable DEF Init, SessionsOK
<1>6. FiniteRows
  BY AllSeedLinksFinite, FS_EmptySet DEF Init, FiniteRows
<1>7. SessionsLoaded
  BY DEF Init, SessionsLoaded, Running
<1>8. StatsPersist
  BY DEF Init, StatsPersist, Nothing
<1> QED
  BY <1>4, <1>5, <1>6, <1>7, <1>8 DEF TypeInv, TypeOK

\* A handler that moves on (or ends) leaves every session well formed.
LEMMA AdvanceType ==
    ASSUME SessionsOK, SessionsLoaded, \A q \in Requests : IsFiniteSet(rows[q]),
           NEW q \in Requests, NEW to \in {"committed", "recorded"} \cup Ended,
           to \in Running => WellFormed(call[q]),
           Advance(q, to)
    PROVE  /\ SessionsOK' /\ SessionsLoaded'
           /\ \A r \in Requests : IsFiniteSet(rows'[r])
<1>1. SessionsOK'
  <2>1. pc' \in [Requests -> {"idle"} \cup Running \cup Ended]
    BY DEF SessionsOK, Advance, Running, Ended
  <2>2. DOMAIN seen' = Requests /\ \A r \in Requests : IsTable(seen'[r], IncidentIds, IncidentRow)
    BY NothingIsTable DEF SessionsOK, Advance
  <2>3. /\ DOMAIN seenStats' = Requests
        /\ \A r \in Requests : IsTable(seenStats'[r], Rules, StatRow)
    BY NothingIsTable DEF SessionsOK, Advance
  <2>4. rows' \in [Requests -> SUBSET LinkRow]
    BY DEF SessionsOK, Advance
  <2>5. counted' \in [Requests -> Int]
    BY DEF SessionsOK, Advance
  <2> QED
    BY <2>1, <2>2, <2>3, <2>4, <2>5 DEF SessionsOK, Advance
<1>2. SessionsLoaded'
  <2> SUFFICES ASSUME NEW r \in Requests
               PROVE  /\ pc'[r] \in Running => WellFormed(call'[r])
                      /\ pc'[r] \in {"loading", "ready"} => SessionLoaded(r)'
    BY DEF SessionsLoaded
  <2>1. CASE r = q
    <3>1. pc'[r] = to /\ call' = call
      BY <2>1 DEF SessionsOK, Advance
    <3> QED
      BY <2>1, <3>1 DEF Ended
  <2>2. CASE r # q
    <3>1. pc'[r] = pc[r] /\ call' = call /\ seen'[r] = seen[r] /\ pending' = pending
      BY <2>2 DEF SessionsOK, Advance
    <3> QED
      BY <3>1 DEF SessionsLoaded, SessionLoaded
  <2> QED
    BY <2>1, <2>2
<1>3. \A r \in Requests : IsFiniteSet(rows'[r])
  BY FS_EmptySet DEF SessionsOK, Advance
<1> QED
  BY <1>1, <1>2, <1>3

-----------------------------------------------------------------------------
(* Each action keeps the invariant: the reads *)

LEMMA LoadType ==
    ASSUME TypeInv, NEW q \in Requests, Load(q)
    PROVE  TypeInv'
<1> USE DEF TypeInv, TypeOK
<1>1. call[q] \in Calls /\ Named(call[q]) \subseteq IncidentIds
  BY CallShape DEF SessionsOK
<1>2. TablesOK' /\ IsFiniteSet(links')
  BY DEF Load, tables, TablesOK, FiniteRows
<1>3. \A i \in Named(call[q]) : incidents[i] \in IncidentRow
  BY DEF Load, Found, TablesOK, IsTable
<1>4. SessionsOK'
  <2>1. \A r \in Requests : IsTable(seen'[r], IncidentIds, IncidentRow)
    BY <1>1, <1>3 DEF Load, SessionsOK, IsTable
  <2>2. pending' \in [Requests -> Seq(IncidentIds)]
    BY <1>1, CollectionsNamed DEF Load, SessionsOK
  <2>3. counted' \in [Requests -> Int]
    BY <1>1, <1>3, TargetNamed DEF Load, SessionsOK, IncidentRow
  <2>4. pc' \in [Requests -> {"idle"} \cup Running \cup Ended]
    BY DEF Load, SessionsOK, Running
  <2> QED
    BY <2>1, <2>2, <2>3, <2>4 DEF Load, SessionsOK
<1>5. SessionsLoaded'
  <2> SUFFICES ASSUME NEW r \in Requests
               PROVE  /\ pc'[r] \in Running => WellFormed(call'[r])
                      /\ pc'[r] \in {"loading", "ready"} => SessionLoaded(r)'
    BY DEF SessionsLoaded
  <2>1. CASE r = q
    <3>1. call' = call /\ seen'[q] = [i \in Named(call[q]) |-> incidents[i]]
          /\ pending'[q] = Collections(call[q])
      BY DEF Load, SessionsOK
    <3> QED
      BY <1>1, <2>1, <3>1, CollectionsNamed DEF Load, SessionLoaded
  <2>2. CASE r # q
    <3>1. pc'[r] = pc[r] /\ call' = call /\ seen'[r] = seen[r] /\ pending'[r] = pending[r]
      BY <2>2 DEF SessionsOK, Load
    <3> QED
      BY <3>1 DEF SessionsLoaded, SessionLoaded
  <2> QED
    BY <2>1, <2>2
<1>6. FiniteRows' /\ StatsPersist'
  BY <1>2 DEF Load, tables, FiniteRows, StatsPersist
<1> QED
  BY <1>2, <1>4, <1>5, <1>6

LEMMA LoadLinksType ==
    ASSUME TypeInv, NEW q \in Requests, LoadLinks(q)
    PROVE  TypeInv'
<1> USE DEF TypeInv, TypeOK
<1> DEFINE loaded == rows[q] \cup LinksOf(Head(pending[q]))
<1>1. TablesOK' /\ IsFiniteSet(links')
  BY DEF LoadLinks, tables, TablesOK, FiniteRows
<1>2. IsFiniteSet(loaded) /\ loaded \subseteq LinkRow
  <2>1. LinksOf(Head(pending[q])) \subseteq links
    BY DEF LinksOf
  <2> QED
    BY <2>1, FS_Subset, FS_Union DEF FiniteRows, TablesOK, SessionsOK
<1>3. /\ WellFormed(call[q]) /\ SessionLoaded(q)
      /\ pending[q] \in Seq(IncidentIds) /\ pending[q] # <<>>
  BY DEF LoadLinks, SessionsLoaded, Running, SessionsOK
<1>4. Head(pending[q]) \in DOMAIN seen[q] /\ seen[q][Head(pending[q])].alertCount \in Int
  <2>1. Head(pending[q]) \in DOMAIN seen[q]
    BY <1>3 DEF SessionLoaded
  <2> QED
    BY <2>1 DEF SessionsOK, IsTable, IncidentRow
<1>5. AfterLinks(q, loaded) \in {"loading", "rejected", "ready"}
  BY DEF AfterLinks
<1>6. SessionsOK'
  <2>1. rows' \in [Requests -> SUBSET LinkRow]
    BY <1>2 DEF LoadLinks, SessionsOK
  <2>2. pending' \in [Requests -> Seq(IncidentIds)]
    BY <1>3 DEF LoadLinks, SessionsOK
  <2>3. counted' \in [Requests -> Int]
    BY <1>4 DEF LoadLinks, SessionsOK
  <2>4. pc' \in [Requests -> {"idle"} \cup Running \cup Ended]
    BY <1>5 DEF LoadLinks, SessionsOK, Running, Ended
  <2> QED
    BY <2>1, <2>2, <2>3, <2>4 DEF LoadLinks, SessionsOK
<1>7. SessionsLoaded'
  <2> SUFFICES ASSUME NEW r \in Requests
               PROVE  /\ pc'[r] \in Running => WellFormed(call'[r])
                      /\ pc'[r] \in {"loading", "ready"} => SessionLoaded(r)'
    BY DEF SessionsLoaded
  <2>1. CASE r = q
    <3>1. call' = call /\ seen' = seen /\ pending'[q] = Tail(pending[q])
      BY DEF LoadLinks, SessionsOK
    <3>2. \A k \in DOMAIN Tail(pending[q]) : k + 1 \in DOMAIN pending[q]
                                            /\ Tail(pending[q])[k] = pending[q][k + 1]
      BY <1>3
    <3> QED
      BY <1>3, <2>1, <3>1, <3>2 DEF SessionLoaded
  <2>2. CASE r # q
    <3>1. pc'[r] = pc[r] /\ call' = call /\ seen' = seen /\ pending'[r] = pending[r]
      BY <2>2 DEF SessionsOK, LoadLinks
    <3> QED
      BY <3>1 DEF SessionsLoaded, SessionLoaded
  <2> QED
    BY <2>1, <2>2
<1>8. FiniteRows'
  BY <1>1, <1>2, FS_EmptySet DEF LoadLinks, FiniteRows, SessionsOK
<1>9. StatsPersist'
  BY DEF LoadLinks, tables, StatsPersist
<1> QED
  BY <1>1, <1>6, <1>7, <1>8, <1>9

LEMMA LoadStatsType ==
    ASSUME TypeInv, NEW q \in Requests, LoadStats(q)
    PROVE  TypeInv'
<1> USE DEF TypeInv, TypeOK
<1>1. TablesOK' /\ FiniteRows'
  BY DEF LoadStats, tables, TablesOK, FiniteRows
<1>2. SessionsOK'
  <2>1. RuleNames(q) \cap DOMAIN stats \subseteq Rules
    BY DEF TablesOK, IsTable
  <2>2. \A r \in Requests : IsTable(seenStats'[r], Rules, StatRow)
    BY <2>1 DEF LoadStats, SessionsOK, TablesOK, IsTable
  <2>3. pc' \in [Requests -> {"idle"} \cup Running \cup Ended]
    BY DEF LoadStats, SessionsOK, Running
  <2> QED
    BY <2>2, <2>3 DEF LoadStats, SessionsOK
<1>3. SessionsLoaded'
  BY DEF LoadStats, SessionsLoaded, SessionLoaded, SessionsOK, Running
<1>4. StatsPersist'
  BY DEF LoadStats, tables, StatsPersist, SessionsOK
<1> QED
  BY <1>1, <1>2, <1>3, <1>4

-----------------------------------------------------------------------------
(* ... the commits *)

\* A handler that is ready holds a well-formed row of each incident it names.
LEMMA ReadyHolds ==
    ASSUME TypeInv, NEW q \in Requests, pc[q] = "ready"
    PROVE  /\ call[q] \in Calls /\ WellFormed(call[q])
           /\ \A i \in Named(call[q]) : seen[q][i] \in IncidentRow
  BY DEF TypeInv, TypeOK, SessionsOK, SessionsLoaded, SessionLoaded, Running, IsTable

\* What is left to show of a step once its session has advanced.
LEMMA StepType ==
    ASSUME TypeInv, NEW q \in Requests,
           NEW to \in {"committed", "recorded"} \cup Ended, Advance(q, to),
           to \in Running => WellFormed(call[q]),
           TablesOK', IsFiniteSet(links'), DOMAIN stats \subseteq DOMAIN stats'
    PROVE  TypeInv'
<1>1. StatsPersist'
  BY DEF TypeInv, TypeOK, SessionsOK, StatsPersist, Advance, Nothing
<1> QED
  BY <1>1, AdvanceType DEF TypeInv, TypeOK, FiniteRows

LEMMA CommitUpdateType ==
    ASSUME TypeInv, NEW q \in Requests, CommitUpdate(q)
    PROVE  TypeInv'
<1> USE DEF TypeInv, TypeOK
<1> DEFINE i == call[q].target
           read == seen[q][i]
<1>1. /\ call[q] \in Calls /\ WellFormed(call[q]) /\ Named(call[q]) = {i}
      /\ read \in IncidentRow /\ call[q].status \in Statuses \cup {NoStatus}
  BY ReadyHolds, CallShape DEF CommitUpdate, Ready, Op, Named
<1>2. i \in DOMAIN incidents
  BY <1>1 DEF CommitUpdate, Ready, Op, Commits, NoStaleRow
<1>3. Flush(read, UpdatedRow(read, call[q].status), incidents[i]) \in IncidentRow
  BY <1>1, <1>2, UpdatedRowType, FlushType DEF TablesOK, IsTable
<1>4. IsTable(incidents', IncidentIds, IncidentRow)
  BY <1>2, <1>3 DEF CommitUpdate, TablesOK, IsTable
<1>5. RuleNames(q) \subseteq Rules
  BY DEF RuleNames, SessionsOK, LinkRow
<1>6. IsTable(stats', Rules, StatRow)
  <2>1. CASE ~IsMark(call[q])
    BY <2>1 DEF CommitUpdate, TablesOK
  <2>2. CASE IsMark(call[q])
    <3>1. FreshStat \in StatRow
      BY DEF FreshStat, StatRow
    <3>2. Marked(FreshStat) \in StatRow
      BY <3>1, MarkedType
    <3>3. ASSUME NEW r \in RuleNames(q), r \in DOMAIN seenStats[q]
          PROVE  /\ r \in DOMAIN stats
                    => FlushStat(seenStats[q][r], Marked(seenStats[q][r]), stats[r]) \in StatRow
                 /\ r \in DOMAIN stats
      <4>1. r \in DOMAIN stats
        BY <3>3 DEF StatsPersist
      <4> QED
        BY <3>3, <4>1, MarkedType, FlushStatType DEF SessionsOK, TablesOK, IsTable
    <3>4. \A r \in DOMAIN stats \cup RuleNames(q) : stats'[r] \in StatRow
      BY <2>2, <3>2, <3>3 DEF CommitUpdate, TablesOK, IsTable
    <3>5. DOMAIN stats' = DOMAIN stats \cup RuleNames(q)
          /\ stats' = [r \in DOMAIN stats \cup RuleNames(q) |-> stats'[r]]
      BY <2>2 DEF CommitUpdate
    <3> QED
      BY <1>5, <3>4, <3>5 DEF TablesOK, IsTable
  <2> QED
    BY <2>1, <2>2
<1>7. TablesOK' /\ IsFiniteSet(links')
  BY <1>4, <1>6 DEF CommitUpdate, TablesOK, FiniteRows
<1>8. Advance(q, "committed") /\ DOMAIN stats \subseteq DOMAIN stats'
  BY DEF CommitUpdate
<1> QED
  BY <1>1, <1>7, <1>8, StepType

LEMMA CommitDeleteType ==
    ASSUME TypeInv, NEW q \in Requests, CommitDelete(q)
    PROVE  TypeInv'
<1>1. WellFormed(call[q])
  BY ReadyHolds DEF CommitDelete, Ready
<1>2. TablesOK'
  BY DEF CommitDelete, TypeInv, TypeOK, TablesOK, IsTable
<1>3. IsFiniteSet(links')
  BY FS_Difference DEF CommitDelete, TypeInv, FiniteRows
<1>4. Advance(q, "committed") /\ stats' = stats
  BY DEF CommitDelete
<1> QED
  BY <1>1, <1>2, <1>3, <1>4, StepType

LEMMA CommitMergeType ==
    ASSUME TypeInv, NEW q \in Requests, CommitMerge(q)
    PROVE  TypeInv'
<1> USE DEF TypeInv, TypeOK
<1> DEFINE master == call[q].ids[1]
           set == [i \in Named(call[q]) |->
                     IF i = master THEN MergedRow(q)
                     ELSE [seen[q][i] EXCEPT !.status = "merged"]]
           copies == {Copy(r, master, "merge", q) : r \in rows[q]}
<1>1. /\ call[q] \in Calls /\ WellFormed(call[q])
      /\ \A i \in Named(call[q]) : seen[q][i] \in IncidentRow
  BY ReadyHolds DEF CommitMerge, Ready
<1>2. master \in Named(call[q]) /\ Named(call[q]) \subseteq IncidentIds
  BY <1>1, CallShape, TargetNamed DEF CommitMerge, Ready, Op, Target
<1>3. \A i \in Named(call[q]) : set[i] \in IncidentRow
  <2>1. MergedRow(q) \in IncidentRow
    <3>1. counted[q] \in Int
      BY DEF SessionsOK
    <3>2. UNION {seen[q][i].scope : i \in Named(call[q])} \subseteq {Attribute[a] : a \in Alerts}
      BY <1>1 DEF IncidentRow
    <3> QED
      BY <1>1, <1>2, <3>1, <3>2 DEF MergedRow, IncidentRow
  <2>2. \A i \in Named(call[q]) : [seen[q][i] EXCEPT !.status = "merged"] \in IncidentRow
    BY <1>1 DEF IncidentRow, Statuses
  <2> QED
    BY <2>1, <2>2
<1>4. IsTable(incidents', IncidentIds, IncidentRow)
  <2>1. \A i \in DOMAIN incidents : i \in Named(call[q]) =>
            Flush(seen[q][i], set[i], incidents[i]) \in IncidentRow
    BY <1>1, <1>3, FlushType DEF TablesOK, IsTable
  <2> QED
    BY <2>1 DEF CommitMerge, TablesOK, IsTable
<1>5. copies \subseteq LinkRow /\ IsFiniteSet(copies)
  <2>1. rows[q] \subseteq LinkRow /\ IsFiniteSet(rows[q])
    BY DEF SessionsOK, FiniteRows
  <2>2. master \in IncidentIds /\ "merge" \in Rules
    BY <1>2 DEF Rules
  <2>3. \A r \in rows[q] : Copy(r, master, "merge", q) \in LinkRow
    BY <2>1, <2>2, CopyType
  <2> QED
    BY <2>1, <2>3, CopiesFinite
<1>6. links' \subseteq LinkRow /\ IsFiniteSet(links')
  BY <1>5, FS_Union DEF CommitMerge, TablesOK, FiniteRows
<1>7. TablesOK'
  BY <1>4, <1>6 DEF CommitMerge, TablesOK
<1>8. Advance(q, "committed") /\ stats' = stats
  BY DEF CommitMerge
<1> QED
  BY <1>1, <1>6, <1>7, <1>8, StepType

LEMMA CommitSplitType ==
    ASSUME TypeInv, NEW q \in Requests, CommitSplit(q)
    PROVE  TypeInv'
<1> USE DEF TypeInv, TypeOK
<1> DEFINE i == call[q].target
           copies == {Copy(r, q, "split", q) : r \in Moved(q)}
<1>1. /\ call[q] \in Calls /\ WellFormed(call[q]) /\ i \in Named(call[q])
      /\ seen[q][i] \in IncidentRow
  BY ReadyHolds DEF CommitSplit, Ready, Op, Named
<1>2. /\ Moved(q) \subseteq LinkRow /\ IsFiniteSet(Moved(q))
      /\ Cardinality(Moved(q)) \in Nat
  BY FS_Subset, FS_CardinalityType DEF Moved, SessionsOK, FiniteRows
<1>3. \A ids : Scope(AlertsByEventId(ids)) \subseteq {Attribute[a] : a \in Alerts}
  BY DEF Scope, AlertsByEventId, TablesOK
<1>4. RemainingRow(q) \in IncidentRow
  <2>1. seen[q][i].alertCount - Cardinality(Moved(q)) \in Int
    BY <1>1, <1>2 DEF IncidentRow
  <2> QED
    BY <1>1, <1>3, <2>1 DEF RemainingRow, IncidentRow
<1>5. SplitOffRow(q) \in IncidentRow
  BY <1>2, <1>3 DEF SplitOffRow, IncidentRow, Statuses
<1>6. IsTable(incidents', IncidentIds, IncidentRow)
  <2>1. i \in DOMAIN incidents =>
            Flush(seen[q][i], RemainingRow(q), incidents[i]) \in IncidentRow
    BY <1>1, <1>4, FlushType DEF TablesOK, IsTable
  <2>2. \A j \in DOMAIN incidents \cup {q} : incidents'[j] \in IncidentRow
    BY <1>5, <2>1 DEF CommitSplit, TablesOK, IsTable
  <2> QED
    BY <2>2 DEF CommitSplit, TablesOK, IsTable, IncidentIds
<1>7. copies \subseteq LinkRow /\ IsFiniteSet(copies)
  BY <1>2, CopyType, CopiesFinite DEF IncidentIds, Rules
<1>8. links' \subseteq LinkRow /\ IsFiniteSet(links')
  BY <1>7, FS_Union, FS_Difference DEF CommitSplit, TablesOK, FiniteRows
<1>9. TablesOK'
  BY <1>6, <1>8 DEF CommitSplit, TablesOK
<1>10. Advance(q, "committed") /\ stats' = stats
  BY DEF CommitSplit
<1> QED
  BY <1>1, <1>8, <1>9, <1>10, StepType

LEMMA CommitNoteType ==
    ASSUME TypeInv, NEW q \in Requests, CommitNote(q)
    PROVE  TypeInv'
<1>1. call[q] \in Calls /\ WellFormed(call[q]) /\ call[q].target \in IncidentIds
  BY ReadyHolds, CallShape DEF CommitNote, Ready, Op
<1>2. TablesOK' /\ IsFiniteSet(links') /\ Advance(q, "committed") /\ stats' = stats
  BY <1>1 DEF CommitNote, TypeInv, TypeOK, TablesOK, FiniteRows
<1> QED
  BY <1>1, <1>2, StepType

-----------------------------------------------------------------------------
(* ... the steps after a commit, the failures, and the other actors *)

LEMMA EndingType ==
    ASSUME TypeInv, NEW q \in Requests, Reject(q) \/ Abort(q) \/ LoseAudit(q)
           \/ Interrupt(q)
    PROVE  TypeInv'
<1>1. PICK to \in {"rejected", "aborted", "interrupted", "done"} : Advance(q, to)
  <2>1. LoseAudit(q) => \E to \in {"done", "interrupted"} : Advance(q, to)
    BY DEF LoseAudit, AfterLostAudit
  <2> QED
    BY <2>1 DEF Reject, Abort, Interrupt
<1>2. UNCHANGED tables
  BY DEF Reject, Abort, LoseAudit, Interrupt
<1>3. TablesOK' /\ IsFiniteSet(links') /\ stats' = stats
  BY <1>2 DEF tables, TypeInv, TypeOK, TablesOK, FiniteRows
<1> QED
  BY <1>1, <1>3, StepType DEF Ended, Running

LEMMA RecordType ==
    ASSUME TypeInv, NEW q \in Requests,
           RecordFeedback(q) \/ AuditFalsePositive(q) \/ Audit(q)
    PROVE  TypeInv'
<1> USE DEF TypeInv, TypeOK
<1>1. PICK to \in {"recorded", "done"} : Advance(q, to)
  BY DEF RecordFeedback, AuditFalsePositive, Audit
<1>2. call[q] \in Calls /\ WellFormed(call[q])
  BY DEF RecordFeedback, AuditFalsePositive, Audit, AuditDue, SessionsOK, SessionsLoaded, Running
<1>3. TablesOK'
  <2>1. CASE RecordFeedback(q)
    <3>1. Target(call[q]) \in IncidentIds
      BY <1>2, CallShape, TargetNamed
    <3> QED
      BY <2>1, <3>1 DEF RecordFeedback, TablesOK
  <2>2. CASE AuditFalsePositive(q)
    BY <2>2 DEF AuditFalsePositive, TablesOK, AuditActions
  <2>3. CASE Audit(q)
    <3>1. AuditName(q) \in AuditActions
      BY <1>2, CallShape DEF AuditName, AuditActions, Op
    <3> QED
      BY <2>3, <3>1 DEF Audit, TablesOK
  <2> QED
    BY <2>1, <2>2, <2>3
<1>4. links' = links /\ stats' = stats
  BY DEF RecordFeedback, AuditFalsePositive, Audit
<1>5. IsFiniteSet(links')
  BY <1>4 DEF FiniteRows
<1> QED
  BY <1>1, <1>2, <1>3, <1>4, <1>5, StepType DEF Ended

LEMMA CleanupType ==
    ASSUME TypeInv, NEW expired, NEW old, NEW aged, Cleanup(expired, old, aged)
    PROVE  TypeInv'
<1> USE DEF TypeInv, TypeOK
<1>1. TablesOK'
  BY DEF Cleanup, TablesOK, IsTable
<1>2. FiniteRows'
  <2>1. links' \subseteq links
    BY DEF Cleanup
  <2> QED
    BY <2>1, FS_Subset DEF Cleanup, sessions, FiniteRows
<1>3. SessionsOK' /\ SessionsLoaded' /\ StatsPersist'
  BY DEF Cleanup, sessions, SessionsOK, SessionsLoaded, SessionLoaded, StatsPersist
<1> QED
  BY <1>1, <1>2, <1>3

LEMMA CrashType ==
    ASSUME TypeInv, Crash
    PROVE  TypeInv'
<1> USE DEF TypeInv, TypeOK
<1>1. TablesOK' /\ FiniteRows' /\ StatsPersist'
  BY DEF Crash, tables, TablesOK, FiniteRows, StatsPersist
<1>2. \A r \in Requests :
        /\ pc'[r] \in {"idle"} \cup Running \cup Ended
        /\ pc'[r] \notin Running
  BY DEF Crash, SessionsOK, Running, Ended
<1>3. SessionsOK'
  BY <1>2 DEF Crash, SessionsOK
<1>4. SessionsLoaded'
  BY <1>2 DEF SessionsLoaded, Running
<1> QED
  BY <1>1, <1>3, <1>4

\* Every step keeps the invariant.
LEMMA TypeStep == TypeInv /\ [Next]_vars => TypeInv'
<1> SUFFICES ASSUME TypeInv, [Next]_vars PROVE TypeInv'
  OBVIOUS
<1>1. ASSUME NEW q \in Requests, Start(q) \/ Handle(q)
      PROVE  TypeInv'
  BY <1>1, LoadType, LoadLinksType, LoadStatsType, CommitUpdateType, CommitDeleteType,
     CommitMergeType, CommitSplitType, CommitNoteType, EndingType, RecordType
     DEF Start, Handle
<1>2. CASE RunCleanup
  BY <1>2, CleanupType DEF RunCleanup
<1>3. CASE Crash
  BY <1>3, CrashType
<1>4. CASE UNCHANGED vars
  BY <1>4 DEF vars, TypeInv, TypeOK, TablesOK, SessionsOK, FiniteRows, SessionsLoaded,
     SessionLoaded, StatsPersist
<1> QED
  BY <1>1, <1>2, <1>3, <1>4 DEF Next, Quiescent

\* The strengthened type invariant is an invariant of the store.
THEOREM TypeInvariance == Spec => []TypeInv
  BY TypeInit, TypeStep, PTL DEF Spec

\* Tables and sessions only ever hold rows of their own shape, for any texts of statuses.
THEOREM TypeCorrect == Spec => []TypeOK
<1>1. TypeInv => TypeOK
  BY DEF TypeInv
<1> QED
  BY <1>1, TypeInvariance, PTL

-----------------------------------------------------------------------------
(* References resolve *)

ResolveInv == TypeInv /\ RowsResolve

LEMMA ResolveMerge ==
    ASSUME ResolveInv, NEW q \in Requests, CommitMerge(q)
    PROVE  RowsResolve'
<1> DEFINE master == call[q].ids[1]
<1>1. master \in DOMAIN incidents
  <2>1. call[q] \in Calls /\ WellFormed(call[q]) /\ Op(q) = "merge"
    BY ReadyHolds DEF ResolveInv, CommitMerge, Ready
  <2>2. master \in Named(call[q])
    BY <2>1, TargetNamed DEF Target, Op
  <2> QED
    BY <2>1, <2>2 DEF CommitMerge, Commits, NoStaleRow
<1>2. DOMAIN incidents' = DOMAIN incidents /\ alerts' = alerts /\ feedback' = feedback
  BY DEF CommitMerge
<1>3. ASSUME NEW l \in links' PROVE l.incident \in DOMAIN incidents' /\ l.alert \in alerts'
  <2>1. CASE l \in links
    BY <2>1, <1>2 DEF ResolveInv, RowsResolve
  <2>2. CASE l \in {Copy(r, master, "merge", q) : r \in rows[q]}
    <3>1. PICK r \in rows[q] : l = Copy(r, master, "merge", q)
      BY <2>2
    <3>2. r.alert \in alerts
      BY DEF CommitMerge, Ready, Commits, ForeignKeysResolve, AlertsIn
    <3> QED
      BY <1>1, <1>2, <3>1, <3>2 DEF Copy
  <2> QED
    BY <2>1, <2>2 DEF CommitMerge
<1> QED
  BY <1>2, <1>3 DEF ResolveInv, RowsResolve

LEMMA ResolveSplit ==
    ASSUME ResolveInv, NEW q \in Requests, CommitSplit(q)
    PROVE  RowsResolve'
<1>1. DOMAIN incidents' = DOMAIN incidents \cup {q} /\ alerts' = alerts /\ feedback' = feedback
  BY DEF CommitSplit
<1>2. ASSUME NEW l \in links' PROVE l.incident \in DOMAIN incidents' /\ l.alert \in alerts'
  <2>1. CASE l \in links
    BY <2>1, <1>1 DEF ResolveInv, RowsResolve
  <2>2. CASE l \in {Copy(r, q, "split", q) : r \in Moved(q)}
    <3>1. PICK r \in Moved(q) : l = Copy(r, q, "split", q)
      BY <2>2
    <3>2. r.alert \in alerts
      BY DEF CommitSplit, Ready, Commits, ForeignKeysResolve, AlertsIn
    <3> QED
      BY <1>1, <3>1, <3>2 DEF Copy
  <2> QED
    BY <2>1, <2>2 DEF CommitSplit
<1> QED
  BY <1>1, <1>2 DEF ResolveInv, RowsResolve

LEMMA ResolveHandle ==
    ASSUME ResolveInv, NEW q \in Requests, Start(q) \/ Handle(q)
    PROVE  RowsResolve'
<1>1. CASE UNCHANGED tables
  BY <1>1 DEF tables, ResolveInv, RowsResolve
<1>2. CASE CommitUpdate(q)
  BY <1>2 DEF CommitUpdate, ResolveInv, RowsResolve
<1>3. CASE CommitDelete(q)
  BY <1>3 DEF CommitDelete, LinksOf, ResolveInv, RowsResolve
<1>4. CASE CommitNote(q)
  BY <1>4 DEF CommitNote, Ready, Commits, ForeignKeysResolve, ResolveInv, RowsResolve
<1>5. CASE RecordFeedback(q)
  BY <1>5 DEF RecordFeedback, FeedbackPossible, ResolveInv, RowsResolve
<1>6. CASE AuditFalsePositive(q) \/ Audit(q)
  BY <1>6 DEF AuditFalsePositive, Audit, ResolveInv, RowsResolve
<1>7. Load(q) \/ Reject(q) \/ LoadLinks(q) \/ LoadStats(q) \/ Abort(q) \/ LoseAudit(q)
       \/ Interrupt(q)
        => UNCHANGED tables
  BY DEF Load, Reject, LoadLinks, LoadStats, Abort, LoseAudit,
       Interrupt, tables
<1> QED
  BY <1>1, <1>2, <1>3, <1>4, <1>5, <1>6, <1>7, ResolveMerge, ResolveSplit DEF Start, Handle

LEMMA ResolveStep == ResolveInv /\ [Next]_vars => ResolveInv'
<1> SUFFICES ASSUME ResolveInv, [Next]_vars PROVE ResolveInv'
  OBVIOUS
<1>1. TypeInv'
  BY TypeStep DEF ResolveInv
<1>2. RowsResolve'
  <2>1. ASSUME NEW q \in Requests, Start(q) \/ Handle(q) PROVE RowsResolve'
    BY <2>1, ResolveHandle
  <2>2. CASE RunCleanup
    BY <2>2 DEF RunCleanup, Cleanup, ResolveInv, RowsResolve
  <2>3. CASE Crash \/ UNCHANGED vars
    BY <2>3 DEF Crash, tables, vars, ResolveInv, RowsResolve
  <2> QED
    BY <2>1, <2>2, <2>3 DEF Next, Quiescent
<1> QED
  BY <1>1, <1>2 DEF ResolveInv

LEMMA ResolveInit == Init => ResolveInv
<1> SUFFICES ASSUME Init PROVE ResolveInv
  OBVIOUS
<1>1. \A l \in links : l.incident \in Seeds /\ l.alert \in Alerts
  BY StoreAssumption DEF Init, SeedLinks
<1>2. DOMAIN incidents = Seeds /\ alerts = Alerts /\ feedback = {}
  BY DEF Init
<1> QED
  BY <1>1, <1>2, TypeInit DEF ResolveInv, RowsResolve

LEMMA ResolveInvariance == Spec => []ResolveInv
  BY ResolveInit, ResolveStep, PTL DEF Spec

\* No link or feedback row refers to an incident or an alert that is gone.
THEOREM RowsAlwaysResolve == Spec => []RowsResolve
<1>1. ResolveInv => RowsResolve
  BY DEF ResolveInv
<1> QED
  BY <1>1, ResolveInvariance, PTL

-----------------------------------------------------------------------------
(* No alert is orphaned *)

Kept == \A a \in AlertsIn(links) \cap alerts' :
            a \in AlertsIn(links') \/ ~(DOMAIN incidents \subseteq DOMAIN incidents')

\* A split relinks every row it deletes.
LEMMA SplitKeeps ==
    ASSUME NEW q \in Requests, CommitSplit(q)
    PROVE  AlertsIn(links) \subseteq AlertsIn(links')
<1> SUFFICES ASSUME NEW l \in links PROVE \E m \in links' : m.alert = l.alert
  BY DEF AlertsIn
<1>1. CASE l \in Moved(q)
  <2>1. Copy(l, q, "split", q) \in links'
    BY <1>1 DEF CommitSplit
  <2>2. Copy(l, q, "split", q).alert = l.alert
    BY DEF Copy
  <2> QED
    BY <2>1, <2>2
<1>2. CASE l \notin Moved(q)
  BY <1>2 DEF CommitSplit, Removed
<1> QED
  BY <1>1, <1>2

\* A delete that removes a link row removes its incident.
LEMMA DeleteKeeps ==
    ASSUME RowsResolve, NEW q \in Requests, CommitDelete(q)
    PROVE  Kept
<1>1. CASE call[q].target \in DOMAIN incidents
  BY <1>1 DEF CommitDelete, Kept
<1>2. CASE call[q].target \notin DOMAIN incidents
  <2>1. LinksOf(call[q].target) = {}
    BY <1>2 DEF LinksOf, RowsResolve
  <2>2. links' = links
    BY <2>1 DEF CommitDelete
  <2> QED
    BY <2>2 DEF Kept
<1> QED
  BY <1>1, <1>2

\* The retention job drops a row with its alert or with its incident.
LEMMA CleanupKeeps ==
    ASSUME RowsResolve, NEW expired, NEW old, NEW aged, old \subseteq DOMAIN incidents,
           Cleanup(expired, old, aged)
    PROVE  Kept
<1> SUFFICES ASSUME NEW l \in links, l.alert \in alerts',
                    DOMAIN incidents \subseteq DOMAIN incidents'
             PROVE  l \in links'
  BY DEF Kept, AlertsIn
<1>1. old = {}
  BY DEF Cleanup
<1>2. l.alert \notin expired
  BY DEF Cleanup
<1> QED
  BY <1>1, <1>2 DEF Cleanup

LEMMA StepKeeps == ResolveInv /\ [Next]_vars => [Kept]_vars
<1> SUFFICES ASSUME ResolveInv, [Next]_vars PROVE [Kept]_vars
  OBVIOUS
<1>1. RowsResolve
  BY DEF ResolveInv
<1>2. links \subseteq links' => AlertsIn(links) \subseteq AlertsIn(links')
  BY DEF AlertsIn
<1>3. ASSUME NEW q \in Requests, Start(q) \/ Handle(q) PROVE Kept
  <2>1. \/ links \subseteq links' \/ CommitDelete(q) \/ CommitSplit(q)
    BY <1>3 DEF Start, Handle, Load, Reject, LoadLinks, LoadStats, CommitUpdate, CommitMerge,
       CommitNote, Abort, RecordFeedback, AuditFalsePositive, Audit, LoseAudit,
       Interrupt, tables
  <2>2. AlertsIn(links) \subseteq AlertsIn(links') \/ CommitDelete(q)
    BY <2>1, <1>2, SplitKeeps
  <2>3. CASE CommitDelete(q)
    BY <2>3, <1>1, DeleteKeeps
  <2>4. CASE AlertsIn(links) \subseteq AlertsIn(links')
    BY <2>4 DEF Kept
  <2> QED
    BY <2>2, <2>3, <2>4
<1>4. CASE RunCleanup
  <2>1. PICK expired \in SUBSET (alerts \cap OldAlerts),
             old \in SUBSET {i \in DOMAIN incidents : "incidents" \in Aging /\ Purgeable(i)},
             aged \in SUBSET {e \in audit : "audit_logs" \in Aging} :
               Cleanup(expired, old, aged)
    BY <1>4 DEF RunCleanup
  <2> QED
    BY <2>1, <1>1, CleanupKeeps
<1>5. CASE Crash
  BY <1>5, <1>2 DEF Crash, tables, Kept
<1> QED
  BY <1>3, <1>4, <1>5 DEF Next, Quiescent

\* In no interleaving does a merge, a split or any other handler take a stored alert
\* out of the last incident that holds it, short of deleting that incident.
THEOREM AlertsNeverOrphaned == Spec => NoAlertOrphaned
<1>1. Spec => [][Kept]_vars
  BY ResolveInvariance, StepKeeps, PTL DEF Spec
<1> QED
  BY <1>1 DEF NoAlertOrphaned, Kept

-----------------------------------------------------------------------------
(* The audit trail and the feedback table tell the truth *)

RecordsInv == TypeInv /\ RecordsAreTrue

LEMMA RecordsHandle ==
    ASSUME RecordsInv, NEW q \in Requests, Start(q) \/ Handle(q)
    PROVE  RecordsAreTrue'
<1>1. /\ \A r \in Requests : pc[r] \in Applied => pc'[r] \in Applied
      /\ \/ (audit' \cup feedback') \subseteq (audit \cup feedback)
         \/ /\ pc'[q] \in Applied
            /\ \A e \in (audit' \cup feedback') \ (audit \cup feedback) : e.request = q
  <2> USE DEF RecordsInv, TypeInv, TypeOK, SessionsOK, Applied
  <2>1. CASE UNCHANGED tables
    <3>1. Load(q) \/ Reject(q) \/ LoadLinks(q) \/ LoadStats(q) \/ Abort(q)
           \/ LoseAudit(q) \/ Interrupt(q)
            => \A r \in Requests : pc[r] \in Applied => pc'[r] \in Applied
      BY DEF Load, Reject, LoadLinks, LoadStats, Abort, LoseAudit,
           Interrupt, Advance, AuditDue, RolledBack, AfterLostAudit
    <3>2. CommitUpdate(q) \/ CommitDelete(q) \/ CommitMerge(q) \/ CommitSplit(q) \/ CommitNote(q)
            \/ RecordFeedback(q) \/ AuditFalsePositive(q) \/ Audit(q)
            => \A r \in Requests : pc[r] \in Applied => pc'[r] \in Applied
      BY DEF CommitUpdate, CommitDelete, CommitMerge, CommitSplit, CommitNote, RecordFeedback,
         AuditFalsePositive, Audit, Advance
    <3> QED
      BY <2>1, <3>1, <3>2 DEF Start, Handle, tables
  <2>2. CASE CommitUpdate(q) \/ CommitDelete(q) \/ CommitMerge(q) \/ CommitSplit(q)
    BY <2>2 DEF CommitUpdate, CommitDelete, CommitMerge, CommitSplit, Advance
  <2>3. CASE CommitNote(q) \/ RecordFeedback(q)
    BY <2>3 DEF CommitNote, RecordFeedback, Advance
  <2>4. CASE AuditFalsePositive(q) \/ Audit(q)
    BY <2>4 DEF AuditFalsePositive, Audit, Advance
  <2>5. Load(q) \/ Reject(q) \/ LoadLinks(q) \/ LoadStats(q) \/ Abort(q)
         \/ LoseAudit(q) \/ Interrupt(q)
          => UNCHANGED tables
    BY DEF Load, Reject, LoadLinks, LoadStats, Abort, LoseAudit,
         Interrupt, tables
  <2> QED
    BY <2>1, <2>2, <2>3, <2>4, <2>5 DEF Start, Handle
<1>2. \A e \in audit \cup feedback : e.request \in Requests /\ pc[e.request] \in Applied
  BY DEF RecordsInv, RecordsAreTrue, TypeInv, TypeOK, TablesOK
<1> QED
  BY <1>1, <1>2 DEF RecordsAreTrue

LEMMA RecordsStep == RecordsInv /\ [Next]_vars => RecordsInv'
<1> SUFFICES ASSUME RecordsInv, [Next]_vars PROVE RecordsInv'
  OBVIOUS
<1>1. TypeInv'
  BY TypeStep DEF RecordsInv
<1>2. RecordsAreTrue'
  <2>1. ASSUME NEW q \in Requests, Start(q) \/ Handle(q) PROVE RecordsAreTrue'
    BY <2>1, RecordsHandle
  <2>2. CASE RunCleanup
    BY <2>2 DEF RunCleanup, Cleanup, sessions, RecordsInv, RecordsAreTrue
  <2>3. CASE Crash
    <3>1. \A e \in audit \cup feedback : e.request \in Requests /\ pc[e.request] \in Applied
      BY DEF RecordsInv, RecordsAreTrue, TypeInv, TypeOK, TablesOK
    <3>2. \A r \in Requests : pc[r] \in Applied => pc'[r] \in Applied
      BY <2>3 DEF Crash, Applied
    <3> QED
      BY <2>3, <3>1, <3>2 DEF Crash, tables, RecordsAreTrue
  <2>4. CASE UNCHANGED vars
    BY <2>4 DEF vars, RecordsInv, RecordsAreTrue
  <2> QED
    BY <2>1, <2>2, <2>3, <2>4 DEF Next, Quiescent
<1> QED
  BY <1>1, <1>2 DEF RecordsInv

\* Whatever the audit trail or the feedback table says of a request was committed.
THEOREM RecordsAlwaysTrue == Spec => []RecordsAreTrue
<1>1. Init => RecordsInv
  BY TypeInit DEF RecordsInv, RecordsAreTrue, Init
<1>2. RecordsInv => RecordsAreTrue
  BY DEF RecordsInv
<1> QED
  BY <1>1, <1>2, RecordsStep, PTL DEF Spec

-----------------------------------------------------------------------------
(* Closed incidents are dated *)

(***************************************************************************)
(* The property is not inductive: a handler writes status and closed_at    *)
(* column by column, against a row it read before.  It is kept because     *)
(* closed_at is never cleared, so what a handler saw as dated still is;    *)
(* and because the key of a split-off incident is fresh, so a handler      *)
(* never holds an older row under the key of a newer incident.             *)
(***************************************************************************)
SeenStillDated ==
    \A q \in Requests : \A i \in DOMAIN seen[q] \cap DOMAIN incidents :
        seen[q][i].closed = TRUE => incidents[i].closed = TRUE

FreshKeys ==
    \A q \in Requests : pc[q] \notin Applied =>
        /\ q \notin DOMAIN incidents
        /\ \A r \in Requests : q \notin DOMAIN seen[r]

DatedInv == TypeInv /\ ClosedIncidentsAreDated /\ SeenStillDated /\ FreshKeys

\* How the incidents table may change in a step: rows vanish, rows keep their date
\* and stay dated when closed, and a new row is open and has a fresh key.
TableStep(new) ==
    /\ DOMAIN incidents' \subseteq DOMAIN incidents \cup new
    /\ \A i \in DOMAIN incidents \cap DOMAIN incidents' :
          /\ incidents[i].closed = TRUE => incidents'[i].closed = TRUE
          /\ Closing(incidents'[i].status) => incidents'[i].closed = TRUE
    /\ \A i \in DOMAIN incidents' \ DOMAIN incidents : ~Closing(incidents'[i].status)

\* Writing a row column by column neither clears a date nor closes without one.
LEMMA FlushDated ==
    ASSUME NEW read \in IncidentRow, NEW set \in IncidentRow, NEW stored \in IncidentRow,
           read.closed = TRUE => set.closed = TRUE,
           Closing(set.status) => set.status = read.status \/ set.closed = TRUE,
           read.closed = TRUE => stored.closed = TRUE,
           Closing(stored.status) => stored.closed = TRUE
    PROVE  LET new == Flush(read, set, stored)
           IN  /\ stored.closed = TRUE => new.closed = TRUE
               /\ Closing(new.status) => new.closed = TRUE
<1> DEFINE new == Flush(read, set, stored)
<1>1. /\ new.status = Column(read.status, set.status, stored.status)
      /\ new.closed = Column(read.closed, set.closed, stored.closed)
  BY DEF Flush
<1>2. read.closed \in BOOLEAN /\ set.closed \in BOOLEAN /\ stored.closed \in BOOLEAN
  BY DEF IncidentRow
<1>3. stored.closed = TRUE => new.closed = TRUE
  BY <1>1, <1>2 DEF Column
<1>4. Closing(new.status) => new.closed = TRUE
  <2>1. CASE set.status = read.status
    BY <1>1, <1>3, <2>1 DEF Column
  <2>2. CASE set.status # read.status
    BY <1>1, <1>2, <2>2 DEF Column
  <2> QED
    BY <2>1, <2>2
<1> QED
  BY <1>3, <1>4

\* A table step that leaves the sessions' rows as they are, or drops them, keeps the
\* invariant; new keys must belong to requests that have taken effect.
LEMMA DatedTable ==
    ASSUME DatedInv, TypeInv', NEW new \in SUBSET Requests, TableStep(new),
           \A q \in new : pc[q] \notin Applied /\ pc'[q] \in Applied,
           \A q \in Requests : /\ pc[q] \in Applied => pc'[q] \in Applied
                               /\ \A i \in DOMAIN seen'[q] :
                                     i \in DOMAIN seen[q] /\ seen'[q][i] = seen[q][i]
    PROVE  DatedInv'
<1> USE DEF DatedInv
<1>1. \A i \in DOMAIN incidents : incidents[i].closed \in BOOLEAN
  BY DEF TypeInv, TypeOK, TablesOK, IsTable, IncidentRow
<1>2. ClosedIncidentsAreDated'
  BY DEF TableStep, ClosedIncidentsAreDated
<1>3. SeenStillDated'
  <2> SUFFICES ASSUME NEW q \in Requests, NEW i \in DOMAIN seen'[q] \cap DOMAIN incidents',
                      seen'[q][i].closed = TRUE
               PROVE  incidents'[i].closed = TRUE
    BY DEF SeenStillDated
  <2>1. i \notin new
    BY DEF FreshKeys
  <2>2. i \in DOMAIN incidents
    BY <2>1 DEF TableStep
  <2> QED
    BY <2>2 DEF TableStep, SeenStillDated
<1>4. FreshKeys'
  BY DEF FreshKeys, TableStep
<1> QED
  BY <1>2, <1>3, <1>4

\* What DatedTable asks of the sessions.
SessionStep ==
    \A q \in Requests :
        /\ pc[q] \in Applied => pc'[q] \in Applied
        /\ \A i \in DOMAIN seen'[q] : i \in DOMAIN seen[q] /\ seen'[q][i] = seen[q][i]

LEMMA AdvanceSession ==
    ASSUME SessionsOK, NEW q \in Requests, NEW to, Advance(q, to),
           pc[q] \in Applied => to \in Applied
    PROVE  SessionStep /\ pc'[q] = to
  BY DEF SessionsOK, Advance, SessionStep, Nothing

LEMMA DatedUpdate ==
    ASSUME DatedInv, TypeInv', NEW q \in Requests, CommitUpdate(q)
    PROVE  DatedInv'
<1> USE DEF DatedInv
<1> DEFINE i == call[q].target
           read == seen[q][i]
           set == UpdatedRow(read, call[q].status)
<1>1. /\ call[q] \in Calls /\ WellFormed(call[q]) /\ Named(call[q]) = {i}
      /\ read \in IncidentRow /\ call[q].status \in Statuses \cup {NoStatus}
      /\ i \in DOMAIN seen[q]
  BY ReadyHolds, CallShape
     DEF CommitUpdate, Ready, Op, Named, TypeInv, SessionsLoaded, SessionLoaded
<1>2. i \in DOMAIN incidents
  BY <1>1 DEF CommitUpdate, Ready, Op, Commits, NoStaleRow
<1>3. incidents[i] \in IncidentRow /\ set \in IncidentRow
  BY <1>1, <1>2, UpdatedRowType DEF TypeInv, TypeOK, TablesOK, IsTable
<1>4. /\ set.status = IF call[q].status = NoStatus THEN read.status ELSE call[q].status
      /\ set.closed = (read.closed \/ Closing(call[q].status))
  BY <1>1 DEF UpdatedRow, IncidentRow
<1>5. /\ read.closed = TRUE => set.closed = TRUE
      /\ Closing(set.status) => set.status = read.status \/ set.closed = TRUE
  BY <1>4
<1>6. /\ read.closed = TRUE => incidents[i].closed = TRUE
      /\ Closing(incidents[i].status) => incidents[i].closed = TRUE
  BY <1>1, <1>2, <1>3 DEF SeenStillDated, ClosedIncidentsAreDated, IncidentRow
<1>7. LET new == Flush(read, set, incidents[i])
      IN  /\ incidents[i].closed = TRUE => new.closed = TRUE
          /\ Closing(new.status) => new.closed = TRUE
  BY <1>1, <1>3, <1>5, <1>6, FlushDated
<1>8. TableStep({})
  <2>1. DOMAIN incidents' = DOMAIN incidents
        /\ incidents'[i] = Flush(read, set, incidents[i])
        /\ \A j \in DOMAIN incidents : j # i => incidents'[j] = incidents[j]
    BY <1>2 DEF CommitUpdate
  <2>2. \A j \in DOMAIN incidents : Closing(incidents[j].status) => incidents[j].closed = TRUE
    BY DEF ClosedIncidentsAreDated, TypeInv, TypeOK, TablesOK, IsTable, IncidentRow
  <2> QED
    BY <1>7, <2>1, <2>2 DEF TableStep
<1>9. SessionStep
  BY AdvanceSession DEF CommitUpdate, Applied, TypeInv, TypeOK
<1> QED
  BY <1>8, <1>9, DatedTable DEF SessionStep

LEMMA DatedMerge ==
    ASSUME DatedInv, TypeInv', NEW q \in Requests, CommitMerge(q)
    PROVE  DatedInv'
<1> USE DEF DatedInv
<1> DEFINE master == call[q].ids[1]
           set == [i \in Named(call[q]) |->
                     IF i = master THEN MergedRow(q)
                     ELSE [seen[q][i] EXCEPT !.status = "merged"]]
<1>1. /\ call[q] \in Calls /\ WellFormed(call[q]) /\ Named(call[q]) = DOMAIN seen[q]
      /\ \A i \in Named(call[q]) : seen[q][i] \in IncidentRow
  BY ReadyHolds DEF CommitMerge, Ready, TypeInv, SessionsLoaded, SessionLoaded, Running
<1>2. \A i \in Named(call[q]) : set[i] \in IncidentRow
  <2>1. MergedRow(q) \in IncidentRow
    <3>1. master \in Named(call[q])
      BY <1>1, TargetNamed DEF CommitMerge, Ready, Op, Target
    <3>2. counted[q] \in Int
      BY DEF TypeInv, TypeOK, SessionsOK
    <3>3. UNION {seen[q][i].scope : i \in Named(call[q])} \subseteq {Attribute[a] : a \in Alerts}
      BY <1>1 DEF IncidentRow
    <3> QED
      BY <1>1, <3>1, <3>2, <3>3 DEF MergedRow, IncidentRow
  <2>2. \A i \in Named(call[q]) : [seen[q][i] EXCEPT !.status = "merged"] \in IncidentRow
    BY <1>1 DEF IncidentRow, Statuses
  <2> QED
    BY <2>1, <2>2
<1>3. ASSUME NEW i \in Named(call[q])
      PROVE  /\ set[i].closed = seen[q][i].closed
             /\ Closing(set[i].status) => set[i].status = seen[q][i].status
  BY <1>1 DEF MergedRow, IncidentRow, Closing
<1>4. \A i \in DOMAIN incidents :
        /\ incidents[i] \in IncidentRow
        /\ Closing(incidents[i].status) => incidents[i].closed = TRUE
  BY DEF ClosedIncidentsAreDated, TypeInv, TypeOK, TablesOK, IsTable, IncidentRow
<1>5. ASSUME NEW i \in DOMAIN incidents, i \in Named(call[q])
      PROVE  /\ incidents[i].closed = TRUE => incidents'[i].closed = TRUE
             /\ Closing(incidents'[i].status) => incidents'[i].closed = TRUE
  <2>1. seen[q][i].closed = TRUE => incidents[i].closed = TRUE
    BY <1>1, <1>5 DEF SeenStillDated
  <2>2. incidents'[i] = Flush(seen[q][i], set[i], incidents[i])
    BY <1>5 DEF CommitMerge
  <2>3. /\ seen[q][i] \in IncidentRow /\ set[i] \in IncidentRow
        /\ seen[q][i].closed = TRUE => set[i].closed = TRUE
        /\ Closing(set[i].status) => set[i].status = seen[q][i].status \/ set[i].closed = TRUE
    BY <1>1, <1>2, <1>3, <1>5
  <2>4. /\ incidents[i] \in IncidentRow
        /\ Closing(incidents[i].status) => incidents[i].closed = TRUE
    BY <1>4
  <2> HIDE DEF set
  <2>5. LET new == Flush(seen[q][i], set[i], incidents[i])
        IN  /\ incidents[i].closed = TRUE => new.closed = TRUE
            /\ Closing(new.status) => new.closed = TRUE
    BY <2>1, <2>3, <2>4, FlushDated
  <2> QED
    BY <2>2, <2>5
<1>6. TableStep({})
  BY <1>4, <1>5 DEF CommitMerge, TableStep
<1>7. SessionStep
  BY AdvanceSession DEF CommitMerge, Applied, TypeInv, TypeOK
<1> QED
  BY <1>6, <1>7, DatedTable DEF SessionStep

LEMMA DatedSplit ==
    ASSUME DatedInv, TypeInv', NEW q \in Requests, CommitSplit(q)
    PROVE  DatedInv'
<1> USE DEF DatedInv
<1> DEFINE i == call[q].target
           read == seen[q][i]
           set == RemainingRow(q)
<1>1. /\ i \in DOMAIN seen[q] /\ read \in IncidentRow /\ i \in Named(call[q])
  BY ReadyHolds DEF CommitSplit, Ready, Op, Named, TypeInv, SessionsLoaded, SessionLoaded, Running
<1>2. i \in DOMAIN incidents
  BY <1>1 DEF CommitSplit, Ready, Op, Commits, NoStaleRow
<1>3. \A j \in DOMAIN incidents :
        /\ incidents[j] \in IncidentRow
        /\ Closing(incidents[j].status) => incidents[j].closed = TRUE
  BY DEF ClosedIncidentsAreDated, TypeInv, TypeOK, TablesOK, IsTable, IncidentRow
<1>4. set \in IncidentRow /\ set.status = read.status /\ set.closed = read.closed
  <2>1. Moved(q) \subseteq rows[q] /\ IsFiniteSet(rows[q])
    BY DEF Moved, TypeInv, FiniteRows
  <2>2. Cardinality(Moved(q)) \in Nat
    BY <2>1, FS_Subset, FS_CardinalityType
  <2>3. read.alertCount - Cardinality(Moved(q)) \in Int
    BY <1>1, <2>2 DEF IncidentRow
  <2>4. \A ids : Scope(AlertsByEventId(ids)) \subseteq {Attribute[a] : a \in Alerts}
    BY DEF Scope, AlertsByEventId, TypeInv, TypeOK, TablesOK
  <2> QED
    BY <1>1, <2>3, <2>4 DEF RemainingRow, IncidentRow
<1>5. read.closed = TRUE => incidents[i].closed = TRUE
  BY <1>1, <1>2 DEF SeenStillDated
<1>6. LET new == Flush(read, set, incidents[i])
      IN  /\ incidents[i].closed = TRUE => new.closed = TRUE
          /\ Closing(new.status) => new.closed = TRUE
  BY <1>1, <1>2, <1>3, <1>4, <1>5, FlushDated
<1>7. pc[q] \notin Applied /\ pc'[q] \in Applied /\ SessionStep
  BY AdvanceSession DEF CommitSplit, Ready, Applied, TypeInv, TypeOK
<1>8. TableStep({q})
  <2>1. q \notin DOMAIN incidents
    BY <1>7 DEF FreshKeys
  <2>2. /\ DOMAIN incidents' = DOMAIN incidents \cup {q}
        /\ incidents'[q] = SplitOffRow(q)
        /\ incidents'[i] = Flush(read, set, incidents[i])
        /\ \A j \in DOMAIN incidents : j # i => incidents'[j] = incidents[j]
    BY <1>2, <2>1 DEF CommitSplit
  <2>3. ~Closing(SplitOffRow(q).status)
    BY DEF SplitOffRow, Closing
  <2> QED
    BY <1>3, <1>6, <2>1, <2>2, <2>3 DEF TableStep
<1> QED
  BY <1>7, <1>8, DatedTable DEF SessionStep

LEMMA DatedLoad ==
    ASSUME DatedInv, TypeInv', NEW q \in Requests, Load(q)
    PROVE  DatedInv'
<1> USE DEF DatedInv
<1>1. incidents' = incidents /\ Named(call[q]) \subseteq DOMAIN incidents
  BY DEF Load, Found, tables
<1>2. /\ seen'[q] = [i \in Named(call[q]) |-> incidents[i]]
      /\ \A r \in Requests : r # q => seen'[r] = seen[r]
      /\ \A r \in Requests : pc'[r] \in Applied <=> pc[r] \in Applied
  BY DEF Load, TypeInv, TypeOK, SessionsOK, Applied
<1>3. ClosedIncidentsAreDated'
  BY <1>1 DEF ClosedIncidentsAreDated
<1>4. SeenStillDated'
  BY <1>1, <1>2 DEF SeenStillDated
<1>5. FreshKeys'
  BY <1>1, <1>2 DEF FreshKeys
<1> QED
  BY <1>3, <1>4, <1>5

LEMMA DatedOther ==
    ASSUME DatedInv, TypeInv', SessionStep,
           DOMAIN incidents' \subseteq DOMAIN incidents,
           \A i \in DOMAIN incidents' : incidents'[i] = incidents[i]
    PROVE  DatedInv'
<1>1. TableStep({})
  BY DEF TableStep, DatedInv, ClosedIncidentsAreDated, TypeInv, TypeOK, TablesOK, IsTable,
     IncidentRow
<1> QED
  BY <1>1, DatedTable DEF SessionStep

LEMMA DatedStep == DatedInv /\ [Next]_vars => DatedInv'
<1> SUFFICES ASSUME DatedInv, [Next]_vars PROVE DatedInv'
  OBVIOUS
<1>1. TypeInv'
  BY TypeStep DEF DatedInv
<1>2. SessionsOK
  BY DEF DatedInv, TypeInv, TypeOK
<1>3. ASSUME NEW q \in Requests, Start(q) \/ Handle(q) PROVE DatedInv'
  <2>1. CASE Reject(q) \/ Abort(q) \/ LoseAudit(q) \/ Interrupt(q)
    <3>1. SessionStep
      BY <1>2, <2>1, AdvanceSession DEF Reject, Abort, LoseAudit,
           Interrupt, AuditDue, Applied, RolledBack, AfterLostAudit
    <3> QED
      BY <1>1, <2>1, <3>1, DatedOther DEF Reject, Abort, LoseAudit,
           Interrupt, tables
  <2>2. CASE LoadLinks(q) \/ LoadStats(q)
    <3>1. SessionStep
      BY <1>2, <2>2 DEF LoadLinks, LoadStats, SessionStep, SessionsOK, Applied
    <3> QED
      BY <1>1, <2>2, <3>1, DatedOther DEF LoadLinks, LoadStats, tables
  <2>3. CASE CommitDelete(q) \/ CommitNote(q) \/ RecordFeedback(q) \/ AuditFalsePositive(q)
             \/ Audit(q)
    <3>1. SessionStep
      BY <1>2, <2>3, AdvanceSession DEF CommitDelete, CommitNote, RecordFeedback,
         AuditFalsePositive, Audit, Applied
    <3> QED
      BY <1>1, <2>3, <3>1, DatedOther DEF CommitDelete, CommitNote, RecordFeedback,
         AuditFalsePositive, Audit
  <2> QED
    BY <1>1, <1>3, <2>1, <2>2, <2>3, DatedLoad, DatedUpdate, DatedMerge, DatedSplit
       DEF Start, Handle
<1>4. CASE RunCleanup
  <2>1. SessionStep
    BY <1>4 DEF RunCleanup, Cleanup, sessions, SessionStep
  <2> QED
    BY <1>1, <1>4, <2>1, DatedOther DEF RunCleanup, Cleanup
<1>5. CASE Crash
  <2>1. SessionStep
    BY <1>5 DEF Crash, SessionStep, Applied
  <2> QED
    BY <1>1, <1>5, <2>1, DatedOther DEF Crash, tables
<1>6. CASE UNCHANGED vars
  <2>1. SessionStep
    BY <1>6 DEF vars, SessionStep
  <2> QED
    BY <1>1, <1>6, <2>1, DatedOther DEF vars
<1> QED
  BY <1>3, <1>4, <1>5, <1>6 DEF Next, Quiescent

LEMMA DatedInvariance == Spec => []DatedInv
<1>1. Init => DatedInv
  <2>1. Init => ClosedIncidentsAreDated /\ SeenStillDated
    BY DEF Init, ClosedIncidentsAreDated, SeenStillDated, Closing, Nothing
  <2>2. Init => FreshKeys
    BY StoreAssumption DEF Init, FreshKeys, Nothing
  <2> QED
    BY <2>1, <2>2, TypeInit DEF DatedInv
<1> QED
  BY <1>1, DatedStep, PTL DEF Spec

\* An incident whose status is closing has its closed_at set, however the writes of
\* overlapping handlers combine.
THEOREM ClosedAlwaysDated == Spec => []ClosedIncidentsAreDated
<1>1. DatedInv => ClosedIncidentsAreDated
  BY DEF DatedInv
<1> QED
  BY <1>1, DatedInvariance, PTL

-----------------------------------------------------------------------------
(* The false-positive statistics *)

(***************************************************************************)
(* A handler writes what it read plus one, so a row is bounded only        *)
(* through what the sessions have read: every copy of a row, stored or     *)
(* loaded, counts marks that are durable already.                          *)
(***************************************************************************)
Backed(r, stat) == stat.total = stat.fp /\ stat.fp <= Cardinality(Marks(r))

SeenBacked == \A q \in Requests : \A r \in DOMAIN seenStats[q] : Backed(r, seenStats[q][r])

TallyInv == TypeInv /\ TallyNeverExceedsMarks /\ SeenBacked

\* The step that makes a mark durable.
CommitsMark(q) == CommitUpdate(q) /\ IsMark(call[q])

LEMMA MarksFinite ==
    ASSUME NEW r
    PROVE  IsFiniteSet(Marks(r)) /\ Cardinality(Marks(r)) \in Nat
<1>1. Marks(r) \subseteq Requests
  BY DEF Marks
<1> QED
  BY <1>1, StoreAssumption, FS_Subset, FS_CardinalityType

\* What a handler's step does to the marks: nothing, unless it makes one durable.
LEMMA MarkSession ==
    ASSUME TypeInv, NEW q \in Requests, Start(q) \/ Handle(q)
    PROVE  \A p \in Requests :
              /\ call'[p] = call[p]
              /\ pc[p] \in Applied => pc'[p] \in Applied
              /\ pc'[p] \in Applied /\ IsMark(call[p]) /\ ~(p = q /\ CommitsMark(q))
                    => pc[p] \in Applied
              /\ pc'[p] \in Applied /\ IsMark(call[p]) => rows'[p] = rows[p]
<1> USE DEF TypeInv, TypeOK, SessionsOK, Applied
<1>1. CASE Reject(q) \/ Abort(q)
  BY <1>1 DEF Reject, Abort, Advance, RolledBack
<1>2. CASE LoseAudit(q) \/ Interrupt(q)
  BY <1>2 DEF LoseAudit, Interrupt, AuditDue, Advance, AfterLostAudit
<1>3. CASE Load(q) \/ LoadStats(q)
  BY <1>3 DEF Load, LoadStats
<1>4. CASE LoadLinks(q)
  BY <1>4 DEF LoadLinks, AfterLinks
<1>5. CASE CommitUpdate(q)
  BY <1>5 DEF CommitUpdate, CommitsMark, Advance
<1>6. CASE CommitDelete(q) \/ CommitMerge(q) \/ CommitSplit(q) \/ CommitNote(q)
  BY <1>6 DEF CommitDelete, CommitMerge, CommitSplit, CommitNote, Ready, Op, IsMark, Advance
<1>7. CASE RecordFeedback(q) \/ AuditFalsePositive(q) \/ Audit(q)
  BY <1>7 DEF RecordFeedback, AuditFalsePositive, Audit, AuditDue, Advance
<1> QED
  BY <1>1, <1>2, <1>3, <1>4, <1>5, <1>6, <1>7 DEF Start, Handle

\* A step that makes no mark durable leaves the marks of every rule alone.
LEMMA MarksKept ==
    ASSUME TypeInv, [Next]_vars, \A q \in Requests : ~CommitsMark(q), NEW r
    PROVE  Marks(r)' = Marks(r)
<1> DEFINE Same(p) == /\ call'[p] = call[p]
                      /\ IsMark(call[p]) => (pc'[p] \in Applied <=> pc[p] \in Applied)
                      /\ pc'[p] \in Applied /\ IsMark(call[p]) => rows'[p] = rows[p]
<1>1. \A p \in Requests : Same(p)
  <2>1. ASSUME NEW q \in Requests, Start(q) \/ Handle(q) PROVE \A p \in Requests : Same(p)
    BY <2>1, MarkSession
  <2>2. CASE RunCleanup
    BY <2>2 DEF RunCleanup, Cleanup, sessions
  <2>3. CASE Crash
    BY <2>3 DEF Crash, Applied
  <2>4. CASE UNCHANGED vars
    BY <2>4 DEF vars
  <2> QED
    BY <2>1, <2>2, <2>3, <2>4 DEF Next, Quiescent
<1> QED
  BY <1>1 DEF Marks, RuleNames

\* A durable mark is one more mark of every rule of its incident.
LEMMA MarksAdded ==
    ASSUME TypeInv, NEW q \in Requests, CommitsMark(q), NEW r
    PROVE  /\ q \notin Marks(r)
           /\ Marks(r)' = IF r \in RuleNames(q) THEN Marks(r) \cup {q} ELSE Marks(r)
<1>1. /\ pc[q] = "ready" /\ pc' = [pc EXCEPT ![q] = "committed"]
      /\ call' = call /\ rows' = rows
  BY DEF CommitsMark, CommitUpdate, Ready, Advance, TypeInv, TypeOK, SessionsOK
<1>2. \A p \in Requests : pc'[p] \in Applied <=> pc[p] \in Applied \/ p = q
  BY <1>1 DEF TypeInv, TypeOK, SessionsOK, Applied
<1>3. pc[q] \notin Applied
  BY <1>1 DEF Applied
<1> QED
  BY <1>1, <1>2, <1>3 DEF Marks, RuleNames, CommitsMark

\* The row a mark writes counts one mark more than the row it read.
LEMMA MarkWrites ==
    ASSUME NEW read \in StatRow, NEW stored \in StatRow, read.total = read.fp
    PROVE  LET new == FlushStat(read, Marked(read), stored)
           IN  new.fp = read.fp + 1 /\ new.total = read.fp + 1
  BY DEF FlushStat, Marked, Column, StatRow

LEMMA TallyMark ==
    ASSUME TallyInv, NEW q \in Requests, CommitsMark(q)
    PROVE  TallyNeverExceedsMarks' /\ SeenBacked'
<1>1. ASSUME NEW r
      PROVE  /\ Cardinality(Marks(r)) \in Nat
             /\ Cardinality(Marks(r)') = Cardinality(Marks(r))
                                         + (IF r \in RuleNames(q) THEN 1 ELSE 0)
  BY MarksFinite, MarksAdded, FS_AddElement DEF TallyInv
<1>2. SeenBacked'
  <2>1. \A p \in Requests : seenStats'[p] = IF p = q THEN Nothing ELSE seenStats[p]
    BY DEF CommitsMark, CommitUpdate, Advance, TallyInv, TypeInv, TypeOK, SessionsOK
  <2> SUFFICES ASSUME NEW p \in Requests, NEW r \in DOMAIN seenStats'[p]
               PROVE  Backed(r, seenStats[p][r])'
    BY DEF SeenBacked
  <2>2. p # q /\ seenStats'[p] = seenStats[p]
    BY <2>1 DEF Nothing
  <2>3. Backed(r, seenStats[p][r]) /\ seenStats[p][r] \in StatRow
    BY <2>2 DEF TallyInv, SeenBacked, TypeInv, TypeOK, SessionsOK, IsTable
  <2> QED
    BY <1>1, <2>2, <2>3 DEF Backed, StatRow
<1>3. TallyNeverExceedsMarks'
  <2> SUFFICES ASSUME NEW r \in DOMAIN stats' PROVE Backed(r, stats[r])'
    BY DEF TallyNeverExceedsMarks, Backed
  <2>1. CASE r \notin RuleNames(q)
    <3>1. r \in DOMAIN stats /\ stats'[r] = stats[r]
      BY <2>1 DEF CommitsMark, CommitUpdate
    <3>2. stats[r] \in StatRow /\ Backed(r, stats[r])
      BY <3>1 DEF TallyInv, TallyNeverExceedsMarks, Backed, TypeInv, TypeOK, TablesOK, IsTable
    <3> QED
      BY <1>1, <3>1, <3>2 DEF Backed, StatRow
  <2>2. CASE r \in RuleNames(q) /\ r \notin DOMAIN seenStats[q]
    <3>1. stats'[r] = Marked(FreshStat)
      BY <2>2 DEF CommitsMark, CommitUpdate
    <3>2. stats'[r].fp = 1 /\ stats'[r].total = 1
      BY <3>1 DEF Marked, FreshStat
    <3> QED
      BY <1>1, <2>2, <3>2 DEF Backed
  <2>3. CASE r \in RuleNames(q) /\ r \in DOMAIN seenStats[q]
    <3> DEFINE read == seenStats[q][r]
    <3>1. r \in DOMAIN stats /\ stats[r] \in StatRow /\ read \in StatRow
      BY <2>3 DEF TallyInv, TypeInv, StatsPersist, TypeOK, TablesOK, SessionsOK, IsTable
    <3>2. read.total = read.fp /\ read.fp <= Cardinality(Marks(r))
      BY <2>3 DEF TallyInv, SeenBacked, Backed
    <3>3. stats'[r] = FlushStat(read, Marked(read), stats[r])
      BY <2>3, <3>1 DEF CommitsMark, CommitUpdate
    <3>4. stats'[r].fp = read.fp + 1 /\ stats'[r].total = read.fp + 1
      BY <3>1, <3>2, <3>3, MarkWrites
    <3> QED
      BY <1>1, <2>3, <3>1, <3>2, <3>4 DEF Backed, StatRow
  <2> QED
    BY <2>1, <2>2, <2>3
<1> QED
  BY <1>2, <1>3

\* How a step may change the copies of a statistics row a session holds: it drops
\* them, or it takes them from the table.
StatsCopied ==
    /\ stats' = stats
    /\ \A q \in Requests : \A r \in DOMAIN seenStats'[q] :
          \/ r \in DOMAIN seenStats[q] /\ seenStats'[q][r] = seenStats[q][r]
          \/ r \in DOMAIN stats /\ seenStats'[q][r] = stats[r]

LEMMA AdvanceDropsStats ==
    ASSUME TypeInv, NEW q \in Requests, NEW to, Advance(q, to), stats' = stats
    PROVE  StatsCopied
  BY DEF Advance, StatsCopied, Nothing, TypeInv, TypeOK, SessionsOK

LEMMA StatsElsewhere ==
    ASSUME TypeInv, [Next]_vars, \A q \in Requests : ~CommitsMark(q)
    PROVE  StatsCopied
<1>1. ASSUME NEW q \in Requests, Start(q) \/ Handle(q) PROVE StatsCopied
  <2>1. CASE Reject(q) \/ Abort(q) \/ LoseAudit(q) \/ Interrupt(q)
    BY <2>1, AdvanceDropsStats DEF Reject, Abort, LoseAudit,
         Interrupt, tables
  <2>2. CASE Load(q) \/ LoadLinks(q)
    BY <2>2 DEF Load, LoadLinks, tables, StatsCopied
  <2>3. CASE LoadStats(q)
    BY <2>3 DEF LoadStats, tables, StatsCopied, TypeInv, TypeOK, SessionsOK
  <2>4. CASE CommitUpdate(q)
    <3>1. stats' = stats /\ Advance(q, "committed")
      BY <2>4 DEF CommitUpdate, CommitsMark
    <3> QED
      BY <3>1, AdvanceDropsStats
  <2>5. CASE CommitDelete(q) \/ CommitMerge(q) \/ CommitSplit(q) \/ CommitNote(q)
             \/ RecordFeedback(q) \/ AuditFalsePositive(q) \/ Audit(q)
    BY <2>5, AdvanceDropsStats DEF CommitDelete, CommitMerge, CommitSplit, CommitNote,
       RecordFeedback, AuditFalsePositive, Audit
  <2> QED
    BY <1>1, <2>1, <2>2, <2>3, <2>4, <2>5 DEF Start, Handle
<1>2. CASE RunCleanup
  BY <1>2 DEF RunCleanup, Cleanup, sessions, StatsCopied
<1>3. CASE Crash
  BY <1>3 DEF Crash, tables, StatsCopied
<1>4. CASE UNCHANGED vars
  BY <1>4 DEF vars, StatsCopied
<1> QED
  BY <1>1, <1>2, <1>3, <1>4 DEF Next, Quiescent

LEMMA TallyStep == TallyInv /\ [Next]_vars => TallyInv'
<1> SUFFICES ASSUME TallyInv, [Next]_vars PROVE TallyInv'
  OBVIOUS
<1>1. TypeInv'
  BY TypeStep DEF TallyInv
<1>2. CASE \E q \in Requests : CommitsMark(q)
  BY <1>1, <1>2, TallyMark DEF TallyInv
<1>3. CASE \A q \in Requests : ~CommitsMark(q)
  <2>1. StatsCopied /\ \A r : Marks(r)' = Marks(r)
    BY <1>3, StatsElsewhere, MarksKept DEF TallyInv
  <2>2. \A r \in DOMAIN stats : Backed(r, stats[r])
    BY DEF TallyInv, TallyNeverExceedsMarks, Backed
  <2> QED
    BY <1>1, <2>1, <2>2 DEF TallyInv, TallyNeverExceedsMarks, SeenBacked, Backed, StatsCopied
<1> QED
  BY <1>2, <1>3

LEMMA TallyInvariance == Spec => []TallyInv
<1>1. Init => TallyInv
  BY TypeInit DEF Init, TallyInv, TallyNeverExceedsMarks, SeenBacked, Nothing
<1> QED
  BY <1>1, TallyStep, PTL DEF Spec

\* However overlapping marks lose each other's writes, no rule is ever charged with
\* more false positives than the incidents it linked that were really marked.
THEOREM TallyBounded == Spec => []TallyNeverExceedsMarks
<1>1. TallyInv => TallyNeverExceedsMarks
  BY DEF TallyInv
<1> QED
  BY <1>1, TallyInvariance, PTL

-----------------------------------------------------------------------------
(* One handler at a time *)

(***************************************************************************)
(* With a single worker, nothing but the retention job runs between the    *)
(* steps of a handler.  What it has read is then still what the tables     *)
(* hold, as far as its incidents still exist; if one of them is gone, its  *)
(* commit fails.                                                           *)
(***************************************************************************)
Alone == \A p, q \in Requests : pc[p] \in Running /\ pc[q] \in Running => p = q

Reading(q) == pc[q] \in {"loading", "ready"}
Awaited(q) == {pending[q][k] : k \in DOMAIN pending[q]}
Iterated(c) == {Collections(c)[k] : k \in DOMAIN Collections(c)}
Loaded(q) == Iterated(call[q]) \ Awaited(q)
Standing(q) == Reading(q) /\ Named(call[q]) \subseteq DOMAIN incidents

Blank == \A q \in Requests : pc[q] = "idle" => rows[q] = {} /\ seenStats[q] = Nothing
ReadyIsThrough == \A q \in Requests : pc[q] = "ready" => pending[q] = <<>>

\* The statistics rows a mark has read, and the rules for which it found none.
StatsCurrent(q) ==
    /\ \A r \in DOMAIN seenStats[q] : seenStats[q][r] = stats[r]
    /\ pc[q] = "ready" /\ IsMark(call[q]) => DOMAIN seenStats[q] = RuleNames(q) \cap DOMAIN stats

RowsCurrent(q) ==
    /\ \A i \in Named(call[q]) : seen[q][i] = incidents[i]
    /\ \A i \in Loaded(q) : LinksOf(i) \subseteq rows[q]

Current ==
    \A q \in Requests : /\ Reading(q) => StatsCurrent(q)
                        /\ Standing(q) => RowsCurrent(q)

SerialInv == TypeInv /\ Alone /\ Blank /\ ReadyIsThrough /\ Current

\* A worker is free only when no handler runs.
LEMMA FreeMeansNone ==
    ASSUME Workers = 1, Free
    PROVE  \A q \in Requests : pc[q] \notin Running
<1> DEFINE Busy == {q \in Requests : pc[q] \in Running}
<1>1. IsFiniteSet(Busy)
  BY StoreAssumption, FS_Subset
<1>2. Cardinality(Busy) \in Nat /\ Cardinality(Busy) < 1
  BY <1>1, FS_CardinalityType DEF Free
<1>3. Cardinality(Busy) = 0
  BY <1>2
<1>4. Busy = {}
  BY <1>1, <1>3, FS_EmptySet
<1> QED
  BY <1>4

\* A step moves at most the request it belongs to, and starts one only when none runs.
LEMMA AloneStep ==
    ASSUME Workers = 1, TypeInv, Alone, [Next]_vars
    PROVE  Alone'
<1> USE DEF TypeInv, TypeOK, SessionsOK
<1>1. ASSUME NEW q \in Requests, Start(q) \/ Handle(q) PROVE Alone'
  <2>1. \A p \in Requests : p # q => pc'[p] = pc[p]
    BY <1>1 DEF Start, Handle, Load, Reject, LoadLinks, LoadStats, CommitUpdate, CommitDelete,
       CommitMerge, CommitSplit, CommitNote, Abort, RecordFeedback, AuditFalsePositive, Audit,
       LoseAudit, Interrupt, Advance
  <2>2. CASE pc[q] \in Running
    BY <2>1, <2>2 DEF Alone
  <2>3. CASE pc[q] \notin Running
    <3>1. Start(q)
      BY <1>1, <2>3 DEF Handle, LoadLinks, LoadStats, CommitUpdate, CommitDelete, CommitMerge,
         CommitSplit, CommitNote, Abort, RecordFeedback, AuditFalsePositive, Audit, AuditDue,
         LoseAudit, Interrupt, Ready, Running, RolledBack, AfterLostAudit
    <3>2. \A p \in Requests : pc[p] \notin Running
      BY <3>1, FreeMeansNone DEF Start, Load, Reject
    <3> QED
      BY <2>1, <3>2 DEF Alone
  <2> QED
    BY <2>2, <2>3
<1>2. CASE RunCleanup
  BY <1>2 DEF RunCleanup, Cleanup, sessions, Alone
<1>3. CASE Crash
  BY <1>3 DEF Crash, Alone, Running
<1>4. CASE UNCHANGED vars
  BY <1>4 DEF vars, Alone
<1> QED
  BY <1>1, <1>2, <1>3, <1>4 DEF Next, Quiescent

\* What a request has not started, or has read through.
LEMMA BlankStep ==
    ASSUME TypeInv, Blank, ReadyIsThrough, [Next]_vars
    PROVE  Blank' /\ ReadyIsThrough'
<1> USE DEF TypeInv, TypeOK, SessionsOK
<1>1. ASSUME NEW q \in Requests, Start(q) \/ Handle(q) PROVE Blank' /\ ReadyIsThrough'
  <2>1. CASE Reject(q) \/ Abort(q) \/ LoseAudit(q) \/ Interrupt(q)
    BY <2>1 DEF Reject, Abort, LoseAudit, Interrupt, Advance,
         Blank, ReadyIsThrough, RolledBack, AfterLostAudit
  <2>2. CASE Load(q)
    BY <2>2 DEF Load, Blank, ReadyIsThrough
  <2>3. CASE LoadLinks(q)
    <3>1. pending[q] \in Seq(IncidentIds) /\ pending[q] # <<>>
      BY <2>3 DEF LoadLinks
    <3>2. pc'[q] = "ready" => Tail(pending[q]) = <<>>
      BY <2>3 DEF LoadLinks, AfterLinks
    <3>3. pc'[q] # "idle"
      BY <2>3 DEF LoadLinks, AfterLinks
    <3> QED
      BY <2>3, <3>2, <3>3 DEF LoadLinks, Blank, ReadyIsThrough
  <2>4. CASE LoadStats(q)
    BY <2>4 DEF LoadStats, Blank, ReadyIsThrough
  <2>5. CASE CommitUpdate(q) \/ CommitDelete(q) \/ CommitMerge(q) \/ CommitSplit(q)
             \/ CommitNote(q) \/ RecordFeedback(q) \/ AuditFalsePositive(q) \/ Audit(q)
    BY <2>5 DEF CommitUpdate, CommitDelete, CommitMerge, CommitSplit, CommitNote,
       RecordFeedback, AuditFalsePositive, Audit, Advance, Blank, ReadyIsThrough
  <2> QED
    BY <1>1, <2>1, <2>2, <2>3, <2>4, <2>5 DEF Start, Handle
<1>2. CASE RunCleanup
  BY <1>2 DEF RunCleanup, Cleanup, sessions, Blank, ReadyIsThrough
<1>3. CASE Crash
  BY <1>3 DEF Crash, Blank, ReadyIsThrough, Running
<1>4. CASE UNCHANGED vars
  BY <1>4 DEF vars, Blank, ReadyIsThrough
<1> QED
  BY <1>1, <1>2, <1>3, <1>4 DEF Next, Quiescent

\* While one handler steps, no other is under way.
LEMMA OthersRest ==
    ASSUME Workers = 1, TypeInv, Alone, NEW q \in Requests, Start(q) \/ Handle(q)
    PROVE  \A p \in Requests : p # q => pc[p] \notin Running /\ pc'[p] = pc[p]
<1>1. \A p \in Requests : p # q => pc'[p] = pc[p]
  BY DEF Start, Handle, Load, Reject, LoadLinks, LoadStats, CommitUpdate, CommitDelete,
     CommitMerge, CommitSplit, CommitNote, Abort, RecordFeedback, AuditFalsePositive, Audit,
     LoseAudit, Interrupt, Advance, TypeInv, TypeOK, SessionsOK
<1>2. CASE Start(q)
  BY <1>1, <1>2, FreeMeansNone DEF Start, Load, Reject
<1>3. CASE Handle(q)
  <2>1. pc[q] \in Running
    BY <1>3 DEF Handle, LoadLinks, LoadStats, CommitUpdate, CommitDelete, CommitMerge,
       CommitSplit, CommitNote, Abort, RecordFeedback, AuditFalsePositive, Audit, AuditDue,
       LoseAudit, Interrupt, Ready, Running, RolledBack, AfterLostAudit
  <2> QED
    BY <1>1, <2>1 DEF Alone
<1> QED
  BY <1>2, <1>3

\* The head of what is awaited is loaded next.
LEMMA LoadedNext ==
    ASSUME TypeInv, NEW q \in Requests, LoadLinks(q)
    PROVE  /\ Loaded(q)' \subseteq Loaded(q) \cup {Head(pending[q])}
           /\ Awaited(q) = Awaited(q)' \cup {Head(pending[q])}
<1> DEFINE s == pending[q]
<1>1. s \in Seq(IncidentIds) /\ s # <<>> /\ pending'[q] = Tail(s) /\ call' = call
  BY DEF LoadLinks, TypeInv, TypeOK, SessionsOK
<1>2. \A k \in DOMAIN Tail(s) : k + 1 \in DOMAIN s /\ Tail(s)[k] = s[k + 1]
  BY <1>1
<1>3. \A k \in DOMAIN s : k = 1 \/ (k - 1 \in DOMAIN Tail(s) /\ s[k] = Tail(s)[k - 1])
  BY <1>1
<1>4. 1 \in DOMAIN s /\ s[1] = Head(s)
  BY <1>1
<1>5. Awaited(q)' = {Tail(s)[k] : k \in DOMAIN Tail(s)}
  BY <1>1 DEF Awaited
<1>6. Awaited(q) = Awaited(q)' \cup {Head(s)}
  <2>1. ASSUME NEW i \in Awaited(q) PROVE i \in Awaited(q)' \cup {Head(s)}
    <3>1. PICK k \in DOMAIN s : i = s[k]
      BY DEF Awaited
    <3> QED
      BY <1>3, <1>4, <1>5, <3>1
  <2>2. Head(s) \in Awaited(q)
    BY <1>4 DEF Awaited
  <2>3. ASSUME NEW i \in Awaited(q)' PROVE i \in Awaited(q)
    <3>1. PICK k \in DOMAIN Tail(s) : i = Tail(s)[k]
      BY <1>5, <2>3
    <3>2. k + 1 \in DOMAIN s /\ i = s[k + 1]
      BY <1>2, <3>1
    <3> QED
      BY <3>2 DEF Awaited
  <2> QED
    BY <2>1, <2>2, <2>3
<1> QED
  BY <1>1, <1>6 DEF Loaded

LEMMA CurrentLoad ==
    ASSUME SerialInv, NEW q \in Requests, Load(q)
    PROVE  StatsCurrent(q)' /\ RowsCurrent(q)'
<1> USE DEF SerialInv, TypeInv, TypeOK, SessionsOK
<1>1. /\ seenStats'[q] = Nothing /\ rows'[q] = {} /\ call' = call /\ incidents' = incidents
      /\ pending'[q] = Collections(call[q])
      /\ seen'[q] = [i \in Named(call[q]) |-> incidents[i]]
  BY DEF Load, tables, Blank
<1>2. pc'[q] = "ready" => ~IsMark(call[q])
  BY CallShape DEF Load, Collections, IsMark
<1>3. StatsCurrent(q)'
  BY <1>1, <1>2 DEF StatsCurrent, Nothing
<1>4. Loaded(q)' = {}
  BY <1>1 DEF Loaded, Iterated, Awaited
<1> QED
  BY <1>1, <1>3, <1>4 DEF RowsCurrent

LEMMA CurrentLinks ==
    ASSUME SerialInv, NEW q \in Requests, LoadLinks(q)
    PROVE  /\ Reading(q)' => StatsCurrent(q)'
           /\ Standing(q)' => RowsCurrent(q)'
<1> USE DEF SerialInv, TypeInv, TypeOK, SessionsOK
<1> DEFINE loaded == rows[q] \cup LinksOf(Head(pending[q]))
<1>1. /\ pc'[q] = AfterLinks(q, loaded)
      /\ rows'[q] = IF pc'[q] = "rejected" THEN {} ELSE loaded
      /\ UNCHANGED <<alerts, incidents, links, stats, call, seen, seenStats>>
  BY DEF LoadLinks, tables
<1>2. Reading(q)
  BY DEF LoadLinks, Reading
<1>3. pc'[q] = "ready" => ~IsMark(call[q])
  BY <1>1 DEF AfterLinks
<1>4. Reading(q)' => StatsCurrent(q)'
  BY <1>1, <1>2, <1>3 DEF Current, StatsCurrent
<1>5. ASSUME Standing(q)' PROVE RowsCurrent(q)'
  <2>1. Standing(q) /\ rows'[q] = loaded
    BY <1>1, <1>2, <1>5 DEF Standing, Reading
  <2>2. RowsCurrent(q)
    BY <2>1 DEF Current
  <2>3. \A i : LinksOf(i)' = LinksOf(i)
    BY <1>1 DEF LinksOf
  <2> QED
    BY <1>1, <2>1, <2>2, <2>3, LoadedNext DEF RowsCurrent
<1> QED
  BY <1>4, <1>5

LEMMA CurrentStats ==
    ASSUME SerialInv, NEW q \in Requests, LoadStats(q)
    PROVE  /\ StatsCurrent(q)'
           /\ Standing(q)' => RowsCurrent(q)'
<1> USE DEF SerialInv, TypeInv, TypeOK, SessionsOK
<1>1. /\ seenStats'[q] = [r \in RuleNames(q) \cap DOMAIN stats |-> stats[r]]
      /\ UNCHANGED <<alerts, incidents, links, stats, call, seen, rows, pending>>
  BY DEF LoadStats, tables
<1>2. StatsCurrent(q)'
  BY <1>1 DEF StatsCurrent, RuleNames
<1>3. ASSUME Standing(q)' PROVE RowsCurrent(q)'
  <2>1. Standing(q)
    BY <1>1, <1>3 DEF LoadStats, Standing, Reading
  <2>2. Loaded(q)' = Loaded(q) /\ \A i : LinksOf(i)' = LinksOf(i)
    BY <1>1 DEF Loaded, Awaited, LinksOf
  <2> QED
    BY <1>1, <2>1, <2>2 DEF Current, RowsCurrent
<1> QED
  BY <1>2, <1>3

LEMMA CurrentStep ==
    ASSUME Workers = 1, SerialInv, [Next]_vars
    PROVE  Current'
<1> USE DEF SerialInv, TypeInv, TypeOK, SessionsOK
<1>1. ASSUME NEW q \in Requests, Start(q) \/ Handle(q) PROVE Current'
  <2>1. \A p \in Requests : p # q => ~Reading(p)'
    BY <1>1, OthersRest DEF Reading, Running
  <2> SUFFICES /\ Reading(q)' => StatsCurrent(q)'
               /\ Standing(q)' => RowsCurrent(q)'
    BY <2>1 DEF Current, Standing
  <2>2. CASE Load(q) \/ LoadLinks(q) \/ LoadStats(q)
    BY <2>2, CurrentLoad, CurrentLinks, CurrentStats
  <2>3. CASE ~(Load(q) \/ LoadLinks(q) \/ LoadStats(q))
    <3>1. ~Reading(q)'
      BY <1>1, <2>3 DEF Start, Handle, Reject, CommitUpdate, CommitDelete, CommitMerge,
         CommitSplit, CommitNote, Abort, RecordFeedback, AuditFalsePositive,
         Audit, LoseAudit, Interrupt,
         Advance, Reading, RolledBack, AfterLostAudit
    <3> QED
      BY <3>1 DEF Standing
  <2> QED
    BY <2>2, <2>3
<1>2. CASE RunCleanup
  <2>1. PICK expired, old, aged : Cleanup(expired, old, aged)
    BY <1>2 DEF RunCleanup
  <2>2. /\ UNCHANGED <<stats, pc, call, seen, rows, pending, seenStats>>
        /\ links' \subseteq links /\ DOMAIN incidents' \subseteq DOMAIN incidents
        /\ \A i \in DOMAIN incidents' : incidents'[i] = incidents[i]
    BY <2>1 DEF Cleanup, sessions
  <2>3. ASSUME NEW q \in Requests PROVE Reading(q)' => StatsCurrent(q)'
    BY <2>2 DEF Current, Reading, StatsCurrent, RuleNames
  <2>4. ASSUME NEW q \in Requests, Standing(q)' PROVE RowsCurrent(q)'
    <3>1. Standing(q) /\ Loaded(q)' = Loaded(q)
      BY <2>2, <2>4 DEF Standing, Reading, Loaded, Awaited
    <3>2. \A i : LinksOf(i)' \subseteq LinksOf(i)
      BY <2>2 DEF LinksOf
    <3> QED
      BY <2>2, <2>4, <3>1, <3>2 DEF Current, RowsCurrent, Standing
  <2> QED
    BY <2>3, <2>4 DEF Current
<1>3. CASE Crash
  <2>1. \A q \in Requests : ~Reading(q)'
    BY <1>3 DEF Crash, Reading
  <2> QED
    BY <2>1 DEF Current, Standing
<1>4. CASE UNCHANGED vars
  <2>1. ASSUME NEW q \in Requests
        PROVE  /\ Reading(q)' = Reading(q) /\ Standing(q)' = Standing(q)
               /\ StatsCurrent(q)' = StatsCurrent(q)
               /\ Loaded(q)' = Loaded(q) /\ \A i : LinksOf(i)' = LinksOf(i)
    BY <1>4 DEF vars, Standing, Reading, StatsCurrent, RuleNames, Loaded, Awaited, LinksOf
  <2>2. ASSUME NEW q \in Requests PROVE RowsCurrent(q)' = RowsCurrent(q)
    BY <1>4, <2>1 DEF vars, RowsCurrent
  <2> QED
    BY <2>1, <2>2 DEF Current
<1> QED
  BY <1>1, <1>2, <1>3, <1>4 DEF Next, Quiescent

LEMMA SerialInvariance == ASSUME Workers = 1 PROVE Spec => []SerialInv
<1>1. Init => SerialInv
  <2> SUFFICES ASSUME Init PROVE SerialInv
    OBVIOUS
  <2>1. Alone /\ Blank /\ ReadyIsThrough /\ Current
    BY DEF Init, Alone, Blank, ReadyIsThrough, Current, Standing, Reading, Running
  <2> QED
    BY <2>1, TypeInit DEF SerialInv
<1>2. SerialInv /\ [Next]_vars => SerialInv'
  BY TypeStep, AloneStep, BlankStep, CurrentStep DEF SerialInv
<1> QED
  BY <1>1, <1>2, PTL DEF Spec

-----------------------------------------------------------------------------
(* One handler at a time: the tally is exact *)

LEMMA ExactMark ==
    ASSUME SerialInv, TallyInv, TallyIsExact, NEW q \in Requests, CommitsMark(q)
    PROVE  TallyIsExact'
<1>1. StatsCurrent(q) /\ DOMAIN seenStats[q] = RuleNames(q) \cap DOMAIN stats
  BY DEF CommitsMark, CommitUpdate, Ready, SerialInv, Current, Reading, StatsCurrent
<1> SUFFICES ASSUME NEW r \in Rules
             PROVE  (IF r \in DOMAIN stats' THEN stats'[r].fp ELSE 0) = Cardinality(Marks(r)')
  BY DEF TallyIsExact
<1>2. Cardinality(Marks(r)') = Cardinality(Marks(r)) + (IF r \in RuleNames(q) THEN 1 ELSE 0)
      /\ Cardinality(Marks(r)) \in Nat
  BY MarksFinite, MarksAdded, FS_AddElement DEF TallyInv
<1>3. (IF r \in DOMAIN stats THEN stats[r].fp ELSE 0) = Cardinality(Marks(r))
  BY DEF TallyIsExact
<1>4. CASE r \notin RuleNames(q)
  BY <1>2, <1>3, <1>4 DEF CommitsMark, CommitUpdate
<1>5. CASE r \in RuleNames(q) /\ r \notin DOMAIN stats
  <2>1. r \in DOMAIN stats' /\ stats'[r] = Marked(FreshStat)
    BY <1>1, <1>5 DEF CommitsMark, CommitUpdate
  <2>2. stats'[r].fp = 1
    BY <2>1 DEF Marked, FreshStat
  <2> QED
    BY <1>2, <1>3, <1>5, <2>1, <2>2
<1>6. CASE r \in RuleNames(q) /\ r \in DOMAIN stats
  <2> DEFINE read == seenStats[q][r]
  <2>1. read = stats[r] /\ read \in StatRow /\ read.total = read.fp
    BY <1>1, <1>6
       DEF StatsCurrent, TallyInv, SeenBacked, Backed, TypeInv, TypeOK, SessionsOK, IsTable
  <2>2. r \in DOMAIN stats' /\ stats'[r] = FlushStat(read, Marked(read), stats[r])
    BY <1>1, <1>6 DEF CommitsMark, CommitUpdate
  <2>3. stats'[r].fp = read.fp + 1
    BY <2>1, <2>2, MarkWrites
  <2> QED
    BY <1>2, <1>3, <1>6, <2>1, <2>2, <2>3
<1> QED
  BY <1>4, <1>5, <1>6

\* With a single worker no mark is lost: each is counted once for every rule by which
\* its incident is linked, whatever fails, crashes or is purged in between.
THEOREM TallyExact == ASSUME Workers = 1 PROVE Spec => []TallyIsExact
<1>1. Init => TallyIsExact
  <2> SUFFICES ASSUME Init PROVE TallyIsExact
    OBVIOUS
  <2>1. \A r : Marks(r) = {}
    BY DEF Init, Marks, Applied
  <2> QED
    BY <2>1, FS_EmptySet DEF Init, TallyIsExact, Nothing
<1>2. SerialInv /\ TallyInv /\ TallyIsExact /\ [Next]_vars => TallyIsExact'
  <2> SUFFICES ASSUME SerialInv, TallyInv, TallyIsExact, [Next]_vars PROVE TallyIsExact'
    OBVIOUS
  <2>1. CASE \E q \in Requests : CommitsMark(q)
    BY <2>1, ExactMark
  <2>2. CASE \A q \in Requests : ~CommitsMark(q)
    <3>1. stats' = stats /\ \A r : Marks(r)' = Marks(r)
      BY <2>2, StatsElsewhere, MarksKept DEF SerialInv, StatsCopied
    <3> QED
      BY <3>1 DEF TallyIsExact
  <2> QED
    BY <2>1, <2>2
<1> QED
  BY <1>1, <1>2, SerialInvariance, TallyInvariance, PTL DEF Spec

-----------------------------------------------------------------------------
(* One handler at a time: a merge absorbs *)

Absorbs(q) ==
    LET master == call[q].ids[1]
    IN  \A i \in Named(call[q]) :
          /\ Linked(i) \subseteq {l.alert : l \in {m \in links' : m.incident = master}}
          /\ incidents[i].scope \subseteq incidents'[master].scope

MergesNow(q) == Op(q) = "merge" /\ pc[q] = "ready" /\ pc'[q] = "committed"

Absorption ==
    \A q \in Requests : Op(q) = "merge" /\ pc[q] = "ready" /\ pc'[q] = "committed" =>
       LET master == call[q].ids[1]
       IN  \A i \in Named(call[q]) :
             /\ Linked(i) \subseteq {l.alert : l \in {m \in links' : m.incident = master}}
             /\ incidents[i].scope \subseteq incidents'[master].scope

\* A merge names its master first, and iterates over all the others.
LEMMA MergeIterates ==
    ASSUME NEW c \in Calls, c.op = "merge", WellFormed(c)
    PROVE  /\ c.ids[1] \in Named(c)
           /\ Named(c) = Iterated(c) \cup {c.ids[1]}
<1> DEFINE s == c.ids
<1>1. s \in Seq(IncidentIds) /\ Len(s) >= 2 /\ Collections(c) = Tail(s)
  BY CallShape DEF WellFormed, Collections, IsMark
<1>2. \A k \in DOMAIN Tail(s) : k + 1 \in DOMAIN s /\ Tail(s)[k] = s[k + 1]
  BY <1>1
<1>3. \A k \in DOMAIN s : k = 1 \/ (k - 1 \in DOMAIN Tail(s) /\ s[k] = Tail(s)[k - 1])
  BY <1>1
<1>4. 1 \in DOMAIN s
  BY <1>1
<1>5. Named(c) = {s[k] : k \in DOMAIN s}
  BY DEF Named
<1>6. Iterated(c) = {Tail(s)[k] : k \in DOMAIN Tail(s)}
  BY <1>1 DEF Iterated
<1>7. ASSUME NEW i \in Named(c) PROVE i \in Iterated(c) \cup {s[1]}
  <2>1. PICK k \in DOMAIN s : i = s[k]
    BY <1>5
  <2> QED
    BY <1>3, <1>6, <2>1
<1>8. ASSUME NEW i \in Iterated(c) PROVE i \in Named(c)
  BY <1>2, <1>5, <1>6
<1> QED
  BY <1>4, <1>5, <1>7, <1>8

LEMMA MergeAbsorbsAll ==
    ASSUME SerialInv, NEW q \in Requests, CommitMerge(q)
    PROVE  Absorbs(q)
<1> DEFINE master == call[q].ids[1]
<1>1. /\ call[q] \in Calls /\ WellFormed(call[q]) /\ call[q].op = "merge"
      /\ \A i \in Named(call[q]) : seen[q][i] \in IncidentRow
  BY ReadyHolds DEF CommitMerge, Ready, Op, SerialInv
<1>2. Named(call[q]) \subseteq DOMAIN incidents
  BY DEF CommitMerge, Ready, Commits, NoStaleRow
<1>3. RowsCurrent(q) /\ Awaited(q) = {}
  BY <1>2 DEF CommitMerge, Ready, SerialInv, Current, Standing, Reading, ReadyIsThrough, Awaited
<1>4. master \in Named(call[q]) /\ Named(call[q]) = Loaded(q) \cup {master}
  BY <1>1, <1>3, MergeIterates DEF Loaded
<1> SUFFICES ASSUME NEW i \in Named(call[q])
             PROVE  /\ Linked(i) \subseteq {l.alert : l \in {m \in links' : m.incident = master}}
                    /\ incidents[i].scope \subseteq incidents'[master].scope
  BY DEF Absorbs
<1>5. ASSUME NEW l \in LinksOf(i)
      PROVE  \E m \in links' : m.incident = master /\ m.alert = l.alert
  <2>1. CASE i = master
    BY <1>5, <2>1 DEF LinksOf, CommitMerge
  <2>2. CASE i # master
    <3>1. l \in rows[q]
      BY <1>3, <1>4, <1>5, <2>2 DEF RowsCurrent
    <3>2. Copy(l, master, "merge", q) \in links'
      BY <3>1 DEF CommitMerge
    <3>3. /\ Copy(l, master, "merge", q).incident = master
          /\ Copy(l, master, "merge", q).alert = l.alert
      BY DEF Copy
    <3> QED
      BY <3>2, <3>3
  <2> QED
    BY <2>1, <2>2
<1>6. incidents[i].scope \subseteq incidents'[master].scope
  <2> DEFINE all == UNION {seen[q][j].scope : j \in Named(call[q])}
  <2>1. MergedRow(q).scope = all
    BY <1>1, <1>4 DEF MergedRow, IncidentRow
  <2>2. incidents'[master] = Flush(seen[q][master], MergedRow(q), incidents[master])
    BY <1>2, <1>4 DEF CommitMerge
  <2>3. seen[q][master] = incidents[master] /\ seen[q][i] = incidents[i]
    BY <1>3, <1>4 DEF RowsCurrent
  <2>4. incidents'[master].scope
          = Column(seen[q][master].scope, MergedRow(q).scope, incidents[master].scope)
    BY <2>2 DEF Flush
  <2>5. incidents[i].scope \subseteq all
    BY <2>3
  <2> HIDE DEF all
  <2>6. incidents'[master].scope = all
    BY <2>1, <2>3, <2>4 DEF Column
  <2> QED
    BY <2>5, <2>6
<1> QED
  BY <1>5, <1>6 DEF Linked, AlertsIn

LEMMA MergeStep ==
    ASSUME SerialInv, [Next]_vars, NEW q \in Requests, MergesNow(q)
    PROVE  CommitMerge(q)
<1> USE DEF SerialInv, TypeInv, TypeOK, SessionsOK
<1>1. ASSUME NEW p \in Requests, Start(p) \/ Handle(p) PROVE CommitMerge(q)
  <2>1. p = q
    BY <1>1 DEF MergesNow, Start, Handle, Load, Reject, LoadLinks, LoadStats, CommitUpdate,
       CommitDelete, CommitMerge, CommitSplit, CommitNote, Abort, RecordFeedback,
       AuditFalsePositive, Audit, LoseAudit, Interrupt, Advance
  <2> QED
    BY <1>1, <2>1 DEF MergesNow, Start, Handle, Load, Reject, LoadLinks, LoadStats,
       CommitUpdate, CommitDelete, CommitSplit, CommitNote, Ready, Abort, RecordFeedback,
       AuditFalsePositive, Audit, AuditDue, LoseAudit, Interrupt, Advance
<1>2. ~(RunCleanup \/ Crash \/ UNCHANGED vars)
  BY DEF MergesNow, RunCleanup, Cleanup, sessions, Crash, vars
<1> QED
  BY <1>1, <1>2 DEF Next, Quiescent

\* With a single worker, a merge leaves the master with every alert and every
\* attribute of the incidents it absorbs, even when alerts or incidents are purged
\* while it is under way.
THEOREM MergesAbsorb == ASSUME Workers = 1 PROVE Spec => MergeAbsorbs
<1>1. SerialInv /\ [Next]_vars => [Absorption]_vars
  <2>1. SerialInv /\ [Next]_vars => \A q \in Requests : MergesNow(q) => Absorbs(q)
    BY MergeStep, MergeAbsorbsAll
  <2> QED
    BY <2>1 DEF Absorption, MergesNow, Absorbs
<1>2. Spec => [][Absorption]_vars
  BY <1>1, SerialInvariance, PTL DEF Spec
<1> QED
  BY <1>2, PTL DEF MergeAbsorbs, Absorption

-----------------------------------------------------------------------------
(* One handler at a time: alert_count is the number of link rows *)

(***************************************************************************)
(* A merge and a split give every row they copy a new key, so copies of    *)
(* different rows are different rows.  In the model the key is the pair    *)
(* of alert and path; the last entry of a path tells who wrote the row.    *)
(***************************************************************************)
Writer(l) == l.path[Len(l.path)]
Home(q) == IF Op(q) = "merge" THEN Target(call[q]) ELSE q
Written(l) ==
    /\ l.path # <<>>
    /\ \/ Writer(l) \in Seeds /\ l.incident = Writer(l) /\ l.rule = "auto"
       \/ /\ Writer(l) \in Requests /\ pc[Writer(l)] \in Applied
          /\ l.incident = Home(Writer(l)) /\ l.rule = Op(Writer(l))

Keyed == \A l \in links : Written(l)

\* Appending the same request to two paths leaves them as different as they were.
LEMMA AppendInjective ==
    ASSUME NEW S, NEW s \in Seq(S), NEW t \in Seq(S), NEW x,
           Append(s, x) = Append(t, x)
    PROVE  s = t
<1>1. Len(Append(s, x)) = Len(s) + 1 /\ Len(Append(t, x)) = Len(t) + 1
  OBVIOUS
<1>2. Len(s) = Len(t)
  BY <1>1
<1>3. \A k \in 1 .. Len(s) : Append(s, x)[k] = s[k] /\ Append(t, x)[k] = t[k]
  BY <1>2
<1> QED
  BY <1>2, <1>3

LEMMA KeyedApart ==
    ASSUME TypeInv, Keyed, NEW l \in links, NEW m \in links,
           l.alert = m.alert, l.path = m.path
    PROVE  l = m
<1>1. Writer(l) = Writer(m)
  BY DEF Writer
<1>2. l.incident = m.incident /\ l.rule = m.rule
  BY <1>1, StoreAssumption DEF Keyed, Written
<1>3. l \in LinkRow /\ m \in LinkRow
  BY DEF TypeInv, TypeOK, TablesOK
<1> QED
  BY <1>2, <1>3 DEF LinkRow

\* As many copies as rows copied.
LEMMA CopiesCounted ==
    ASSUME TypeInv, Keyed, NEW S \in SUBSET links, NEW i, NEW rule, NEW q
    PROVE  LET copies == {Copy(r, i, rule, q) : r \in S}
           IN  IsFiniteSet(copies) /\ Cardinality(copies) = Cardinality(S)
<1> DEFINE copies == {Copy(r, i, rule, q) : r \in S}
           f == [r \in S |-> Copy(r, i, rule, q)]
<1>1. IsFiniteSet(S)
  BY FS_Subset DEF TypeInv, FiniteRows
<1>2. f \in Surjection(S, copies)
  BY DEF Surjection
<1>3. ASSUME NEW l \in S, NEW m \in S, f[l] = f[m] PROVE l = m
  <2>1. l.alert = m.alert /\ Append(l.path, q) = Append(m.path, q)
    BY <1>3 DEF Copy
  <2>2. l.path \in Seq(IncidentIds) /\ m.path \in Seq(IncidentIds)
    BY DEF TypeInv, TypeOK, TablesOK, LinkRow
  <2>3. l.path = m.path
    BY <2>1, <2>2, AppendInjective
  <2> QED
    BY <2>1, <2>3, KeyedApart
<1>4. f \in Injection(S, copies)
  <2> HIDE DEF f
  <2> QED
    BY <1>2, <1>3 DEF Injection, IsInjective, Surjection
<1> QED
  BY <1>1, <1>2, <1>4, FS_Surjection

\* The row a request writes is its own.
LEMMA CopyWritten ==
    ASSUME TypeInv, NEW q \in Requests, NEW r \in LinkRow,
           NEW l, l = Copy(r, Home(q), Op(q), q), pc'[q] \in Applied, call' = call
    PROVE  Written(l)'
<1>1. r.path \in Seq(IncidentIds) /\ q \in IncidentIds
  BY DEF LinkRow, IncidentIds
<1>2. l.path = Append(r.path, q) /\ l.incident = Home(q) /\ l.rule = Op(q)
  BY DEF Copy
<1>3. l.path # <<>> /\ Writer(l) = q
  BY <1>1, <1>2 DEF Writer
<1> QED
  BY <1>2, <1>3 DEF Written, Home, Op

LEMMA KeyedStep == TypeInv /\ Keyed /\ [Next]_vars => Keyed'
<1> SUFFICES ASSUME TypeInv, Keyed, [Next]_vars PROVE Keyed'
  OBVIOUS
<1>1. ASSUME call' = call, \A p \in Requests : pc[p] \in Applied => pc'[p] \in Applied,
             NEW l \in links
      PROVE  Written(l)'
  BY <1>1 DEF Keyed, Written, Home, Op
<1>2. ASSUME NEW q \in Requests, Start(q) \/ Handle(q) PROVE Keyed'
  <2>1. call' = call /\ \A p \in Requests : pc[p] \in Applied => pc'[p] \in Applied
    <3>1. call' = call
      BY <1>2 DEF Start, Handle, Load, Reject, LoadLinks, LoadStats, CommitUpdate,
         CommitDelete, CommitMerge, CommitSplit, CommitNote, Abort, RecordFeedback,
         AuditFalsePositive, Audit, LoseAudit, Interrupt, Advance
    <3> QED
      BY <1>2, <3>1, MarkSession
  <2>2. CASE CommitMerge(q)
    <3>1. links' = links \cup {Copy(r, Home(q), Op(q), q) : r \in rows[q]}
      BY <2>2 DEF CommitMerge, Ready, Home, Target, Op
    <3>2. rows[q] \subseteq LinkRow /\ pc'[q] \in Applied
      BY <2>2 DEF CommitMerge, Advance, Applied, TypeInv, TypeOK, SessionsOK
    <3> QED
      BY <1>1, <2>1, <3>1, <3>2, CopyWritten DEF Keyed
  <2>3. CASE CommitSplit(q)
    <3>1. links' \subseteq links \cup {Copy(r, Home(q), Op(q), q) : r \in rows[q]}
      BY <2>3 DEF CommitSplit, Ready, Home, Op, Moved
    <3>2. rows[q] \subseteq LinkRow /\ pc'[q] \in Applied
      BY <2>3 DEF CommitSplit, Advance, Applied, TypeInv, TypeOK, SessionsOK
    <3>3. ASSUME NEW l \in links' PROVE Written(l)'
      <4>1. CASE l \in links
        BY <1>1, <2>1, <4>1
      <4>2. CASE l \notin links
        <5>1. PICK r \in rows[q] : l = Copy(r, Home(q), Op(q), q)
          BY <3>1, <4>2
        <5> QED
          BY <2>1, <3>2, <5>1, CopyWritten
      <4> QED
        BY <4>1, <4>2
    <3> QED
      BY <3>3 DEF Keyed
  <2>4. CASE ~(CommitMerge(q) \/ CommitSplit(q))
    <3>1. links' \subseteq links
      BY <1>2, <2>4 DEF Start, Handle, Load, Reject, LoadLinks, LoadStats, CommitUpdate,
         CommitDelete, CommitNote, Abort, RecordFeedback, AuditFalsePositive,
         Audit, LoseAudit, Interrupt,
         tables
    <3> QED
      BY <1>1, <2>1, <3>1 DEF Keyed
  <2> QED
    BY <2>2, <2>3, <2>4
<1>3. CASE RunCleanup
  BY <1>1, <1>3 DEF RunCleanup, Cleanup, sessions, Keyed
<1>4. CASE Crash
  BY <1>1, <1>4 DEF Crash, tables, Keyed, Applied
<1>5. CASE UNCHANGED vars
  BY <1>1, <1>5 DEF vars, Keyed
<1> QED
  BY <1>2, <1>3, <1>4, <1>5 DEF Next, Quiescent

LEMMA KeyedInvariance == Spec => []Keyed
<1>1. Init => Keyed
  <2> SUFFICES ASSUME Init, NEW l \in links PROVE Written(l)
    BY DEF Keyed
  <2>1. PICK i \in Seeds : l \in SeedLinks(i)
    BY DEF Init
  <2>2. l.path = <<i>> /\ l.incident = i /\ l.rule = "auto"
    BY <2>1 DEF SeedLinks
  <2> QED
    BY <2>2 DEF Written, Writer
<1> QED
  BY <1>1, KeyedStep, TypeInvariance, PTL DEF Spec

-----------------------------------------------------------------------------
(* ... a merge visits every incident once *)

\* What a handler has still to load are different incidents of those it iterates over,
\* and not the master, whose alert_count a merge starts from.
InTurn(q) ==
    /\ IsInjective(pending[q]) /\ Awaited(q) \subseteq Iterated(call[q])
    /\ Op(q) = "merge" => Target(call[q]) \notin Awaited(q)

OnceEach == \A q \in Requests : Reading(q) => InTurn(q)

LEMMA TailDistinct ==
    ASSUME NEW s \in Seq(IncidentIds), s # <<>>, IsInjective(s)
    PROVE  /\ IsInjective(Tail(s))
           /\ Head(s) \notin {Tail(s)[k] : k \in DOMAIN Tail(s)}
<1>1. \A k \in DOMAIN Tail(s) :
        k \in Nat \ {0} /\ k + 1 \in DOMAIN s /\ Tail(s)[k] = s[k + 1]
  OBVIOUS
<1>2. 1 \in DOMAIN s /\ Head(s) = s[1]
  OBVIOUS
<1>3. ASSUME NEW j \in DOMAIN Tail(s), NEW k \in DOMAIN Tail(s), Tail(s)[j] = Tail(s)[k]
      PROVE  j = k
  <2>1. j + 1 = k + 1
    BY <1>1, <1>3 DEF IsInjective
  <2> QED
    BY <1>1, <2>1
<1>4. ASSUME NEW k \in DOMAIN Tail(s) PROVE Head(s) # Tail(s)[k]
  <2>1. k + 1 # 1
    BY <1>1
  <2> QED
    BY <1>1, <1>2, <2>1 DEF IsInjective
<1> QED
  BY <1>3, <1>4 DEF IsInjective

\* The check of a merge's body: as many incidents as ids, so the ids differ.
LEMMA WellFormedDistinct ==
    ASSUME NEW c \in Calls, c.op = "merge", WellFormed(c)
    PROVE  IsInjective(c.ids)
<1> DEFINE s == c.ids
<1>1. s \in Seq(IncidentIds) /\ Cardinality(Named(c)) = Len(s)
  BY CallShape DEF WellFormed
<1>2. DOMAIN s = 1 .. Len(s) /\ Len(s) \in Nat
  BY <1>1
<1>3. Named(c) = {s[k] : k \in DOMAIN s}
  BY DEF Named
<1>4. s \in Surjection(DOMAIN s, Named(c))
  <2>1. s \in [DOMAIN s -> Named(c)]
    BY <1>1, <1>2, <1>3
  <2> QED
    BY <1>3, <2>1 DEF Surjection
<1>5. IsFiniteSet(DOMAIN s) /\ Cardinality(DOMAIN s) = Len(s)
  <2>1. IsFiniteSet(1 .. Len(s)) /\ Cardinality(1 .. Len(s)) = Len(s)
    BY <1>2, FS_Interval
  <2> QED
    BY <1>2, <2>1
<1>6. s \in Injection(DOMAIN s, Named(c))
  BY <1>1, <1>4, <1>5, FS_Surjection
<1> QED
  BY <1>6 DEF Injection

LEMMA InTurnLoad ==
    ASSUME TypeInv, NEW q \in Requests, Load(q)
    PROVE  InTurn(q)'
<1>1. /\ call' = call /\ call[q] \in Calls /\ WellFormed(call[q])
      /\ pending'[q] = Collections(call[q]) /\ Awaited(q)' = Iterated(call[q])
  BY DEF Load, TypeInv, TypeOK, SessionsOK, Awaited, Iterated
<1>2. CASE call[q].op = "merge"
  <2> DEFINE s == call[q].ids
  <2>1. s \in Seq(IncidentIds) /\ s # <<>> /\ pending'[q] = Tail(s)
    BY <1>1, <1>2, CallShape DEF WellFormed, Collections, IsMark
  <2>2. IsInjective(s)
    BY <1>1, <1>2, WellFormedDistinct
  <2>3. Head(s) = Target(call[q])
    BY <1>2, <2>1 DEF Target
  <2> QED
    BY <1>1, <2>1, <2>2, <2>3, TailDistinct DEF InTurn, Awaited
<1>3. CASE call[q].op # "merge"
  <2>1. pending'[q] = <<>> \/ pending'[q] = <<call[q].target>>
    BY <1>1, <1>3 DEF Collections
  <2>2. IsInjective(pending'[q])
    BY <2>1 DEF IsInjective
  <2> QED
    BY <1>1, <1>3, <2>2 DEF InTurn, Op
<1> QED
  BY <1>2, <1>3

LEMMA InTurnLinks ==
    ASSUME TypeInv, NEW q \in Requests, LoadLinks(q), InTurn(q)
    PROVE  InTurn(q)'
<1>1. /\ pending[q] \in Seq(IncidentIds) /\ pending[q] # <<>>
      /\ pending'[q] = Tail(pending[q]) /\ call' = call
  BY DEF LoadLinks, TypeInv, TypeOK, SessionsOK
<1>2. IsInjective(pending'[q])
  BY <1>1, TailDistinct DEF InTurn
<1>3. Awaited(q)' \subseteq Awaited(q)
  BY LoadedNext
<1> QED
  BY <1>1, <1>2, <1>3 DEF InTurn, Op

LEMMA OnceEachStep == TypeInv /\ OnceEach /\ [Next]_vars => OnceEach'
<1> SUFFICES ASSUME TypeInv, OnceEach, [Next]_vars PROVE OnceEach'
  OBVIOUS
<1>1. ASSUME NEW p \in Requests, pending'[p] = pending[p], call' = call, Reading(p) \/ ~Reading(p)'
      PROVE  Reading(p)' => InTurn(p)'
  BY <1>1 DEF OnceEach, InTurn, Awaited, Op
<1>2. ASSUME NEW q \in Requests, Start(q) \/ Handle(q) PROVE OnceEach'
  <2>1. call' = call /\ \A p \in Requests : p # q => pc'[p] = pc[p] /\ pending'[p] = pending[p]
    BY <1>2 DEF Start, Handle, Load, Reject, LoadLinks, LoadStats, CommitUpdate, CommitDelete,
       CommitMerge, CommitSplit, CommitNote, Abort, RecordFeedback, AuditFalsePositive, Audit,
       LoseAudit, Interrupt, Advance, TypeInv, TypeOK, SessionsOK
  <2>2. \A p \in Requests : p # q => (Reading(p)' => InTurn(p)')
    BY <1>1, <2>1 DEF Reading
  <2>3. CASE Load(q)
    BY <2>2, <2>3, InTurnLoad DEF OnceEach
  <2>4. CASE LoadLinks(q)
    BY <2>2, <2>4, InTurnLinks DEF OnceEach, LoadLinks, Reading
  <2>5. CASE LoadStats(q)
    <3>1. Reading(q) /\ pending' = pending
      BY <2>5 DEF LoadStats, Reading
    <3> QED
      BY <1>1, <2>1, <2>2, <3>1 DEF OnceEach
  <2>6. CASE ~(Load(q) \/ LoadLinks(q) \/ LoadStats(q))
    <3>1. ~Reading(q)'
      BY <1>2, <2>6 DEF Start, Handle, Reject, CommitUpdate, CommitDelete, CommitMerge,
         CommitSplit, CommitNote, Abort, RecordFeedback, AuditFalsePositive,
         Audit, LoseAudit, Interrupt,
         Advance, Reading, TypeInv, TypeOK, SessionsOK, RolledBack, AfterLostAudit
    <3> QED
      BY <2>2, <3>1 DEF OnceEach
  <2> QED
    BY <2>3, <2>4, <2>5, <2>6
<1>3. CASE RunCleanup
  BY <1>1, <1>3 DEF RunCleanup, Cleanup, sessions, OnceEach, Reading
<1>4. CASE Crash
  BY <1>4 DEF Crash, OnceEach, Reading
<1>5. CASE UNCHANGED vars
  BY <1>1, <1>5 DEF vars, OnceEach, Reading
<1> QED
  BY <1>2, <1>3, <1>4, <1>5 DEF Next, Quiescent

LEMMA OnceEachInvariance == Spec => []OnceEach
<1>1. Init => OnceEach
  BY DEF Init, OnceEach, Reading
<1> QED
  BY <1>1, OnceEachStep, TypeInvariance, PTL DEF Spec

-----------------------------------------------------------------------------
(* ... the count *)

LinksFrom(I) == {l \in links : l.incident \in I}

\* A column counts at least the rows, and exactly them while all alerts are there.
Covers(S, n, m) ==
    /\ n \in Int /\ m \in Nat
    /\ n >= m /\ (S = Alerts => n = m)
CountsCover ==
    \A i \in DOMAIN incidents : Covers(alerts, incidents[i].alertCount, Cardinality(LinksOf(i)))

\* A handler holds all link rows of the incidents it has been through and otherwise only
\* rows of alerts that were purged meanwhile, and the running total of a merge covers them.
Counted(q) ==
    /\ LinksFrom(Loaded(q)) \subseteq rows[q]
    /\ \A r \in rows[q] : r \in LinksFrom(Loaded(q)) \/ r.alert \notin alerts
    /\ Op(q) = "merge" =>
          Covers(alerts, counted[q] - incidents[Target(call[q])].alertCount, Cardinality(rows[q]))

CountInv == CountsCover /\ \A q \in Requests : Standing(q) => Counted(q)

\* What has been shown of the store with a single worker.
Known == SerialInv /\ DatedInv /\ ResolveInv /\ Keyed /\ OnceEach

LEMMA LinksFinite ==
    ASSUME TypeInv, NEW S \in SUBSET links
    PROVE  IsFiniteSet(S) /\ Cardinality(S) \in Nat
  BY FS_Subset, FS_CardinalityType DEF TypeInv, FiniteRows

\* Rows of different incidents add up.
LEMMA RowsAdd ==
    ASSUME NEW S, NEW T, IsFiniteSet(S), IsFiniteSet(T), S \cap T = {}
    PROVE  Cardinality(S \cup T) = Cardinality(S) + Cardinality(T)
<1>1. Cardinality(S) \in Nat /\ Cardinality(T) \in Nat
  BY FS_CardinalityType
<1>2. Cardinality(S \cup T) = Cardinality(S) + Cardinality(T) - Cardinality(S \cap T)
  BY <1>1, FS_Union
<1>3. Cardinality(S \cap T) = 0
  BY FS_EmptySet
<1> QED
  BY <1>1, <1>2, <1>3

LEMMA CountedLoad ==
    ASSUME Known, NEW q \in Requests, Load(q)
    PROVE  Counted(q)'
<1> USE DEF Known, SerialInv, TypeInv, TypeOK, SessionsOK
<1>1. /\ rows'[q] = {} /\ call' = call /\ incidents' = incidents
      /\ pending'[q] = Collections(call[q])
      /\ Op(q) = "merge" => counted'[q] = incidents[Target(call[q])].alertCount
  BY DEF Load, tables, Blank
<1>2. Loaded(q)' = {}
  BY <1>1 DEF Loaded, Iterated, Awaited
<1>3. LinksFrom(Loaded(q))' = {}
  BY <1>2 DEF LinksFrom
<1>4. Op(q) = "merge" => incidents[Target(call[q])].alertCount \in Int
  <2>1. Target(call[q]) \in DOMAIN incidents
    BY TargetNamed DEF Load, Found
  <2> QED
    BY <2>1 DEF TablesOK, IsTable, IncidentRow
<1> QED
  BY <1>1, <1>3, <1>4, FS_EmptySet DEF Counted, Covers, Op

LEMMA CountedLinks ==
    ASSUME Known, CountInv, NEW q \in Requests, LoadLinks(q), Standing(q)'
    PROVE  Counted(q)'
<1> USE DEF Known, SerialInv
<1> DEFINE h == Head(pending[q])
           loaded == rows[q] \cup LinksOf(h)
<1>1. /\ UNCHANGED <<alerts, incidents, links, call, seen>>
      /\ pc'[q] \in {"loading", "ready"} /\ rows'[q] = loaded
      /\ counted'[q] = IF Op(q) = "merge" THEN counted[q] + seen[q][h].alertCount
                       ELSE counted[q]
  BY DEF LoadLinks, tables, Standing, Reading, TypeInv, TypeOK, SessionsOK
<1>2. Reading(q) /\ Standing(q)
  BY <1>1 DEF LoadLinks, Standing, Reading
<1>3. RowsCurrent(q) /\ Counted(q) /\ InTurn(q)
  BY <1>2 DEF Current, CountInv, OnceEach
<1>4. /\ pending[q] \in Seq(IncidentIds) /\ pending[q] # <<>> /\ pending'[q] = Tail(pending[q])
      /\ \A k \in DOMAIN pending[q] : pending[q][k] \in Named(call[q])
  BY <1>2 DEF LoadLinks, TypeInv, TypeOK, SessionsOK, SessionsLoaded, SessionLoaded, Reading
<1>5. h \in Awaited(q) /\ h \notin Awaited(q)' /\ Awaited(q) = Awaited(q)' \cup {h}
  <2>1. h \notin {Tail(pending[q])[k] : k \in DOMAIN Tail(pending[q])}
    BY <1>3, <1>4, TailDistinct DEF InTurn
  <2> QED
    BY <1>4, <2>1, LoadedNext DEF Awaited
<1>6. Loaded(q)' = Loaded(q) \cup {h} /\ h \notin Loaded(q)
  BY <1>1, <1>3, <1>5 DEF Loaded, InTurn
<1>7. LinksFrom(Loaded(q))' = LinksFrom(Loaded(q)) \cup LinksOf(h)
  BY <1>1, <1>6 DEF LinksFrom, LinksOf
<1>8. h \in Named(call[q]) /\ h \in DOMAIN incidents
  BY <1>2, <1>4 DEF Standing
<1>9. Covers(alerts, seen[q][h].alertCount, Cardinality(LinksOf(h)))
  BY <1>3, <1>8 DEF RowsCurrent, CountInv, CountsCover
<1>10. Cardinality(loaded) = Cardinality(rows[q]) + Cardinality(LinksOf(h))
  <2>1. rows[q] \cap LinksOf(h) = {}
    BY <1>3, <1>6 DEF Counted, LinksFrom, LinksOf, ResolveInv, RowsResolve
  <2>2. IsFiniteSet(rows[q]) /\ IsFiniteSet(LinksOf(h))
    BY LinksFinite DEF LinksOf, TypeInv, FiniteRows
  <2> QED
    BY <2>1, <2>2, RowsAdd
<1>11. Op(q) = "merge" =>
         Covers(alerts, counted'[q] - incidents[Target(call[q])].alertCount, Cardinality(loaded))
  <2>1. Op(q) = "merge" => incidents[Target(call[q])].alertCount \in Int
    <3>1. Target(call[q]) \in DOMAIN incidents
      BY <1>2, TargetNamed
         DEF Standing, Reading, Running, TypeInv, TypeOK, SessionsOK, SessionsLoaded
    <3> QED
      BY <3>1 DEF TypeInv, TypeOK, TablesOK, IsTable, IncidentRow
  <2>2. counted[q] \in Int
    BY DEF TypeInv, TypeOK, SessionsOK
  <2> QED
    BY <1>1, <1>3, <1>9, <1>10, <2>1, <2>2 DEF Counted, Covers
<1>12. \A r \in loaded : r \in LinksFrom(Loaded(q))' \/ r.alert \notin alerts
  BY <1>3, <1>7 DEF Counted
<1> HIDE DEF loaded
<1> QED
  BY <1>1, <1>3, <1>7, <1>11, <1>12 DEF Counted, Op, loaded

LEMMA CountUpdate ==
    ASSUME Known, CountInv, NEW q \in Requests, CommitUpdate(q)
    PROVE  CountsCover'
<1> DEFINE i == call[q].target
           read == seen[q][i]
           set == UpdatedRow(read, call[q].status)
<1>1. read \in IncidentRow
  BY ReadyHolds DEF CommitUpdate, Ready, Op, Named, Known, SerialInv
<1>2. set.alertCount = read.alertCount
  BY <1>1 DEF UpdatedRow, IncidentRow
<1>3. \A j \in DOMAIN incidents' :
        j \in DOMAIN incidents /\ incidents'[j].alertCount = incidents[j].alertCount
  BY <1>2 DEF CommitUpdate, Flush, Column
<1>4. \A j : LinksOf(j)' = LinksOf(j)
  BY DEF CommitUpdate, LinksOf
<1>5. alerts' = alerts
  BY DEF CommitUpdate
<1> QED
  BY <1>3, <1>4, <1>5 DEF CountInv, CountsCover

LEMMA CountDelete ==
    ASSUME CountInv, NEW q \in Requests, CommitDelete(q)
    PROVE  CountsCover'
<1>1. \A j \in DOMAIN incidents' :
        /\ j \in DOMAIN incidents /\ incidents'[j] = incidents[j]
        /\ LinksOf(j)' = LinksOf(j)
  BY DEF CommitDelete, LinksOf
<1>2. alerts' = alerts
  BY DEF CommitDelete
<1> QED
  BY <1>1, <1>2 DEF CountInv, CountsCover

\* A merge finds the incidents and rows it has read as they are, and adds to its master a
\* copy of every row of the others.
LEMMA MergeMoves ==
    ASSUME Known, CountInv, NEW q \in Requests, CommitMerge(q),
           NEW master, master = call[q].ids[1]
    PROVE  /\ call[q] \in Calls /\ WellFormed(call[q]) /\ call[q].op = "merge" /\ pc[q] = "ready"
           /\ \A i \in Named(call[q]) : seen[q][i] \in IncidentRow
           /\ Named(call[q]) \subseteq DOMAIN incidents
           /\ master \in Named(call[q]) /\ master = Target(call[q]) /\ master \in DOMAIN incidents
           /\ RowsCurrent(q) /\ Counted(q)
           /\ rows[q] \subseteq links /\ rows[q] = LinksFrom(Loaded(q))
           /\ LinksOf(master)' = LinksOf(master)
                                   \cup {Copy(r, master, "merge", q) : r \in rows[q]}
           /\ \A j : j # master => LinksOf(j)' = LinksOf(j)
<1> USE DEF Known, SerialInv
<1> DEFINE copies == {Copy(r, master, "merge", q) : r \in rows[q]}
<1>1. /\ call[q] \in Calls /\ WellFormed(call[q]) /\ call[q].op = "merge" /\ pc[q] = "ready"
      /\ \A i \in Named(call[q]) : seen[q][i] \in IncidentRow
      /\ Named(call[q]) \subseteq DOMAIN incidents
  BY ReadyHolds DEF CommitMerge, Ready, Op, Commits, NoStaleRow
<1>2. master \in Named(call[q]) /\ master = Target(call[q]) /\ master \in DOMAIN incidents
  BY <1>1, MergeIterates DEF Target
<1>3. RowsCurrent(q) /\ Counted(q)
  BY <1>1 DEF Standing, Reading, Current, CountInv
<1>4. rows[q] \subseteq links /\ rows[q] = LinksFrom(Loaded(q))
  <2>1. AlertsIn(rows[q]) \subseteq alerts
    BY <1>1 DEF CommitMerge, Commits, ForeignKeysResolve, Op
  <2>2. \A r \in rows[q] : r.alert \in alerts
    BY <2>1 DEF AlertsIn
  <2> QED
    BY <1>3, <2>2 DEF Counted, LinksFrom
<1>5. LinksOf(master)' = LinksOf(master) \cup copies
      /\ \A j : j # master => LinksOf(j)' = LinksOf(j)
  <2>1. links' = links \cup copies
    BY DEF CommitMerge
  <2>2. \A l \in copies : l.incident = master
    BY DEF Copy
  <2> HIDE DEF copies
  <2>3. LinksOf(master)' = LinksOf(master) \cup copies
    BY <2>1, <2>2 DEF LinksOf
  <2>4. ASSUME NEW j, j # master PROVE LinksOf(j)' = LinksOf(j)
    BY <2>1, <2>2, <2>4 DEF LinksOf
  <2> QED
    BY <2>3, <2>4
<1> QED
  BY <1>1, <1>2, <1>3, <1>4, <1>5

LEMMA CountMerge ==
    ASSUME Known, CountInv, NEW q \in Requests, CommitMerge(q)
    PROVE  CountsCover'
<1>0. PICK master : master = call[q].ids[1]
  OBVIOUS
<1> DEFINE copies == {Copy(r, master, "merge", q) : r \in rows[q]}
           set == [i \in Named(call[q]) |->
                     IF i = master THEN MergedRow(q)
                     ELSE [seen[q][i] EXCEPT !.status = "merged"]]
<1>1. /\ call[q] \in Calls /\ WellFormed(call[q]) /\ call[q].op = "merge" /\ pc[q] = "ready"
      /\ \A i \in Named(call[q]) : seen[q][i] \in IncidentRow
      /\ Named(call[q]) \subseteq DOMAIN incidents
  BY <1>0, MergeMoves
<1>2. master \in Named(call[q]) /\ master = Target(call[q]) /\ master \in DOMAIN incidents
  BY <1>0, MergeMoves
<1>3. RowsCurrent(q) /\ Counted(q)
  BY <1>0, MergeMoves
<1>4. rows[q] \subseteq links
  BY <1>0, MergeMoves
<1>7. LinksOf(master)' = LinksOf(master) \cup copies
      /\ \A j : j # master => LinksOf(j)' = LinksOf(j)
  BY <1>0, MergeMoves
<1> USE DEF Known, SerialInv
<1>5. IsFiniteSet(copies) /\ Cardinality(copies) = Cardinality(rows[q])
  BY <1>4, CopiesCounted
<1>6. LinksOf(master) \cap copies = {}
  <2> SUFFICES ASSUME NEW l \in links, l \in copies PROVE FALSE
    BY DEF LinksOf
  <2>1. PICK r \in rows[q] : l = Copy(r, master, "merge", q)
    OBVIOUS
  <2>2. r.path \in Seq(IncidentIds)
    BY <1>4 DEF TypeInv, TypeOK, TablesOK, LinkRow
  <2>3. Writer(l) = q
    BY <2>1, <2>2 DEF Copy, Writer
  <2>4. pc[q] \in Applied
    BY <2>3, StoreAssumption DEF Keyed, Written
  <2> QED
    BY <1>1, <2>4 DEF Applied
<1>8. Cardinality(LinksOf(master)') = Cardinality(LinksOf(master)) + Cardinality(rows[q])
  <2>1. IsFiniteSet(LinksOf(master)) /\ Cardinality(LinksOf(master)) \in Nat
        /\ Cardinality(rows[q]) \in Nat
    BY <1>4, LinksFinite DEF LinksOf
  <2> HIDE DEF copies
  <2>2. Cardinality(LinksOf(master) \cup copies)
          = Cardinality(LinksOf(master)) + Cardinality(copies)
              - Cardinality(LinksOf(master) \cap copies)
    BY <1>5, <2>1, FS_Union
  <2>3. Cardinality(LinksOf(master) \cap copies) = 0
    BY <1>6, FS_EmptySet
  <2> QED
    BY <1>5, <1>7, <2>1, <2>2, <2>3
<1>9. Covers(alerts, incidents'[master].alertCount, Cardinality(LinksOf(master)'))
  <2>1. MergedRow(q).alertCount = counted[q]
    BY <1>0, <1>1, <1>2 DEF MergedRow, IncidentRow
  <2>2. incidents'[master] = Flush(seen[q][master], MergedRow(q), incidents[master])
    BY <1>0, <1>2 DEF CommitMerge
  <2>3. seen[q][master] = incidents[master]
    BY <1>2, <1>3 DEF RowsCurrent
  <2>4. incidents'[master].alertCount = counted[q]
    BY <2>1, <2>2, <2>3 DEF Flush, Column
  <2>5. Covers(alerts, counted[q] - incidents[master].alertCount, Cardinality(rows[q]))
    BY <1>1, <1>2, <1>3 DEF Counted, Op
  <2>6. Covers(alerts, incidents[master].alertCount, Cardinality(LinksOf(master)))
    BY <1>2 DEF CountInv, CountsCover
  <2>7. counted[q] \in Int
    BY DEF TypeInv, TypeOK, SessionsOK
  <2> QED
    BY <1>8, <2>4, <2>5, <2>6, <2>7 DEF Covers
<1>10. ASSUME NEW j \in DOMAIN incidents, j # master
       PROVE  incidents'[j].alertCount = incidents[j].alertCount
  <2>1. CASE j \in Named(call[q])
    <3>1. set[j] = [seen[q][j] EXCEPT !.status = "merged"] /\ seen[q][j] \in IncidentRow
      BY <1>1, <1>10, <2>1
    <3>2. set[j].alertCount = seen[q][j].alertCount
      BY <3>1 DEF IncidentRow
    <3>3. incidents'[j] = Flush(seen[q][j], set[j], incidents[j])
      BY <1>0, <2>1 DEF CommitMerge
    <3> HIDE DEF set
    <3> QED
      BY <3>2, <3>3 DEF Flush, Column
  <2>2. CASE j \notin Named(call[q])
    BY <2>2 DEF CommitMerge
  <2> QED
    BY <2>1, <2>2
<1>11. DOMAIN incidents' = DOMAIN incidents /\ alerts' = alerts
  BY DEF CommitMerge
<1> QED
  <2> SUFFICES ASSUME NEW j \in DOMAIN incidents
               PROVE  Covers(alerts, incidents'[j].alertCount, Cardinality(LinksOf(j)'))
    BY <1>11 DEF CountsCover
  <2>1. CASE j = master
    BY <1>9, <2>1
  <2>2. CASE j # master
    BY <1>7, <1>10, <2>2 DEF CountInv, CountsCover
  <2> QED
    BY <2>1, <2>2

\* A split finds its incident as it has read it, and moves rows of it to a new incident.
SplitMove(q, i) ==
    /\ call[q] \in Calls /\ call[q].op = "split" /\ pc[q] = "ready"
    /\ seen[q][i] \in IncidentRow /\ i \in DOMAIN incidents /\ seen[q][i] = incidents[i]
    /\ q \notin DOMAIN incidents /\ LinksOf(q) = {}
    /\ Moved(q) \subseteq LinksOf(i) /\ LinksOf(i) \subseteq rows[q]
    /\ LinksOf(q)' = {Copy(r, q, "split", q) : r \in Moved(q)}
    /\ LinksOf(i)' = LinksOf(i) \ Moved(q)
    /\ \A j : j # i /\ j # q => LinksOf(j)' = LinksOf(j)
    /\ DOMAIN incidents' = DOMAIN incidents \cup {q}
    /\ incidents'[q] = SplitOffRow(q)
    /\ incidents'[i] = Flush(seen[q][i], RemainingRow(q), incidents[i])
    /\ \A j \in DOMAIN incidents : j # i => incidents'[j] = incidents[j]

LEMMA SplitMoves ==
    ASSUME Known, CountInv, NEW q \in Requests, CommitSplit(q)
    PROVE  \E i : i = call[q].target /\ SplitMove(q, i)
<1>0. PICK i : i = call[q].target
  OBVIOUS
<1> USE DEF Known, SerialInv
<1> DEFINE copies == {Copy(r, q, "split", q) : r \in Moved(q)}
<1>1. /\ call[q] \in Calls /\ WellFormed(call[q]) /\ call[q].op = "split" /\ pc[q] = "ready"
      /\ seen[q][i] \in IncidentRow /\ i \in DOMAIN incidents
      /\ Named(call[q]) \subseteq DOMAIN incidents
  BY <1>0, ReadyHolds DEF CommitSplit, Ready, Op, Named, Commits, NoStaleRow
<1>2. q \notin DOMAIN incidents /\ LinksOf(q) = {}
  <2>1. q \notin DOMAIN incidents
    BY <1>1 DEF DatedInv, FreshKeys, Applied
  <2> QED
    BY <2>1 DEF ResolveInv, RowsResolve, LinksOf
<1>3. RowsCurrent(q) /\ Counted(q)
  BY <1>1 DEF Standing, Reading, Current, CountInv
<1>4. LinksOf(i) \subseteq rows[q] /\ \A r \in rows[q] : r \in LinksOf(i) \/ r.alert \notin alerts
  <2>1. Collections(call[q]) = <<i>> /\ pending[q] = <<>>
    BY <1>0, <1>1 DEF Collections, ReadyIsThrough
  <2>2. Loaded(q) = {i}
    BY <2>1 DEF Loaded, Iterated, Awaited
  <2> QED
    BY <1>3, <2>2 DEF Counted, LinksFrom, LinksOf
<1>5. Moved(q) \subseteq LinksOf(i)
  <2>1. AlertsIn(Moved(q)) \subseteq alerts
    BY <1>1 DEF CommitSplit, Commits, ForeignKeysResolve, Op
  <2> QED
    BY <1>4, <2>1 DEF AlertsIn, Moved
<1>6. /\ LinksOf(q)' = copies
      /\ LinksOf(i)' = LinksOf(i) \ Moved(q)
      /\ \A j : j # i /\ j # q => LinksOf(j)' = LinksOf(j)
  <2>1. links' = (links \ Moved(q)) \cup copies
    BY DEF CommitSplit, Removed
  <2>2. \A l \in copies : l.incident = q
    BY DEF Copy
  <2>3. \A l \in Moved(q) : l \in links /\ l.incident = i
    BY <1>5 DEF LinksOf
  <2>4. i # q
    BY <1>1, <1>2
  <2> HIDE DEF copies
  <2>5. LinksOf(q)' = copies
    BY <1>2, <2>1, <2>2 DEF LinksOf
  <2>6. LinksOf(i)' = LinksOf(i) \ Moved(q)
    BY <2>1, <2>2, <2>3, <2>4 DEF LinksOf
  <2>7. ASSUME NEW j, j # i, j # q PROVE LinksOf(j)' = LinksOf(j)
    BY <2>1, <2>2, <2>3, <2>7 DEF LinksOf
  <2> QED
    BY <2>5, <2>6, <2>7
<1>7. /\ DOMAIN incidents' = DOMAIN incidents \cup {q}
      /\ incidents'[q] = SplitOffRow(q)
      /\ incidents'[i] = Flush(seen[q][i], RemainingRow(q), incidents[i])
      /\ \A j \in DOMAIN incidents : j # i => incidents'[j] = incidents[j]
  BY <1>0, <1>1, <1>2 DEF CommitSplit
<1>8. seen[q][i] = incidents[i]
  BY <1>0, <1>1, <1>3 DEF RowsCurrent, Named
<1> QED
  BY <1>0, <1>1, <1>2, <1>4, <1>5, <1>6, <1>7, <1>8 DEF SplitMove

LEMMA CountSplit ==
    ASSUME Known, CountInv, NEW q \in Requests, CommitSplit(q)
    PROVE  CountsCover'
<1>0. PICK i : i = call[q].target /\ SplitMove(q, i)
  BY SplitMoves
<1> DEFINE copies == {Copy(r, q, "split", q) : r \in Moved(q)}
<1>1. /\ seen[q][i] \in IncidentRow /\ i \in DOMAIN incidents /\ seen[q][i] = incidents[i]
      /\ Moved(q) \subseteq LinksOf(i)
  BY <1>0 DEF SplitMove
<1>2. /\ LinksOf(q)' = copies
      /\ LinksOf(i)' = LinksOf(i) \ Moved(q)
      /\ \A j : j # i /\ j # q => LinksOf(j)' = LinksOf(j)
  BY <1>0 DEF SplitMove
<1>3. /\ DOMAIN incidents' = DOMAIN incidents \cup {q}
      /\ incidents'[q] = SplitOffRow(q)
      /\ incidents'[i] = Flush(seen[q][i], RemainingRow(q), incidents[i])
      /\ \A j \in DOMAIN incidents : j # i => incidents'[j] = incidents[j]
  BY <1>0 DEF SplitMove
<1> USE DEF Known, SerialInv
<1>4. /\ LinksOf(i) \subseteq links
      /\ IsFiniteSet(Moved(q)) /\ Cardinality(Moved(q)) \in Nat
      /\ IsFiniteSet(LinksOf(i)) /\ Cardinality(LinksOf(i)) \in Nat
  BY <1>1, LinksFinite DEF LinksOf
<1>5. IsFiniteSet(copies) /\ Cardinality(copies) = Cardinality(Moved(q))
  BY <1>1, <1>4, CopiesCounted
<1>6. Covers(alerts, incidents'[q].alertCount, Cardinality(LinksOf(q)'))
  BY <1>2, <1>3, <1>4, <1>5 DEF SplitOffRow, Covers
<1>7. Covers(alerts, incidents'[i].alertCount, Cardinality(LinksOf(i)'))
  <2>1. seen[q][i] = incidents[i]
    BY <1>1
  <2>2. RemainingRow(q).alertCount = incidents[i].alertCount - Cardinality(Moved(q))
    BY <1>0, <1>1, <2>1 DEF RemainingRow, IncidentRow
  <2>3. incidents'[i].alertCount = incidents[i].alertCount - Cardinality(Moved(q))
    BY <1>3, <2>1, <2>2 DEF Flush, Column
  <2>4. Covers(alerts, incidents[i].alertCount, Cardinality(LinksOf(i)))
    BY <1>1 DEF CountInv, CountsCover
  <2>5. Cardinality(LinksOf(i) \ Moved(q)) = Cardinality(LinksOf(i)) - Cardinality(Moved(q))
    <3>1. Cardinality(LinksOf(i) \ Moved(q))
            = Cardinality(LinksOf(i)) - Cardinality(LinksOf(i) \cap Moved(q))
      BY <1>4, FS_Difference
    <3>2. LinksOf(i) \cap Moved(q) = Moved(q)
      BY <1>1
    <3> QED
      BY <3>1, <3>2
  <2>6. Cardinality(Moved(q)) <= Cardinality(LinksOf(i))
    BY <1>1, <1>4, FS_Subset
  <2> QED
    BY <1>2, <1>4, <2>3, <2>4, <2>5, <2>6 DEF Covers
<1> QED
  <2> SUFFICES ASSUME NEW j \in DOMAIN incidents \cup {q}
               PROVE  Covers(alerts, incidents'[j].alertCount, Cardinality(LinksOf(j)'))
    BY <1>3 DEF CountsCover, CommitSplit
  <2>1. CASE j \in {i, q}
    BY <1>6, <1>7, <2>1
  <2>2. CASE j \notin {i, q}
    BY <1>2, <1>3, <2>2 DEF CountInv, CountsCover
  <2> QED
    BY <2>1, <2>2

\* The retention job drops link rows with their incident or with their alert; a handler
\* that has loaded the latter keeps rows of alerts that are gone.
LEMMA CountCleanup ==
    ASSUME Known, CountInv, RunCleanup
    PROVE  CountInv'
<1> USE DEF Known, SerialInv
<1>1. PICK expired \in SUBSET (alerts \cap OldAlerts) :
             \E old, aged : Cleanup(expired, old, aged)
  BY DEF RunCleanup
<1>2. PICK old, aged : Cleanup(expired, old, aged)
  BY <1>1
<1>3. /\ incidents' = [i \in DOMAIN incidents \ old |-> incidents[i]]
      /\ links' = {l \in links : l.alert \notin expired /\ l.incident \notin old}
      /\ alerts' = alerts \ expired
      /\ UNCHANGED sessions
  BY <1>2 DEF Cleanup
<1>4. ASSUME NEW i \in DOMAIN incidents'
      PROVE  /\ i \in DOMAIN incidents /\ i \notin old /\ incidents'[i] = incidents[i]
             /\ LinksOf(i)' = {l \in LinksOf(i) : l.alert \notin expired}
  BY <1>3 DEF LinksOf
<1>0. alerts' = Alerts => alerts = Alerts /\ expired = {}
  BY <1>3 DEF TypeInv, TypeOK, TablesOK
<1>5. CountsCover'
  <2> SUFFICES ASSUME NEW i \in DOMAIN incidents'
               PROVE  Covers(alerts', incidents'[i].alertCount, Cardinality(LinksOf(i)'))
    BY DEF CountsCover
  <2>1. Covers(alerts, incidents[i].alertCount, Cardinality(LinksOf(i)))
    BY <1>4 DEF CountInv, CountsCover
  <2>2. IsFiniteSet(LinksOf(i)) /\ LinksOf(i)' \subseteq LinksOf(i)
    BY <1>4, LinksFinite DEF LinksOf
  <2>3. Cardinality(LinksOf(i)') \in Nat /\ Cardinality(LinksOf(i)') <= Cardinality(LinksOf(i))
    BY <2>2, FS_Subset, FS_CardinalityType
  <2>4. alerts' = Alerts => alerts = Alerts /\ LinksOf(i)' = LinksOf(i)
    BY <1>0, <1>4
  <2> QED
    BY <1>4, <2>1, <2>3, <2>4 DEF Covers
<1>6. ASSUME NEW q \in Requests, Standing(q)' PROVE Counted(q)'
  <2>1. /\ UNCHANGED <<pc, call, rows, pending, counted>>
        /\ Standing(q) /\ Loaded(q)' = Loaded(q) /\ call[q] \in Calls /\ WellFormed(call[q])
    BY <1>3, <1>6 DEF sessions, Standing, Reading, Running, Loaded, Awaited,
       TypeInv, TypeOK, SessionsOK, SessionsLoaded
  <2>2. Counted(q)
    BY <2>1 DEF CountInv
  <2>3. Loaded(q) \subseteq Named(call[q]) /\ Target(call[q]) \in Named(call[q])
    BY <2>1, CollectionsNamed, TargetNamed DEF Loaded, Iterated
  <2>4. Named(call[q]) \subseteq DOMAIN incidents'
    BY <1>6, <2>1 DEF Standing
  <2>5. LinksFrom(Loaded(q))' = {l \in LinksFrom(Loaded(q)) : l.alert \notin expired}
    BY <1>3, <1>4, <2>1, <2>3, <2>4 DEF LinksFrom
  <2>6. incidents'[Target(call[q])] = incidents[Target(call[q])]
    BY <1>4, <2>3, <2>4
  <2>7. \A r \in rows[q] : r \in LinksFrom(Loaded(q))' \/ r.alert \notin alerts'
    BY <1>3, <2>2, <2>5 DEF Counted
  <2>8. ASSUME NEW n, NEW m, Covers(alerts, n, m) PROVE Covers(alerts', n, m)
    BY <1>0, <2>8 DEF Covers
  <2> QED
    BY <2>1, <2>2, <2>5, <2>6, <2>7, <2>8 DEF Counted, Op
<1> QED
  BY <1>5, <1>6 DEF CountInv

LEMMA CountHandle ==
    ASSUME Workers = 1, Known, CountInv, NEW q \in Requests, Start(q) \/ Handle(q)
    PROVE  CountInv'
<1> USE DEF Known, SerialInv, TypeInv, TypeOK, SessionsOK
<1>1. CountsCover'
  <2>1. CASE UNCHANGED <<alerts, incidents, links>>
    BY <2>1 DEF CountInv, CountsCover, LinksOf
  <2>2. \/ CommitUpdate(q) \/ CommitDelete(q) \/ CommitMerge(q) \/ CommitSplit(q)
        \/ UNCHANGED <<alerts, incidents, links>>
    BY DEF Start, Handle, Load, Reject, LoadLinks, LoadStats, CommitNote, Abort,
       RecordFeedback, AuditFalsePositive, Audit, LoseAudit, Interrupt,
       tables
  <2> QED
    BY <2>1, <2>2, CountUpdate, CountDelete, CountMerge, CountSplit
<1>2. \A p \in Requests : p # q => ~Standing(p)'
  BY OthersRest DEF Standing, Reading, Running
<1>3. ASSUME Standing(q)' PROVE Counted(q)'
  <2>1. Load(q) \/ LoadLinks(q) \/ LoadStats(q)
    BY <1>3 DEF Start, Handle, Reject, CommitUpdate, CommitDelete, CommitMerge, CommitSplit,
       CommitNote, Abort, RecordFeedback, AuditFalsePositive, Audit, LoseAudit,
       Interrupt, Advance,
       Standing, Reading, RolledBack, AfterLostAudit
  <2>2. CASE LoadStats(q)
    <3>1. /\ UNCHANGED <<alerts, incidents, links, call, rows, pending, counted>>
          /\ Standing(q)
      BY <1>3, <2>2 DEF LoadStats, tables, Standing, Reading
    <3>2. Counted(q) /\ LinksFrom(Loaded(q))' = LinksFrom(Loaded(q))
      BY <3>1 DEF CountInv, LinksFrom, Loaded, Awaited
    <3> QED
      BY <3>1, <3>2 DEF Counted, Op
  <2> QED
    BY <1>3, <2>1, <2>2, CountedLoad, CountedLinks
<1> QED
  BY <1>1, <1>2, <1>3 DEF CountInv

LEMMA CountStep ==
    ASSUME Workers = 1, Known, CountInv, [Next]_vars
    PROVE  CountInv'
<1>1. CASE Crash
  <2>1. \A q \in Requests : ~Standing(q)'
    BY <1>1 DEF Crash, Standing, Reading
  <2> QED
    BY <1>1, <2>1 DEF Crash, tables, CountInv, CountsCover, LinksOf
<1>2. CASE UNCHANGED vars
  <2>1. ASSUME NEW q \in Requests
        PROVE  /\ Standing(q)' = Standing(q)
               /\ LinksFrom(Loaded(q))' = LinksFrom(Loaded(q))
    BY <1>2 DEF vars, Standing, Reading, LinksFrom, Loaded, Awaited
  <2>2. \A q \in Requests : Counted(q)' = Counted(q)
    BY <1>2, <2>1 DEF vars, Counted, Op
  <2>3. CountsCover'
    BY <1>2 DEF vars, CountInv, CountsCover, LinksOf
  <2> QED
    BY <2>1, <2>2, <2>3 DEF CountInv
<1> QED
  BY <1>1, <1>2, CountCleanup, CountHandle DEF Next, Quiescent

LEMMA CountInit == Init => CountInv
<1> SUFFICES ASSUME Init PROVE CountInv
  OBVIOUS
<1>1. \A q \in Requests : ~Standing(q)
  BY DEF Init, Standing, Reading
<1>2. ASSUME NEW i \in Seeds PROVE Cardinality(LinksOf(i)) = Cardinality(SeedAlerts[i])
  <2> DEFINE f == [a \in SeedAlerts[i] |->
                     [alert |-> a, incident |-> i, rule |-> "auto", path |-> <<i>>]]
  <2>1. LinksOf(i) = SeedLinks(i)
    BY DEF Init, LinksOf, SeedLinks
  <2>2. f \in Surjection(SeedAlerts[i], SeedLinks(i))
    BY DEF Surjection, SeedLinks
  <2>3. \A a, b \in SeedAlerts[i] : f[a] = f[b] => a = b
    OBVIOUS
  <2> HIDE DEF f
  <2>4. f \in Injection(SeedAlerts[i], SeedLinks(i))
    BY <2>2, <2>3 DEF Injection, IsInjective, Surjection
  <2> QED
    BY <2>1, <2>2, <2>4, StoreAssumption, FS_Surjection
<1>3. CountsCover
  BY <1>2, StoreAssumption, FS_CardinalityType DEF Init, CountsCover, Covers
<1> QED
  BY <1>1, <1>3 DEF CountInv

LEMMA CountInvariance == ASSUME Workers = 1 PROVE Spec => [](Known /\ CountInv)
<1>1. Known /\ CountInv /\ [Next]_vars => CountInv'
  BY CountStep
<1>2. Spec => []Known
  BY SerialInvariance, DatedInvariance, ResolveInvariance, KeyedInvariance,
     OnceEachInvariance, PTL DEF Known
<1> QED
  BY <1>1, <1>2, CountInit, PTL DEF Spec

\* With a single worker, alert_count is the number of link rows of the incident, through
\* any chain of merges, splits, deletes, failures and crashes, as long as no alert has been
\* purged.  It is never below that number, also when a handler holds link rows of alerts
\* that were purged after it loaded them.
THEOREM CountIsExact == ASSUME Workers = 1 PROVE Spec => []AlertCountIsLinkCount
<1>1. CountInv => AlertCountIsLinkCount
  BY DEF CountInv, CountsCover, Covers, AlertCountIsLinkCount
<1> QED
  BY <1>1, CountInvariance, PTL

-----------------------------------------------------------------------------
(* One handler at a time: it acts at once *)

\* A split that gets to its commit has rows to move.
Moves(q) ==
    Op(q) = "split" => /\ pc[q] = "loading" => pending[q] # <<>>
                       /\ pc[q] = "ready" => AlertsIn(rows[q]) \cap call[q].alerts # {}
SomethingMoves == \A q \in Requests : Moves(q)

LEMMA MovesStep == TypeInv /\ SomethingMoves /\ [Next]_vars => SomethingMoves'
<1> SUFFICES ASSUME TypeInv, SomethingMoves, [Next]_vars PROVE SomethingMoves'
  OBVIOUS
<1> USE DEF TypeInv, TypeOK, SessionsOK
<1>1. ASSUME NEW p \in Requests, UNCHANGED <<pc[p], call[p], rows[p], pending[p]>>
      PROVE  Moves(p)'
  BY <1>1 DEF SomethingMoves, Moves, Op, AlertsIn
<1>2. ASSUME NEW p \in Requests, ~Reading(p)' PROVE Moves(p)'
  BY <1>2 DEF Moves, Reading
<1>3. ASSUME NEW q \in Requests, Start(q) \/ Handle(q) PROVE SomethingMoves'
  <2>1. /\ call' = call
        /\ \A p \in Requests : p # q => UNCHANGED <<pc[p], call[p], rows[p], pending[p]>>
    BY <1>3 DEF Start, Handle, Load, Reject, LoadLinks, LoadStats, CommitUpdate, CommitDelete,
       CommitMerge, CommitSplit, CommitNote, Abort, RecordFeedback, AuditFalsePositive, Audit,
       LoseAudit, Interrupt, Advance
  <2>2. ASSUME Load(q) PROVE Moves(q)'
    <3>1. Op(q) = "split" => Collections(call[q]) = <<call[q].target>>
      BY DEF Collections, Op
    <3>5. ASSUME NEW i PROVE <<i>> # <<>>
      OBVIOUS
    <3>2. /\ pc'[q] = IF Collections(call[q]) = <<>> THEN "ready" ELSE "loading"
          /\ pending'[q] = Collections(call[q])
      BY <2>2 DEF Load
    <3>3. ASSUME Op(q) = "split" PROVE pc'[q] = "loading" /\ pending'[q] # <<>>
      <4>1. Collections(call[q]) # <<>>
        BY <3>1, <3>3, <3>5
      <4> QED
        BY <3>2, <4>1
    <3>4. Op(q)' = Op(q)
      BY <2>1 DEF Op
    <3> QED
      BY <3>3, <3>4 DEF Moves
  <2>3. ASSUME LoadLinks(q) PROVE Moves(q)'
    <3>1. pending[q] # <<>> /\ pc[q] = "loading" /\ pending'[q] = Tail(pending[q])
      BY <2>3 DEF LoadLinks
    <3>2. PICK loaded : /\ loaded = rows[q] \cup LinksOf(Head(pending[q]))
                        /\ pc'[q] = AfterLinks(q, loaded)
                        /\ rows'[q] = IF AfterLinks(q, loaded) = "rejected" THEN {} ELSE loaded
      BY <2>3 DEF LoadLinks
    <3>3. ASSUME Op(q) = "split" PROVE ~IsMark(call[q])
      BY <3>3 DEF IsMark, Op
    <3>4. ASSUME Op(q) = "split", Tail(pending[q]) # <<>> PROVE Moves(q)'
      <4>1. AfterLinks(q, loaded) \in {"loading", "rejected"}
        BY <3>3, <3>4 DEF AfterLinks
      <4>2. pc'[q] # "ready" /\ pending'[q] # <<>>
        BY <3>1, <3>2, <3>4, <4>1
      <4> QED
        BY <4>2 DEF Moves
    <3>5. ASSUME Op(q) = "split", Tail(pending[q]) = <<>> PROVE Moves(q)'
      <4>1. AfterLinks(q, loaded) =
              IF AlertsIn(loaded) \cap call[q].alerts = {} THEN "rejected" ELSE "ready"
        BY <3>3, <3>5 DEF AfterLinks
      <4>2. CASE AlertsIn(loaded) \cap call[q].alerts = {}
        <5>1. pc'[q] = "rejected"
          BY <3>2, <4>1, <4>2
        <5> QED
          BY <5>1, <1>2 DEF Reading
      <4>3. CASE AlertsIn(loaded) \cap call[q].alerts # {}
        <5>1. AfterLinks(q, loaded) = "ready"
          BY <4>1, <4>3
        <5>2. pc'[q] = "ready" /\ rows'[q] = loaded
          BY <3>2, <5>1
        <5>3. AlertsIn(rows[q])' \cap call'[q].alerts # {}
          BY <2>1, <4>3, <5>2 DEF AlertsIn
        <5> QED
          BY <5>2, <5>3 DEF Moves
      <4> QED
        BY <4>2, <4>3
    <3>6. Op(q)' = Op(q)
      BY <2>1 DEF Op
    <3>7. CASE Op(q) # "split"
      BY <3>6, <3>7 DEF Moves
    <3> QED
      BY <3>4, <3>5, <3>7
  <2>4. ASSUME LoadStats(q) PROVE Moves(q)'
    BY <2>1, <2>4 DEF SomethingMoves, Moves, LoadStats, Op, AlertsIn
  <2>5. ASSUME ~(Load(q) \/ LoadLinks(q) \/ LoadStats(q)) PROVE Moves(q)'
    <3>1. ~Reading(q)'
      BY <1>3, <2>5 DEF Start, Handle, Reject, CommitUpdate, CommitDelete, CommitMerge,
         CommitSplit, CommitNote, Abort, RecordFeedback, AuditFalsePositive,
         Audit, LoseAudit, Interrupt,
         Advance, Reading, RolledBack, AfterLostAudit
    <3> QED
      BY <1>2, <3>1
  <2>6. Moves(q)'
    BY <2>2, <2>3, <2>4, <2>5, <1>2
  <2> QED
    BY <1>1, <2>1, <2>6 DEF SomethingMoves
<1>4. CASE RunCleanup \/ UNCHANGED vars
  BY <1>1, <1>4 DEF RunCleanup, Cleanup, sessions, vars, SomethingMoves
<1>5. CASE Crash
  <2>1. \A p \in Requests : ~Reading(p)'
    BY <1>5 DEF Crash, Reading
  <2> QED
    BY <1>2, <2>1 DEF SomethingMoves
<1> QED
  BY <1>3, <1>4, <1>5 DEF Next, Quiescent

LEMMA MovesInvariance == Spec => []SomethingMoves
<1>1. Init => SomethingMoves
  BY DEF Init, SomethingMoves, Moves
<1> QED
  BY <1>1, MovesStep, TypeInvariance, PTL DEF Spec

\* The mapped state.
Status == [i \in DOMAIN incidents |-> incidents[i].status]
Scopes == [i \in DOMAIN incidents |-> incidents[i].scope]
Holds == [i \in DOMAIN incidents |-> Linked(i)]

LEMMA LedgerInit == Init => Ledger!Init
<1> SUFFICES ASSUME Init PROVE Ledger!Init
  OBVIOUS
<1>1. ASSUME NEW i \in Seeds PROVE Linked(i) = SeedAlerts[i]
  <2>1. LinksOf(i) = SeedLinks(i)
    BY DEF Init, LinksOf, SeedLinks
  <2>2. ASSUME NEW a \in SeedAlerts[i] PROVE \E l \in SeedLinks(i) : l.alert = a
    <3>1. PICK l : l = [alert |-> a, incident |-> i, rule |-> "auto", path |-> <<i>>]
      OBVIOUS
    <3>2. l \in SeedLinks(i) /\ l.alert = a
      BY <3>1 DEF SeedLinks
    <3> QED
      BY <3>2
  <2>3. \A l \in SeedLinks(i) : l.alert \in SeedAlerts[i]
    BY DEF SeedLinks
  <2> QED
    BY <2>1, <2>2, <2>3 DEF Linked, AlertsIn
<1>2. DOMAIN incidents = Seeds /\ \A i \in Seeds : incidents[i].status = "open"
  BY DEF Init
<1>3. Holds = SeedAlerts
  BY <1>1, <1>2, StoreAssumption DEF Holds
<1>4. Status = [i \in Seeds |-> "open"]
  BY <1>2 DEF Status
<1>5. Scopes = [i \in Seeds |-> Scope(SeedAlerts[i])]
  BY <1>2 DEF Scopes, Init
<1> QED
  BY <1>3, <1>4, <1>5 DEF Ledger!Init, Status, Scopes, Holds

LEMMA LedgerMerge ==
    ASSUME Known, CountInv, NEW q \in Requests, CommitMerge(q)
    PROVE  Ledger!Next
<1>0. PICK master : master = call[q].ids[1]
  OBVIOUS
<1>1. /\ call[q] \in Calls /\ WellFormed(call[q]) /\ call[q].op = "merge" /\ pc[q] = "ready"
      /\ \A i \in Named(call[q]) : seen[q][i] \in IncidentRow
      /\ Named(call[q]) \subseteq DOMAIN incidents
      /\ master \in DOMAIN incidents
  BY <1>0, MergeMoves
<1>2. RowsCurrent(q) /\ rows[q] = LinksFrom(Loaded(q))
  BY <1>0, MergeMoves
<1>3. /\ LinksOf(master)' = LinksOf(master) \cup {Copy(r, master, "merge", q) : r \in rows[q]}
      /\ \A j : j # master => LinksOf(j)' = LinksOf(j)
  BY <1>0, MergeMoves
<1>4. PICK others : others = Iterated(call[q])
  OBVIOUS
<1>5. Named(call[q]) = others \cup {master} /\ master \notin others /\ others # {}
  <2> DEFINE s == call[q].ids
  <2>1. s \in Seq(IncidentIds) /\ Len(s) >= 2 /\ Collections(call[q]) = Tail(s)
    BY <1>1, CallShape DEF WellFormed, Collections, IsMark
  <2>2. s # <<>> /\ Head(s) = master /\ 1 \in DOMAIN Tail(s)
    BY <1>0, <2>1
  <2>3. others = {Tail(s)[k] : k \in DOMAIN Tail(s)}
    BY <1>4, <2>1 DEF Iterated
  <2>4. master \notin others
    BY <1>1, <2>1, <2>2, <2>3, WellFormedDistinct, TailDistinct
  <2> QED
    BY <1>0, <1>1, <1>4, <2>2, <2>3, <2>4, MergeIterates
<1>6. Loaded(q) = others
  BY <1>1, <1>4 DEF Loaded, Awaited, Known, SerialInv, ReadyIsThrough
<1>7. Linked(master)' = Linked(master) \cup UNION {Linked(i) : i \in others}
  <2>1. \A r : Copy(r, master, "merge", q).alert = r.alert
    BY DEF Copy
  <2>2. Linked(master)' = Linked(master) \cup AlertsIn(rows[q])
    BY <1>3, <2>1 DEF Linked, AlertsIn
  <2>3. AlertsIn(rows[q]) = UNION {Linked(i) : i \in others}
    BY <1>2, <1>6 DEF AlertsIn, Linked, LinksFrom, LinksOf
  <2> QED
    BY <2>2, <2>3
<1>8. \A j : j # master => Linked(j)' = Linked(j)
  BY <1>3 DEF Linked, AlertsIn
<1>9. DOMAIN incidents' = DOMAIN incidents
  BY DEF CommitMerge
<1>10. Holds' = [Holds EXCEPT ![master] = @ \cup UNION {Holds[i] : i \in others}]
  <2>1. UNION {Holds[i] : i \in others} = UNION {Linked(i) : i \in others}
    BY <1>1, <1>5 DEF Holds
  <2>2. Holds' = [j \in DOMAIN incidents |->
                    IF j = master THEN Linked(master) \cup UNION {Linked(i) : i \in others}
                    ELSE Linked(j)]
    BY <1>7, <1>8, <1>9 DEF Holds
  <2> QED
    BY <1>1, <2>1, <2>2 DEF Holds
<1>11. ASSUME NEW j \in DOMAIN incidents
       PROVE  incidents'[j].status = IF j \in others THEN "merged" ELSE incidents[j].status
  <2>1. CASE j \notin Named(call[q])
    BY <1>5, <2>1 DEF CommitMerge
  <2>2. CASE j = master
    <3>1. incidents'[j] = Flush(seen[q][j], MergedRow(q), incidents[j])
      BY <1>0, <1>5, <2>2 DEF CommitMerge
    <3>2. MergedRow(q).status = seen[q][j].status
      BY <1>0, <1>1, <1>5, <2>2 DEF MergedRow, IncidentRow
    <3> QED
      BY <1>5, <2>2, <3>1, <3>2 DEF Flush, Column
  <2>3. CASE j \in others
    <3>1. incidents'[j] = Flush(seen[q][j], [seen[q][j] EXCEPT !.status = "merged"], incidents[j])
      BY <1>0, <1>5, <2>3 DEF CommitMerge
    <3>2. [seen[q][j] EXCEPT !.status = "merged"].status = "merged"
      BY <1>1, <1>5, <2>3 DEF IncidentRow
    <3>3. seen[q][j] = incidents[j]
      BY <1>2, <1>5, <2>3 DEF RowsCurrent
    <3> QED
      BY <2>3, <3>1, <3>2, <3>3 DEF Flush, Column
  <2> QED
    BY <1>5, <2>1, <2>2, <2>3
<1>12. Status' = [i \in DOMAIN incidents |-> IF i \in others THEN "merged" ELSE Status[i]]
  BY <1>9, <1>11 DEF Status
<1>13. Scopes' = [Scopes EXCEPT ![master] = @ \cup UNION {Scopes[i] : i \in others}]
  <2>1. \A j \in Named(call[q]) : seen[q][j] = incidents[j]
    BY <1>2 DEF RowsCurrent
  <2>2. UNION {seen[q][j].scope : j \in Named(call[q])}
          = incidents[master].scope \cup UNION {incidents[j].scope : j \in others}
    BY <1>5, <2>1
  <2>3. MergedRow(q).scope
          = incidents[master].scope \cup UNION {incidents[j].scope : j \in others}
    BY <1>0, <1>1, <1>5, <2>2 DEF MergedRow, IncidentRow
  <2>4. incidents'[master] = Flush(seen[q][master], MergedRow(q), incidents[master])
    BY <1>0, <1>1, <1>5 DEF CommitMerge
  <2>5. incidents'[master].scope = MergedRow(q).scope
    BY <1>5, <2>1, <2>4 DEF Flush, Column
  <2>6. ASSUME NEW j \in DOMAIN incidents, j # master
        PROVE  incidents'[j].scope = incidents[j].scope
    <3>1. CASE j \notin Named(call[q])
      BY <3>1 DEF CommitMerge
    <3>2. CASE j \in others
      <4>1. incidents'[j] = Flush(seen[q][j], [seen[q][j] EXCEPT !.status = "merged"],
                                  incidents[j])
        BY <1>0, <1>5, <3>2 DEF CommitMerge
      <4>2. [seen[q][j] EXCEPT !.status = "merged"].scope = seen[q][j].scope
        BY <1>1, <1>5, <3>2 DEF IncidentRow
      <4> QED
        BY <4>1, <4>2 DEF Flush, Column
    <3> QED
      BY <1>5, <2>6, <3>1, <3>2
  <2>7. UNION {Scopes[i] : i \in others} = UNION {incidents[i].scope : i \in others}
    BY <1>1, <1>5 DEF Scopes
  <2>8. Scopes' = [j \in DOMAIN incidents |->
                     IF j = master THEN incidents[master].scope
                                          \cup UNION {incidents[i].scope : i \in others}
                     ELSE incidents[j].scope]
    BY <1>9, <2>3, <2>5, <2>6 DEF Scopes
  <2> QED
    BY <1>1, <2>7, <2>8 DEF Scopes
<1>14. DOMAIN Status = DOMAIN incidents
  BY DEF Status
<1>16. Ledger!Merge(master, others)
  BY <1>10, <1>12, <1>13 DEF Ledger!Merge, Ledger!live, Status, Scopes, Holds
<1>15. others \in (SUBSET (DOMAIN incidents \ {master})) \ {{}}
  BY <1>1, <1>5
<1> QED
  BY <1>1, <1>14, <1>15, <1>16 DEF Ledger!Next, Ledger!live

LEMMA LedgerSplit ==
    ASSUME Known, CountInv, SomethingMoves, NEW q \in Requests, CommitSplit(q)
    PROVE  Ledger!Next
<1>0. PICK i : i = call[q].target /\ SplitMove(q, i)
  BY SplitMoves
<1>1. /\ call[q] \in Calls /\ call[q].op = "split" /\ pc[q] = "ready"
      /\ seen[q][i] \in IncidentRow /\ i \in DOMAIN incidents /\ seen[q][i] = incidents[i]
      /\ q \notin DOMAIN incidents
      /\ Moved(q) \subseteq LinksOf(i) /\ LinksOf(i) \subseteq rows[q]
  BY <1>0 DEF SplitMove
<1>2. /\ LinksOf(q)' = {Copy(r, q, "split", q) : r \in Moved(q)}
      /\ LinksOf(i)' = LinksOf(i) \ Moved(q)
      /\ \A j : j # i /\ j # q => LinksOf(j)' = LinksOf(j)
  BY <1>0 DEF SplitMove
<1>3. /\ DOMAIN incidents' = DOMAIN incidents \cup {q}
      /\ incidents'[q] = SplitOffRow(q)
      /\ incidents'[i] = Flush(seen[q][i], RemainingRow(q), incidents[i])
      /\ \A j \in DOMAIN incidents : j # i => incidents'[j] = incidents[j]
  BY <1>0 DEF SplitMove
<1>4. PICK moving : moving = AlertsIn(Moved(q))
  OBVIOUS
<1>5. moving \in (SUBSET Linked(i)) \ {{}}
  <2>1. moving \subseteq Linked(i)
    BY <1>1, <1>4 DEF Linked, AlertsIn
  <2>2. AlertsIn(rows[q]) \cap call[q].alerts # {}
    BY <1>1 DEF SomethingMoves, Moves, Op
  <2> QED
    BY <1>4, <2>1, <2>2 DEF Moved, AlertsIn
<1>6. Linked(q)' = moving
  <2>1. \A r : Copy(r, q, "split", q).alert = r.alert
    BY DEF Copy
  <2> QED
    BY <1>2, <1>4, <2>1 DEF Linked, AlertsIn
<1>7. Linked(i)' = Linked(i) \ moving
  <2>1. \A r \in LinksOf(i) : r \in Moved(q) <=> r.alert \in moving
    BY <1>1, <1>4 DEF Moved, AlertsIn
  <2> QED
    BY <1>2, <2>1 DEF Linked, AlertsIn
<1>8. \A j : j # i /\ j # q => Linked(j)' = Linked(j)
  BY <1>2 DEF Linked, AlertsIn
<1>9. Holds' = [j \in DOMAIN incidents \cup {q} |->
                  IF j = q THEN moving ELSE IF j = i THEN Linked(i) \ moving ELSE Linked(j)]
  BY <1>3, <1>6, <1>7, <1>8 DEF Holds
<1>10. \A j \in DOMAIN incidents \cup {q} :
          incidents'[j].status = IF j = q THEN "open" ELSE incidents[j].status
  <2>1. RemainingRow(q).status = seen[q][i].status
    BY <1>0, <1>1 DEF RemainingRow, IncidentRow
  <2>2. incidents'[i].status = incidents[i].status
    BY <1>3, <2>1 DEF Flush, Column
  <2>3. incidents'[q].status = "open"
    BY <1>3 DEF SplitOffRow
  <2> QED
    BY <1>1, <1>3, <2>2, <2>3
<1>11. Status' = [j \in DOMAIN incidents \cup {q} |-> IF j = q THEN "open" ELSE Status[j]]
  BY <1>3, <1>10 DEF Status
<1>12. Holds[i] = Linked(i) /\ DOMAIN Status = DOMAIN incidents
  BY <1>1 DEF Holds, Status
<1>13. Holds' = [j \in DOMAIN incidents \cup {q} |->
                  IF j = q THEN moving ELSE IF j = i THEN Holds[i] \ moving ELSE Holds[j]]
  BY <1>1, <1>9 DEF Holds
<1>16. PICK kept : kept = incidents'[i].scope
  OBVIOUS
<1>17. PICK given : given = incidents'[q].scope
  OBVIOUS
<1>18. kept \in SUBSET Scopes[i] /\ given \in SUBSET Scopes[i]
  <2>1. AlertsIn(rows[q]) \subseteq Alerts
    BY DEF AlertsIn, Known, SerialInv, TypeInv, TypeOK, SessionsOK, LinkRow
  <2>2. \A A \in SUBSET Alerts : Scope(AlertsByEventId(A)) = {}
    <3>1. alerts \subseteq Alerts
      BY DEF Known, SerialInv, TypeInv, TypeOK, TablesOK
    <3> QED
      BY <3>1, EventIdAssumption DEF Scope, AlertsByEventId
  <2>3. AlertsIn(Moved(q)) \subseteq Alerts /\ AlertsIn(rows[q] \ Moved(q)) \subseteq Alerts
    BY <2>1 DEF AlertsIn, Moved
  <2>4. RemainingRow(q).scope = {} /\ SplitOffRow(q).scope = {}
    BY <1>0, <1>1, <2>2, <2>3 DEF RemainingRow, SplitOffRow, IncidentRow
  <2>5. kept = {} /\ given = {}
    BY <1>1, <1>3, <1>16, <1>17, <2>4 DEF Flush, Column
  <2> QED
    BY <2>5
<1>19. Scopes' = [j \in DOMAIN incidents \cup {q} |->
                    IF j = q THEN given ELSE IF j = i THEN kept ELSE Scopes[j]]
  BY <1>3, <1>16, <1>17 DEF Scopes
<1>14. Ledger!Split(i, q, moving)
  BY <1>11, <1>13, <1>18, <1>19 DEF Ledger!Split, Ledger!live, Status, Scopes, Holds
<1>15. q \in IncidentIds \ DOMAIN incidents
  BY <1>1 DEF IncidentIds
<1> QED
  BY <1>1, <1>5, <1>12, <1>14, <1>15 DEF Ledger!Next, Ledger!live, Holds

LEMMA LedgerUpdate ==
    ASSUME Known, NEW q \in Requests, CommitUpdate(q)
    PROVE  Ledger!Next \/ UNCHANGED Ledger!ledger
<1>0. PICK i : i = call[q].target
  OBVIOUS
<1>1. /\ call[q] \in Calls /\ call[q].op = "update" /\ pc[q] = "ready"
      /\ seen[q][i] \in IncidentRow /\ i \in DOMAIN incidents
      /\ Named(call[q]) = {i}
  BY <1>0, ReadyHolds DEF CommitUpdate, Ready, Op, Named, Commits, NoStaleRow, Known, SerialInv
<1>2. seen[q][i] = incidents[i]
  <2>1. RowsCurrent(q)
    BY <1>1 DEF Standing, Reading, Current, Known, SerialInv
  <2> QED
    BY <1>1, <2>1 DEF RowsCurrent
<1>3. PICK new : new = UpdatedRow(incidents[i], call[q].status).status
  OBVIOUS
<1>4. new = IF call[q].status = NoStatus THEN incidents[i].status ELSE call[q].status
  BY <1>1, <1>2, <1>3 DEF UpdatedRow, IncidentRow
<1>5. /\ DOMAIN incidents' = DOMAIN incidents
      /\ incidents'[i].status = new
      /\ \A j \in DOMAIN incidents : j # i => incidents'[j] = incidents[j]
  BY <1>0, <1>1, <1>2, <1>3 DEF CommitUpdate, Flush, Column
<1>6. Status' = [Status EXCEPT ![i] = new]
  BY <1>1, <1>5 DEF Status
<1>7. Holds' = Holds
  <2>1. \A j : Linked(j)' = Linked(j)
    BY DEF CommitUpdate, Linked, AlertsIn, LinksOf
  <2> QED
    BY <1>5, <2>1 DEF Holds
<1>10. Scopes' = Scopes
  <2>1. UpdatedRow(incidents[i], call[q].status).scope = incidents[i].scope
    BY <1>1, <1>2 DEF UpdatedRow, IncidentRow
  <2>2. incidents'[i].scope = incidents[i].scope
    BY <1>0, <1>1, <1>2, <2>1 DEF CommitUpdate, Flush, Column
  <2> QED
    BY <1>5, <2>2 DEF Scopes
<1>8. CASE call[q].status = NoStatus
  <2>1. Status' = Status
    BY <1>1, <1>4, <1>5, <1>8 DEF Status
  <2> QED
    BY <1>7, <1>10, <2>1 DEF Ledger!ledger, Status, Scopes, Holds
<1>9. CASE call[q].status # NoStatus
  <2>1. new \in Statuses
    BY <1>1, <1>4, <1>9, CallShape
  <2>2. Ledger!SetStatus(i, new)
    BY <1>6, <1>7, <1>10 DEF Ledger!SetStatus, Status, Scopes, Holds
  <2>3. i \in Ledger!live
    BY <1>1 DEF Ledger!live
  <2> QED
    BY <2>1, <2>2, <2>3 DEF Ledger!Next
<1> QED
  BY <1>8, <1>9

LEMMA LedgerDelete ==
    ASSUME NEW q \in Requests, CommitDelete(q)
    PROVE  Ledger!Next \/ UNCHANGED Ledger!ledger
<1>0. PICK i : i = call[q].target
  OBVIOUS
<1>1. incidents' = [j \in DOMAIN incidents \ {i} |-> incidents[j]]
      /\ links' = links \ LinksOf(i)
  BY <1>0 DEF CommitDelete
<1>2. \A j : j # i => Linked(j)' = Linked(j)
  BY <1>1 DEF Linked, AlertsIn, LinksOf
<1>3. Status' = [j \in DOMAIN incidents \ {i} |-> Status[j]]
  BY <1>1 DEF Status
<1>4. Holds' = [j \in DOMAIN incidents \ {i} |-> Holds[j]]
  BY <1>1, <1>2 DEF Holds
<1>5. DOMAIN Status = DOMAIN incidents
  BY DEF Status
<1>9. Scopes' = [j \in DOMAIN incidents \ {i} |-> Scopes[j]]
  BY <1>1 DEF Scopes
<1>6. Ledger!Delete(i)
  BY <1>3, <1>4, <1>5, <1>9 DEF Ledger!Delete, Ledger!live, Status, Scopes, Holds
<1>7. CASE i \in DOMAIN incidents
  BY <1>6, <1>7 DEF Ledger!Next, Ledger!live
<1>8. CASE i \notin DOMAIN incidents
  <2>1. DOMAIN incidents \ {i} = DOMAIN incidents
    BY <1>8
  <2>2. Status' = Status /\ Scopes' = Scopes /\ Holds' = Holds
    BY <1>3, <1>4, <1>9, <2>1 DEF Status, Scopes, Holds
  <2> QED
    BY <2>2 DEF Ledger!ledger, Status, Scopes, Holds
<1> QED
  BY <1>7, <1>8

LEMMA LedgerCleanup ==
    ASSUME TypeInv, RunCleanup
    PROVE  Ledger!Next
<1>1. PICK expired \in SUBSET (alerts \cap OldAlerts),
           old \in SUBSET {i \in DOMAIN incidents : "incidents" \in Aging /\ Purgeable(i)},
           aged \in SUBSET {e \in audit : "audit_logs" \in Aging} :
             Cleanup(expired, old, aged)
  BY DEF RunCleanup
<1>2. /\ incidents' = [i \in DOMAIN incidents \ old |-> incidents[i]]
      /\ links' = {l \in links : l.alert \notin expired /\ l.incident \notin old}
  BY <1>1 DEF Cleanup
<1>3. \A i \in DOMAIN incidents \ old : Linked(i)' = Linked(i) \ expired
  BY <1>2 DEF Linked, AlertsIn, LinksOf
<1>4. Status' = [i \in DOMAIN incidents \ old |-> Status[i]]
  BY <1>2 DEF Status
<1>5. Holds' = [i \in DOMAIN incidents \ old |-> Holds[i] \ expired]
  BY <1>2, <1>3 DEF Holds
<1>6. DOMAIN Status = DOMAIN incidents
  BY DEF Status
<1>10. Scopes' = [i \in DOMAIN incidents \ old |-> Scopes[i]]
  BY <1>2 DEF Scopes
<1>7. Ledger!Purge(expired, old)
  BY <1>4, <1>5, <1>6, <1>10 DEF Ledger!Purge, Ledger!live, Status, Scopes, Holds
<1>8. \A i \in old : i \in DOMAIN incidents /\ Status[i] \in {s \in Statuses : Closing(s)}
  BY <1>1 DEF Purgeable, Status, TypeInv, TypeOK, TablesOK, IsTable, IncidentRow
<1>9. expired \in SUBSET OldAlerts /\ old \in SUBSET {i \in DOMAIN Status :
                                                 Status[i] \in {s \in Statuses : Closing(s)}}
  BY <1>1, <1>6, <1>8
<1> QED
  BY <1>7, <1>9 DEF Ledger!Next, Ledger!live, Status

LEMMA LedgerStep ==
    ASSUME Known, CountInv, SomethingMoves, [Next]_vars
    PROVE  [Ledger!Next]_(Ledger!ledger)
<1>1. CASE UNCHANGED <<incidents, links>>
  <2>1. \A j : Linked(j)' = Linked(j)
    BY <1>1 DEF Linked, AlertsIn, LinksOf
  <2>2. Status' = Status /\ Scopes' = Scopes /\ Holds' = Holds
    BY <1>1, <2>1 DEF Status, Scopes, Holds
  <2> QED
    BY <2>2 DEF Ledger!ledger, Status, Scopes, Holds
<1>2. ASSUME NEW q \in Requests, Start(q) \/ Handle(q) PROVE [Ledger!Next]_(Ledger!ledger)
  <2>1. \/ CommitUpdate(q) \/ CommitDelete(q) \/ CommitMerge(q) \/ CommitSplit(q)
        \/ UNCHANGED <<incidents, links>>
    BY <1>2 DEF Start, Handle, Load, Reject, LoadLinks, LoadStats, CommitNote, Abort,
       RecordFeedback, AuditFalsePositive, Audit, LoseAudit, Interrupt,
       tables
  <2> QED
    BY <1>1, <2>1, LedgerUpdate, LedgerDelete, LedgerMerge, LedgerSplit
<1>3. CASE RunCleanup
  BY <1>3, LedgerCleanup DEF Known, SerialInv
<1>4. CASE Crash \/ UNCHANGED vars
  BY <1>1, <1>4 DEF Crash, tables, vars
<1> QED
  BY <1>2, <1>3, <1>4 DEF Next, Quiescent

\* With a single worker the handlers implement atomic operations on incidents that have a
\* status, attributes and alerts: whatever a handler reads in several steps, whatever is purged
\* under it, and wherever it is killed, its request takes effect at once or not at all.
THEOREM HandlersActAtOnce == ASSUME Workers = 1 PROVE Spec => ActsAtOnce
<1>1. Known /\ CountInv /\ SomethingMoves /\ [Next]_vars => [Ledger!Next]_(Ledger!ledger)
  BY LedgerStep
<1> QED
  BY <1>1, LedgerInit, CountInvariance, MovesInvariance, PTL DEF Spec, ActsAtOnce, Ledger!Spec
=============================================================================
