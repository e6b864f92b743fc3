-------------------------- MODULE RateLimitProofs --------------------------
(***************************************************************************)
(* For any limits, multipliers, window length and arrival pattern, the two *)
(* counters of a client admit exactly what one window with the larger      *)
(* limit would: the smaller counter has no effect.                         *)
(***************************************************************************)
EXTENDS RateLimit, FiniteSetTheorems, TLAPS

-----------------------------------------------------------------------------
(* The inductive invariant: the smaller counter's entries are among those  *)
(* of the larger one, which lacks room only when it holds its limit, and   *)
(* has at most the difference of the limits more.                          *)

SmallLimit(c) == IF BurstLimit(c) < Limit[c] THEN BurstLimit(c) ELSE Limit[c]
Small(c) == IF BurstLimit(c) < Limit[c] THEN burst[c] ELSE sustained[c]
Large(c) == IF BurstLimit(c) < Limit[c] THEN sustained[c] ELSE burst[c]

NestedSets(A, B, l, L) ==
    /\ IsFiniteSet(B) /\ A \subseteq B
    /\ Cardinality(B) <= L
    /\ Cardinality(B \ A) <= L - l

Nested(c) == NestedSets(Kept(Small(c)), Kept(Large(c)), SmallLimit(c), Larger(c))
Covers(c) == AdmittedSince(c, now - Window) = Kept(Large(c))

Inv == TypeOK /\ \A c \in Clients : Nested(c) /\ Covers(c)

-----------------------------------------------------------------------------
LEMMA LimitTypes ==
    ASSUME NEW c \in Clients
    PROVE  /\ Limit[c] \in Nat /\ BurstLimit(c) \in Nat
           /\ SmallLimit(c) \in Nat /\ Larger(c) \in Nat
           /\ SmallLimit(c) <= Larger(c)
<1>1. Limit[c] \in Nat /\ Percent[c] \in Nat /\ BurstCap \in Nat
  BY RateAssumption
<1>2. Limit[c] * Percent[c] \in Nat
  BY <1>1
<1>3. (Limit[c] * Percent[c]) \div 100 \in Nat
  <2> DEFINE p == Limit[c] * Percent[c]
  <2>1. p \in Nat
    BY <1>2
  <2> HIDE DEF p
  <2>2. p \div 100 \in Nat
    BY <2>1
  <2> QED
    BY <2>2 DEF p
<1>4. BurstLimit(c) \in Nat
  BY <1>1, <1>3 DEF BurstLimit
<1> QED
  BY <1>1, <1>4 DEF SmallLimit, Larger

\* Offering one request to both counters of a nested pair keeps them nested, and the
\* smaller one never has room when the larger one has none.
LEMMA OfferBoth ==
    ASSUME NEW A, NEW B, NEW l \in Nat, NEW L \in Nat, l <= L,
           NestedSets(A, B, l, L), NEW n, n \notin B
    PROVE  LET A1 == IF HasRoom(A, l) THEN A \cup {n} ELSE A
               B1 == IF HasRoom(B, L) THEN B \cup {n} ELSE B
           IN  NestedSets(A1, B1, l, L) /\ (HasRoom(A, l) => HasRoom(B, L))
<1> DEFINE A1 == IF HasRoom(A, l) THEN A \cup {n} ELSE A
           B1 == IF HasRoom(B, L) THEN B \cup {n} ELSE B
<1>1. IsFiniteSet(A) /\ IsFiniteSet(B) /\ IsFiniteSet(B \ A)
  BY FS_Subset, FS_Difference DEF NestedSets
<1>2. Cardinality(A) \in Nat /\ Cardinality(B) \in Nat /\ Cardinality(B \ A) \in Nat
  BY <1>1, FS_CardinalityType
<1>3. Cardinality(B \ A) = Cardinality(B) - Cardinality(A)
  <2>1. B \cap A = A
    BY DEF NestedSets
  <2> QED
    BY <1>1, <2>1, FS_Difference
<1>4. HasRoom(A, l) => HasRoom(B, L)
  BY <1>2, <1>3 DEF HasRoom, NestedSets
<1>5. IsFiniteSet(B \cup {n}) /\ Cardinality(B \cup {n}) = Cardinality(B) + 1
  BY <1>1, FS_AddElement
<1>6. NestedSets(A1, B1, l, L)
  <2>1. CASE HasRoom(A, l)
    <3>1. A1 = A \cup {n} /\ B1 = B \cup {n}
      BY <1>4, <2>1
    <3>2. B1 \ A1 = B \ A
      BY <3>1 DEF NestedSets
    <3> HIDE DEF A1, B1
    <3>3. Cardinality(B1) <= L
      BY <1>2, <1>4, <1>5, <2>1, <3>1 DEF HasRoom
    <3> QED
      BY <1>5, <3>1, <3>2, <3>3 DEF NestedSets
  <2>2. CASE ~HasRoom(A, l) /\ HasRoom(B, L)
    <3>1. A1 = A /\ B1 = B \cup {n}
      BY <2>2
    <3>2. B1 \ A1 = (B \ A) \cup {n} /\ n \notin B \ A
      BY <3>1 DEF NestedSets
    <3> HIDE DEF A1, B1
    <3>3. Cardinality(B1 \ A1) = Cardinality(B \ A) + 1
      BY <1>1, <3>2, FS_AddElement
    <3>4. Cardinality(B \ A) + 1 <= L - l /\ Cardinality(B) + 1 <= L
      BY <1>2, <1>3, <2>2 DEF HasRoom
    <3> QED
      BY <1>5, <3>1, <3>3, <3>4 DEF NestedSets
  <2>3. CASE ~HasRoom(A, l) /\ ~HasRoom(B, L)
    BY <2>3
  <2> QED
    BY <1>4, <2>1, <2>2, <2>3
<1> QED
  BY <1>4, <1>6

\* Forgetting old entries of both counters by the same rule keeps them nested.
LEMMA ForgetBoth ==
    ASSUME NEW A, NEW B, NEW l \in Nat, NEW L \in Nat, NestedSets(A, B, l, L), NEW T
    PROVE  NestedSets(A \cap T, B \cap T, l, L)
<1>1. IsFiniteSet(B) /\ IsFiniteSet(B \cap T) /\ IsFiniteSet(B \ A)
      /\ Cardinality(B \cap T) <= Cardinality(B)
  BY FS_Intersection, FS_Difference DEF NestedSets
<1>2. (B \cap T) \ (A \cap T) \subseteq B \ A
  OBVIOUS
<1>3. IsFiniteSet((B \cap T) \ (A \cap T))
      /\ Cardinality((B \cap T) \ (A \cap T)) <= Cardinality(B \ A)
  BY <1>1, <1>2, FS_Subset
<1>4. /\ Cardinality(B) \in Nat /\ Cardinality(B \cap T) \in Nat /\ Cardinality(B \ A) \in Nat
      /\ Cardinality((B \cap T) \ (A \cap T)) \in Nat
  BY <1>1, <1>3, FS_CardinalityType
<1> QED
  BY <1>1, <1>3, <1>4 DEF NestedSets

-----------------------------------------------------------------------------
(* The invariant holds *)

LEMMA EntriesTyped ==
    ASSUME TypeOK
    PROVE  \A n \in Positions : arrivals[n] \in [client : Clients, time : Nat]
                                 /\ arrivals[n].time \in Nat
<1>1. arrivals \in Seq([client : Clients, time : Nat])
  BY DEF TypeOK
<1>2. ASSUME NEW n \in Positions PROVE arrivals[n] \in [client : Clients, time : Nat]
  <2> DEFINE R == [client : Clients, time : Nat]
  <2>1. arrivals \in Seq(R) /\ n \in 1..Len(arrivals)
    BY <1>1, <1>2 DEF Positions
  <2> HIDE DEF R
  <2>2. arrivals[n] \in R
    BY <2>1
  <2> QED
    BY <2>2 DEF R
<1>3. \A e \in [client : Clients, time : Nat] : e.time \in Nat
  OBVIOUS
<1> QED
  BY <1>2, <1>3

LEMMA InvInit == Init => Inv
<1> SUFFICES ASSUME Init PROVE Inv
  OBVIOUS
<1>1. TypeOK
  BY DEF Init, TypeOK, Positions
<1>2. ASSUME NEW c \in Clients PROVE Nested(c) /\ Covers(c)
  <2>1. Small(c) = {} /\ Large(c) = {}
    BY DEF Init, Small, Large
  <2>2. Kept(Small(c)) = {} /\ Kept(Large(c)) = {} /\ AdmittedSince(c, now - Window) = {}
    BY <2>1 DEF Init, Kept, AdmittedSince
  <2>3. IsFiniteSet({}) /\ Cardinality({}) = 0 /\ {} \ {} = {}
    BY FS_EmptySet
  <2>4. Larger(c) \in Nat /\ SmallLimit(c) \in Nat /\ SmallLimit(c) <= Larger(c)
    BY LimitTypes
  <2> QED
    BY <2>2, <2>3, <2>4 DEF Nested, Covers, NestedSets
<1> QED
  BY <1>1, <1>2 DEF Inv

LEMMA InvTick == Inv /\ Tick => Inv'
<1> SUFFICES ASSUME Inv, Tick PROVE Inv'
  OBVIOUS
<1>1. TypeOK'
  BY DEF Inv, Tick, TypeOK, Positions
<1>2. ASSUME NEW c \in Clients PROVE Nested(c)' /\ Covers(c)'
  <2> DEFINE T == {n \in Positions : arrivals[n].time > now' - Window}
  <2>1. /\ now \in Nat /\ now' = now + 1 /\ arrivals' = arrivals /\ admitted' = admitted
        /\ sustained' = sustained /\ burst' = burst /\ Window \in Nat
        /\ \A n \in Positions : arrivals[n].time \in Nat
    BY RateAssumption, EntriesTyped DEF Inv, Tick, TypeOK
  <2>2. Small(c) \subseteq Positions /\ Large(c) \subseteq Positions /\ admitted \subseteq Positions
    BY DEF Inv, TypeOK, Small, Large
  <2>3. Small(c)' = Small(c) /\ Large(c)' = Large(c)
    BY <2>1 DEF Small, Large
  <2>4. \A E \in SUBSET Positions :
            {n \in E : arrivals'[n].time > now' - Window}
              = {n \in E : arrivals[n].time > now - Window} \cap T
    BY <2>1
  <2>5. Kept(Small(c))' = Kept(Small(c)) \cap T /\ Kept(Large(c))' = Kept(Large(c)) \cap T
    BY <2>2, <2>3, <2>4 DEF Kept
  <2>6. AdmittedSince(c, now - Window)' = AdmittedSince(c, now - Window) \cap T
    BY <2>1, <2>2 DEF AdmittedSince
  <2>7. NestedSets(Kept(Small(c)) \cap T, Kept(Large(c)) \cap T, SmallLimit(c), Larger(c))
    BY LimitTypes, ForgetBoth DEF Inv, Nested
  <2>8. SmallLimit(c)' = SmallLimit(c) /\ Larger(c)' = Larger(c)
    BY DEF SmallLimit, Larger, BurstLimit
  <2>9. Nested(c)'
    BY <2>5, <2>7, <2>8 DEF Nested, NestedSets
  <2> QED
    BY <2>5, <2>6, <2>9 DEF Inv, Covers
<1> QED
  BY <1>1, <1>2 DEF Inv

LEMMA InvArrive == Inv /\ (\E c \in Clients : Arrive(c)) => Inv'
<1> SUFFICES ASSUME Inv, NEW c \in Clients, Arrive(c) PROVE Inv'
  OBVIOUS
<1> DEFINE n == Len(arrivals) + 1
           e == [client |-> c, time |-> now]
<1>1. TypeOK /\ Len(arrivals) \in Nat /\ n \notin Positions /\ n \in Nat
  BY DEF Inv, TypeOK, Positions
<1>2. /\ arrivals' = Append(arrivals, e) /\ now' = now
      /\ sustained' = [sustained EXCEPT ![c] = Offered(@, Limit[c], n)]
      /\ burst' = [burst EXCEPT ![c] = Offered(@, BurstLimit(c), n)]
      /\ admitted' = IF Allowed(c) THEN admitted \cup {n} ELSE admitted
  BY DEF Arrive
<1>3. Positions' = Positions \cup {n} /\ Positions \subseteq Positions'
  BY <1>1, <1>2 DEF Positions, TypeOK
<1>4. (\A m \in Positions : arrivals'[m] = arrivals[m]) /\ arrivals'[n] = e
  BY <1>1, <1>2 DEF Positions, TypeOK
<1>5. now \in Nat /\ Window \in Nat /\ Window > 0 /\ now > now - Window
  BY <1>1, RateAssumption DEF TypeOK
<1>6. sustained \in [Clients -> SUBSET Positions] /\ burst \in [Clients -> SUBSET Positions]
      /\ admitted \subseteq Positions
  BY <1>1 DEF TypeOK
<1>7. \A d \in Clients :
        /\ sustained'[d] = IF d = c THEN Offered(sustained[c], Limit[c], n) ELSE sustained[d]
        /\ burst'[d] = IF d = c THEN Offered(burst[c], BurstLimit(c), n) ELSE burst[d]
  BY <1>2, <1>6
<1>8. TypeOK'
  <2>1. arrivals' \in Seq([client : Clients, time : Nat]) /\ now' \in Nat
    BY <1>1, <1>2, <1>5 DEF TypeOK
  <2>2. \A E \in SUBSET Positions, l \in Nat :
            Offered(E, l, n) \subseteq E \cup {n} /\ Offered(E, l, n) \in SUBSET Positions'
    BY <1>3 DEF Offered, Kept
  <2>3. Limit[c] \in Nat /\ BurstLimit(c) \in Nat
    BY LimitTypes
  <2>4. sustained' \in [Clients -> SUBSET Positions'] /\ burst' \in [Clients -> SUBSET Positions']
    BY <1>2, <1>3, <1>6, <2>2, <2>3
  <2>5. admitted' \subseteq Positions'
    BY <1>2, <1>3, <1>6
  <2>6. ASSUME NEW d \in Clients, NEW m \in sustained'[d] \cup burst'[d]
        PROVE  arrivals'[m].client = d
    <3>1. m \in sustained[d] \cup burst[d] \/ (d = c /\ m = n)
      BY <1>6, <1>7, <2>2, <2>3, <2>6
    <3>2. m \in sustained[d] \cup burst[d] => m \in Positions /\ arrivals[m].client = d
      BY <1>1, <1>6 DEF TypeOK
    <3> QED
      BY <1>4, <3>1, <3>2
  <2> QED
    BY <2>1, <2>4, <2>5, <2>6 DEF TypeOK
<1>9. \A E \in SUBSET Positions : Kept(E)' = Kept(E)
  BY <1>2, <1>4 DEF Kept
<1>10. \A d \in Clients : SmallLimit(d)' = SmallLimit(d) /\ Larger(d)' = Larger(d)
  BY DEF SmallLimit, Larger, BurstLimit
<1>11. ASSUME NEW d \in Clients, d # c PROVE Nested(d)' /\ Covers(d)'
  <2>1. Small(d)' = Small(d) /\ Large(d)' = Large(d)
    BY <1>7, <1>11 DEF Small, Large, BurstLimit
  <2>2. Small(d) \in SUBSET Positions /\ Large(d) \in SUBSET Positions
    BY <1>6 DEF Small, Large
  <2>3. Kept(Small(d))' = Kept(Small(d)) /\ Kept(Large(d))' = Kept(Large(d))
    BY <1>2, <1>4, <2>1, <2>2 DEF Kept
  <2>4. AdmittedSince(d, now - Window)' = AdmittedSince(d, now - Window)
    <3>1. \A m \in admitted : m \in Positions /\ arrivals'[m] = arrivals[m]
      BY <1>4, <1>6
    <3>2. arrivals'[n].client # d
      BY <1>4, <1>11
    <3>3. AdmittedSince(d, now - Window)'
            = {m \in admitted' : arrivals'[m].client = d /\ arrivals'[m].time > now' - Window}
      BY DEF AdmittedSince
    <3> HIDE DEF n, e
    <3> QED
      BY <1>2, <3>1, <3>2, <3>3 DEF AdmittedSince
  <2> QED
    BY <1>10, <2>3, <2>4 DEF Inv, Nested, NestedSets, Covers
<1>12. Nested(c)' /\ Covers(c)'
  <2> DEFINE A == Kept(Small(c))
             B == Kept(Large(c))
             A1 == IF HasRoom(A, SmallLimit(c)) THEN A \cup {n} ELSE A
             B1 == IF HasRoom(B, Larger(c)) THEN B \cup {n} ELSE B
  <2>1. A \in SUBSET Positions /\ B \in SUBSET Positions
    BY <1>6 DEF Small, Large, Kept
  <2>2. NestedSets(A1, B1, SmallLimit(c), Larger(c))
        /\ (HasRoom(A, SmallLimit(c)) => HasRoom(B, Larger(c)))
    <3>1. NestedSets(A, B, SmallLimit(c), Larger(c))
      BY DEF Inv, Nested
    <3>2. SmallLimit(c) \in Nat /\ Larger(c) \in Nat /\ SmallLimit(c) <= Larger(c)
      BY LimitTypes
    <3>3. n \notin B
      BY <1>1, <2>1
    <3> HIDE DEF A, B, n
    <3> QED
      BY <3>1, <3>2, <3>3, OfferBoth
  <2>3. Small(c)' = A1 /\ Large(c)' = B1
    BY <1>7 DEF Small, Large, Offered, SmallLimit, Larger, BurstLimit
  <2>4. A1 \in SUBSET Positions' /\ B1 \in SUBSET Positions'
    BY <1>3, <2>1
  <2>5. \A m \in A \cup B : m \in Positions /\ arrivals[m].time > now - Window
    BY <2>1 DEF Kept
  <2>6. \A m \in A1 \cup B1 : arrivals'[m].time > now' - Window
    <3>1. \A m \in A1 \cup B1 : m \in A \cup B \/ m = n
      OBVIOUS
    <3>2. arrivals'[n].time = now
      BY <1>4
    <3> HIDE DEF A, B, A1, B1, n, e
    <3> QED
      BY <1>2, <1>4, <1>5, <2>5, <3>1, <3>2
  <2>7. Kept(Small(c))' = A1 /\ Kept(Large(c))' = B1
    BY <2>3, <2>6 DEF Kept
  <2>8. Nested(c)'
    BY <1>10, <2>2, <2>7 DEF Nested, NestedSets
  <2>9. Allowed(c) <=> HasRoom(B, Larger(c))
    BY <2>2 DEF Allowed, Small, Large, SmallLimit, Larger
  <2>10. AdmittedSince(c, now - Window) = B
    BY DEF Inv, Covers
  <2>11. AdmittedSince(c, now - Window)' = IF Allowed(c) THEN B \cup {n} ELSE B
    <3>1. \A m \in admitted : (m \in B) <=> (arrivals'[m].client = c /\ arrivals'[m].time > now' - Window)
      BY <1>2, <1>4, <1>6, <2>10 DEF AdmittedSince
    <3>2. arrivals'[n].client = c /\ arrivals'[n].time > now' - Window
      BY <1>2, <1>4, <1>5
    <3>3. B \subseteq admitted
      BY <2>10 DEF AdmittedSince
    <3>4. AdmittedSince(c, now - Window)'
            = {m \in admitted' : arrivals'[m].client = c /\ arrivals'[m].time > now' - Window}
      BY DEF AdmittedSince
    <3> HIDE DEF B, n
    <3> QED
      BY <1>2, <3>1, <3>2, <3>3, <3>4
  <2> QED
    BY <2>7, <2>8, <2>9, <2>11 DEF Covers
<1> QED
  BY <1>8, <1>11, <1>12 DEF Inv

LEMMA InvStep == Inv /\ [Next]_vars => Inv'
<1> SUFFICES ASSUME Inv, [Next]_vars PROVE Inv'
  OBVIOUS
<1>1. CASE Tick
  BY <1>1, InvTick
<1>2. CASE \E c \in Clients : Arrive(c)
  BY <1>2, InvArrive
<1>3. CASE UNCHANGED vars
  <2>1. TypeOK'
    BY <1>3 DEF vars, Inv, TypeOK, Positions
  <2>2. \A c \in Clients : Nested(c)' /\ Covers(c)'
    <3> SUFFICES ASSUME NEW c \in Clients PROVE Nested(c)' /\ Covers(c)'
      OBVIOUS
    <3>1. /\ now' = now /\ arrivals' = arrivals /\ admitted' = admitted
          /\ sustained' = sustained /\ burst' = burst
      BY <1>3 DEF vars
    <3>2. Kept(Small(c))' = Kept(Small(c)) /\ Kept(Large(c))' = Kept(Large(c))
      BY <3>1 DEF Kept, Small, Large, BurstLimit
    <3>3. SmallLimit(c)' = SmallLimit(c) /\ Larger(c)' = Larger(c)
      BY DEF SmallLimit, Larger, BurstLimit
    <3>4. AdmittedSince(c, now - Window)' = AdmittedSince(c, now - Window)
      BY <3>1 DEF AdmittedSince
    <3> QED
      BY <3>2, <3>3, <3>4 DEF Inv, Nested, NestedSets, Covers
  <2> QED
    BY <2>1, <2>2 DEF Inv
<1> QED
  BY <1>1, <1>2, <1>3 DEF Next, Exhausted

LEMMA Invariance == Spec => []Inv
  BY InvInit, InvStep, PTL DEF Spec

-----------------------------------------------------------------------------
(* What follows *)

\* The counters of a client only ever hold requests of that client.
THEOREM TypeCorrect == Spec => []TypeOK
<1>1. Inv => TypeOK
  BY DEF Inv
<1> QED
  BY <1>1, Invariance, PTL

\* No window lets more requests of a client through than its larger limit, for any
\* roles, limits, multipliers and arrival times: the two counters are never added up.
THEOREM WindowBounded == Spec => []WindowBound
<1>1. Inv => WindowBound
  BY DEF Inv, Nested, NestedSets, Covers, WindowBound
<1> QED
  BY <1>1, Invariance, PTL

\* The two counters implement one sliding window with the larger limit: the smaller
\* one neither admits nor refuses a request on its own.
THEOREM OneWindow == Spec => ActsAsOneWindow
<1>1. Init => Single!WindowInit
  BY DEF Init, Single!WindowInit
<1>2. Inv /\ [Next]_vars => [Single!WindowNext]_(Single!windowVars)
  <2> SUFFICES ASSUME Inv, [Next]_vars PROVE [Single!WindowNext]_(Single!windowVars)
    OBVIOUS
  <2>1. CASE Tick
    BY <2>1 DEF Inv, TypeOK, Tick, Single!WindowNext, Single!WindowTick
  <2>2. ASSUME NEW c \in Clients, Arrive(c) PROVE Single!WindowArrive(c)
    <3>1. Single!Recent(c) = Kept(Large(c))
      BY DEF Inv, Covers, AdmittedSince, Single!Recent
    <3>2. HasRoom(Kept(Small(c)), SmallLimit(c)) => HasRoom(Kept(Large(c)), Larger(c))
      <4>1. Kept(Large(c)) \subseteq Positions /\ Len(arrivals) + 1 \notin Positions
        BY DEF Inv, TypeOK, Positions, Kept, Large
      <4> QED
        BY <4>1, LimitTypes, OfferBoth DEF Inv, Nested
    <3>3. Allowed(c) <=> HasRoom(Kept(Large(c)), Larger(c))
      BY <3>2 DEF Allowed, Small, Large, SmallLimit, Larger
    <3>4. Allowed(c) <=> Single!Cardinality(Single!Recent(c)) < [d \in Clients |-> Larger(d)][c]
      <4>1. Single!Cardinality(Kept(Large(c))) = Cardinality(Kept(Large(c)))
        BY DEF Single!Cardinality, Single!IsFiniteSet, Cardinality, IsFiniteSet
      <4> QED
        BY <3>1, <3>3, <4>1 DEF HasRoom
    <3>5. /\ arrivals' = Append(arrivals, [client |-> c, time |-> now]) /\ now' = now
          /\ admitted' = IF Allowed(c) THEN admitted \cup {Len(arrivals) + 1} ELSE admitted
      BY <2>2 DEF Arrive
    <3>6. admitted' = IF Single!Cardinality(Single!Recent(c)) < [d \in Clients |-> Larger(d)][c]
                      THEN admitted \cup {Len(arrivals) + 1} ELSE admitted
      BY <3>4, <3>5, Zenon
    <3> QED
      BY <3>5, <3>6, Zenon DEF Single!WindowArrive
  <2>3. CASE UNCHANGED vars
    BY <2>3 DEF vars, Single!windowVars
  <2> QED
    BY <2>1, <2>2, <2>3 DEF Next, Exhausted, Single!WindowNext
<1> QED
  BY <1>1, <1>2, Invariance, PTL DEF Spec, ActsAsOneWindow, Single!WindowSpec
=============================================================================
