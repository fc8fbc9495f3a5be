----------------------------- MODULE SpoolProofs -----------------------------
(***************************************************************************)
(* Proofs about the spool for every max_rows and every number of inserts:  *)
(* the table stays within max_rows, and what _trim discards it may.        *)
(*                                                                         *)
(* The argument: no two rows share an id, so the eviction order is a       *)
(* strict total order on them and two different rows have different ranks  *)
(* in it.  _trim keeps the rows whose rank lies in overflow..depth-1, of   *)
(* which there are max_rows.                                               *)
(***************************************************************************)
EXTENDS Spool, FiniteSetTheorems, TLAPS

\* Ids are unique within S.
Distinct(S) == \A r, s \in S : r.id = s.id => r = s

SpoolInv ==
  /\ TypeOKSpool
  /\ UniqueIds
  /\ IsFiniteSet(rows)
  /\ SpoolBounded

\* The eviction order on rows with distinct ids is irreflexive, transitive and
\* total.
LEMMA EvictionOrder ==
  ASSUME NEW S \in SUBSET Row, Distinct(S)
  PROVE  /\ \A r \in S : ~EvictedBefore(r, r)
         /\ \A r, s, t \in S :
              EvictedBefore(r, s) /\ EvictedBefore(s, t) => EvictedBefore(r, t)
         /\ \A r, s \in S : r = s \/ EvictedBefore(r, s) \/ EvictedBefore(s, r)
<1>1. \A k \in Kinds : Priority[k] \in Nat
  BY DEF Kinds, Priority
<1>2. \A r \in S : r.id \in Nat /\ Priority[r.kind] \in Nat
  BY <1>1 DEF Row
<1>3. \A r, s \in S : r.id = s.id => r = s
  BY DEF Distinct
<1> QED
  BY <1>2, <1>3 DEF EvictedBefore

\* The rank of a row is a number below the size of the set, and a row thrown
\* away before another has the smaller rank.
LEMMA RankBounds ==
  ASSUME NEW S \in SUBSET Row, IsFiniteSet(S), Distinct(S)
  PROVE  /\ \A r \in S : EvictionRank(S, r) \in 0 .. (Cardinality(S) - 1)
         /\ \A r, s \in S : EvictedBefore(r, s)
                              => EvictionRank(S, r) < EvictionRank(S, s)
<1> DEFINE Below(r) == {s \in S : EvictedBefore(s, r)}
<1>1. Cardinality(S) \in Nat
  BY FS_CardinalityType
<1>2. \A r \in S : r \notin Below(r)
  BY EvictionOrder
<1>3. ASSUME NEW r \in S
      PROVE  /\ IsFiniteSet(Below(r))
             /\ Cardinality(Below(r)) \in Nat
             /\ IsFiniteSet(Below(r) \cup {r})
             /\ Cardinality(Below(r) \cup {r}) = Cardinality(Below(r)) + 1
  <2>1. IsFiniteSet(Below(r))
    BY FS_Subset
  <2>2. Cardinality(Below(r)) \in Nat
    BY <2>1, FS_CardinalityType
  <2>3. r \notin Below(r)
    BY <1>2
  <2> HIDE DEF Below
  <2>4. /\ IsFiniteSet(Below(r) \cup {r})
        /\ Cardinality(Below(r) \cup {r}) = Cardinality(Below(r)) + 1
    BY <2>1, <2>3, FS_AddElement
  <2> QED
    BY <2>1, <2>2, <2>4
<1>4. ASSUME NEW r \in S
      PROVE  EvictionRank(S, r) \in 0 .. (Cardinality(S) - 1)
  <2>1. Below(r) \cup {r} \in SUBSET S
    OBVIOUS
  <2>2. Cardinality(Below(r) \cup {r}) <= Cardinality(S)
    BY <2>1, FS_Subset
  <2>3. Cardinality(Below(r)) + 1 <= Cardinality(S) /\ Cardinality(Below(r)) \in Nat
    BY <1>3, <2>2
  <2> QED
    BY <1>1, <2>3 DEF EvictionRank
<1>5. ASSUME NEW r \in S, NEW s \in S, EvictedBefore(r, s)
      PROVE  EvictionRank(S, r) < EvictionRank(S, s)
  <2>1. Below(r) \cup {r} \in SUBSET Below(s)
    BY <1>5, EvictionOrder
  <2>2. Cardinality(Below(r) \cup {r}) <= Cardinality(Below(s))
    BY <1>3, <2>1, FS_Subset
  <2>3. /\ Cardinality(Below(r)) + 1 <= Cardinality(Below(s))
        /\ Cardinality(Below(r)) \in Nat
        /\ Cardinality(Below(s)) \in Nat
    BY <1>3, <2>2
  <2> QED
    BY <2>3 DEF EvictionRank
<1> QED
  BY <1>4, <1>5

\* _trim leaves at most max_rows rows, whatever the size of the table.
THEOREM TrimBounds ==
  ASSUME NEW S \in SUBSET Row, IsFiniteSet(S), Distinct(S)
  PROVE  IsFiniteSet(Trim(S)) /\ Cardinality(Trim(S)) <= MaxRows
<1> DEFINE n == Cardinality(S)
           lo == n - MaxRows
           rank == [r \in Trim(S) |-> EvictionRank(S, r)]
<1>1. n \in Nat /\ MaxRows \in Nat
  BY FS_CardinalityType, MaxRowsAssumption
<1>2. Trim(S) \in SUBSET S
  BY DEF Trim
<1>3. IsFiniteSet(Trim(S)) /\ Cardinality(Trim(S)) <= n
  BY <1>2, FS_Subset
<1>4. CASE n <= MaxRows
  <2>1. Cardinality(Trim(S)) \in Nat
    BY <1>3, FS_CardinalityType
  <2> QED
    BY <1>1, <1>3, <1>4, <2>1
<1>5. CASE n > MaxRows
  <2>1. \A r \in Trim(S) : EvictionRank(S, r) \in lo .. (n - 1)
    BY <1>1, <1>2, RankBounds DEF Trim
  <2>2. ASSUME NEW r \in Trim(S), NEW s \in Trim(S), rank[r] = rank[s]
        PROVE  r = s
    <3>1. EvictionRank(S, r) = EvictionRank(S, s)
      BY <2>2
    <3>2. /\ r \in S /\ s \in S
          /\ EvictionRank(S, r) \in Int
      BY <1>1, <1>2, <2>1
    <3>3. ~EvictedBefore(r, s) /\ ~EvictedBefore(s, r)
      BY <3>1, <3>2, RankBounds
    <3> QED
      BY <3>2, <3>3, EvictionOrder
  <2>3. rank \in [Trim(S) -> lo .. (n - 1)]
    BY <2>1
  <2>4. rank \in Injection(Trim(S), lo .. (n - 1))
    BY <2>2, <2>3 DEF Injection, IsInjective
  <2>5. /\ IsFiniteSet(lo .. (n - 1))
        /\ Cardinality(lo .. (n - 1)) = IF lo > n - 1 THEN 0 ELSE (n - 1) - lo + 1
    <3>1. lo \in Int /\ n - 1 \in Int
      BY <1>1
    <3> QED
      BY <3>1, FS_Interval
  <2>6. Cardinality(lo .. (n - 1)) <= MaxRows
    BY <1>1, <1>5, <2>5
  <2>7. Cardinality(Trim(S)) <= Cardinality(lo .. (n - 1))
    BY <2>4, <2>5, FS_Injection
  <2>8. Cardinality(Trim(S)) \in Nat /\ Cardinality(lo .. (n - 1)) \in Nat
    BY <1>3, <2>5, FS_CardinalityType
  <2> QED
    BY <1>1, <1>3, <2>6, <2>7, <2>8
<1> QED
  BY <1>1, <1>4, <1>5

\* A table of max_rows + 1 rows with distinct ids loses exactly one row, and
\* that row ranks below every row it leaves.
LEMMA TrimOne ==
  ASSUME NEW S \in SUBSET Row, IsFiniteSet(S), Distinct(S),
         Cardinality(S) <= MaxRows + 1,
         NEW r \in S \ Trim(S)
  PROVE  /\ Cardinality(Trim(S)) = MaxRows
         /\ \A s \in Trim(S) : EvictedBefore(r, s)
<1>1. Cardinality(S) \in Nat /\ MaxRows \in Nat
  BY FS_CardinalityType, MaxRowsAssumption
<1>2. EvictionRank(S, r) \in Nat
  BY <1>1, RankBounds
<1>3. EvictionRank(S, r) < Cardinality(S) - MaxRows
  BY <1>1, <1>2 DEF Trim
<1>4. EvictionRank(S, r) = 0 /\ Cardinality(S) = MaxRows + 1
  BY <1>1, <1>2, <1>3
<1>5. ASSUME NEW s \in S, s # r
      PROVE  EvictedBefore(r, s) /\ s \in Trim(S)
  <2>1. EvictionRank(S, s) \in Nat
    BY <1>1, RankBounds
  <2>2. ~EvictedBefore(s, r)
    BY <1>4, <2>1, RankBounds
  <2>3. EvictedBefore(r, s)
    BY <1>5, <2>2, EvictionOrder
  <2>4. EvictionRank(S, s) > 0
    BY <1>4, <2>3, RankBounds
  <2> QED
    BY <1>4, <2>1, <2>3, <2>4, MaxRowsAssumption DEF Trim
<1>6. Trim(S) = S \ {r}
  BY <1>5 DEF Trim
<1>7. Cardinality(S \ {r}) = Cardinality(S) - 1
  BY FS_RemoveElement
<1> QED
  BY <1>1, <1>4, <1>5, <1>6, <1>7

\* What the table is while an insert runs, between INSERT and _trim.
LEMMA Inserted ==
  ASSUME SpoolInv, NEW k \in Kinds
  PROVE  /\ rows \cup {NewRow(k)} \in SUBSET Row
         /\ IsFiniteSet(rows \cup {NewRow(k)})
         /\ Distinct(rows \cup {NewRow(k)})
         /\ Cardinality(rows \cup {NewRow(k)}) <= MaxRows + 1
<1>1. /\ rows \in SUBSET Row /\ nextId \in Nat /\ IsFiniteSet(rows)
      /\ Cardinality(rows) <= MaxRows
      /\ \A r \in rows : r.id < nextId
      /\ \A r, s \in rows : r.id = s.id => r = s
  BY DEF SpoolInv, TypeOKSpool, UniqueIds, SpoolBounded
<1>2. NewRow(k) \in Row /\ NewRow(k).id = nextId
  BY <1>1 DEF NewRow, Row
<1>3. \A r \in rows : r.id # nextId
  BY <1>1 DEF Row
<1>4. Distinct(rows \cup {NewRow(k)})
  BY <1>1, <1>2, <1>3 DEF Distinct
<1>5. /\ IsFiniteSet(rows \cup {NewRow(k)})
      /\ Cardinality(rows \cup {NewRow(k)}) =
           IF NewRow(k) \in rows THEN Cardinality(rows) ELSE Cardinality(rows) + 1
  BY <1>1, FS_AddElement
<1>6. Cardinality(rows) \in Nat /\ MaxRows \in Nat
  BY <1>1, FS_CardinalityType, MaxRowsAssumption
<1> QED
  BY <1>1, <1>2, <1>4, <1>5, <1>6

LEMMA SpoolInvInit == InitSpool => SpoolInv
<1> SUFFICES ASSUME InitSpool PROVE SpoolInv
  OBVIOUS
<1> QED
  BY FS_EmptySet, MaxRowsAssumption
     DEF InitSpool, SpoolInv, TypeOKSpool, UniqueIds, SpoolBounded, Row

LEMMA SpoolInvNext == SpoolInv /\ [NextSpool]_spoolVars => SpoolInv'
<1> SUFFICES ASSUME SpoolInv, [NextSpool]_spoolVars PROVE SpoolInv'
  OBVIOUS
<1> USE DEF SpoolInv, TypeOKSpool, UniqueIds, SpoolBounded
<1>1. ASSUME NEW k \in Kinds, Enqueue(k) PROVE SpoolInv'
  <2> DEFINE S == rows \cup {NewRow(k)}
  <2>1. S \in SUBSET Row /\ IsFiniteSet(S) /\ Distinct(S)
    BY Inserted
  <2>2. rows' = Trim(S) /\ nextId' = nextId + 1
    BY <1>1 DEF Enqueue, NextRowId
  <2>3. IsFiniteSet(Trim(S)) /\ Cardinality(Trim(S)) <= MaxRows
    BY <2>1, TrimBounds
  <2>4. Trim(S) \in SUBSET S
    BY DEF Trim
  <2>5. \A r \in S : r.id < nextId + 1
    BY <2>1 DEF NewRow, Row
  <2>6. UniqueIds'
    BY <2>1, <2>2, <2>4, <2>5 DEF Distinct
  <2>7. TypeOKSpool'
    BY <2>1, <2>2, <2>4
  <2>8. IsFiniteSet(rows)' /\ SpoolBounded'
    BY <2>2, <2>3
  <2> QED
    BY <2>6, <2>7, <2>8
<1>2. ASSUME NEW i, Acknowledge(i) PROVE SpoolInv'
  <2>1. rows' \in SUBSET rows /\ nextId' = nextId
    BY <1>2 DEF Acknowledge
  <2>2. IsFiniteSet(rows') /\ Cardinality(rows') <= Cardinality(rows)
    BY <2>1, FS_Subset
  <2>3. Cardinality(rows) \in Nat /\ Cardinality(rows') \in Nat /\ MaxRows \in Nat
    BY <2>2, FS_CardinalityType, MaxRowsAssumption
  <2> QED
    BY <2>1, <2>2, <2>3
<1>3. CASE UNCHANGED spoolVars
  BY <1>3 DEF spoolVars
<1> QED
  BY <1>1, <1>2, <1>3 DEF NextSpool

\* The invariant of the spool, for every max_rows: well-typed rows, ids that
\* name rows without ambiguity, a finite table within its limit.
THEOREM SpoolInvariant == SpecSpool => []SpoolInv
<1> QED
  BY SpoolInvInit, SpoolInvNext, PTL DEF SpecSpool

\* The spool never outgrows max_rows.
THEOREM SpoolStaysBounded == SpecSpool => []SpoolBounded
<1>1. SpoolInv => SpoolBounded
  BY DEF SpoolInv
<1> QED
  BY <1>1, SpoolInvariant, PTL

\* _trim discards a row only from a full table, and never one that outranks a
\* row it keeps.
THEOREM SpoolEvictionIsJustified == SpecSpool => EvictionIsJustified
<1> DEFINE Justified(r) ==
             \/ nextId' = nextId /\ rows' = rows \ {r}
             \/ /\ Cardinality(rows') = MaxRows
                /\ \A s \in rows' :
                     /\ Priority[s.kind] >= Priority[r.kind]
                     /\ Priority[s.kind] = Priority[r.kind] => s.id > r.id
<1>1. ASSUME SpoolInv, [NextSpool]_spoolVars, NEW r \in rows \ rows'
      PROVE  Justified(r)
  <2>1. ASSUME NEW k \in Kinds, Enqueue(k) PROVE Justified(r)
    <3> DEFINE S == rows \cup {NewRow(k)}
    <3>1. /\ S \in SUBSET Row /\ IsFiniteSet(S) /\ Distinct(S)
          /\ Cardinality(S) <= MaxRows + 1
      BY <1>1, Inserted
    <3>2. rows' = Trim(S) /\ r \in S \ Trim(S)
      BY <1>1, <2>1 DEF Enqueue
    <3>3. /\ Cardinality(rows') = MaxRows
          /\ \A s \in rows' : EvictedBefore(r, s)
      BY <3>1, <3>2, TrimOne
    <3>4. \A s \in S : s.id \in Nat /\ Priority[s.kind] \in Nat
      BY <3>1 DEF Row, Kinds, Priority
    <3>5. rows' \in SUBSET S
      BY <3>2 DEF Trim
    <3>6. r \in S
      BY <3>2
    <3>7. ASSUME NEW s \in rows'
          PROVE  /\ Priority[s.kind] >= Priority[r.kind]
                 /\ Priority[s.kind] = Priority[r.kind] => s.id > r.id
      <4>1. EvictedBefore(r, s)
        BY <3>3
      <4>2. /\ s.id \in Nat /\ Priority[s.kind] \in Nat
            /\ r.id \in Nat /\ Priority[r.kind] \in Nat
        BY <3>4, <3>5, <3>6
      <4> QED
        BY <4>1, <4>2 DEF EvictedBefore
    <3> QED
      BY <3>3, <3>7
  <2>2. ASSUME NEW i, Acknowledge(i) PROVE Justified(r)
    BY <1>1, <2>2 DEF Acknowledge, SpoolInv, UniqueIds
  <2>3. CASE UNCHANGED spoolVars
    BY <1>1, <2>3 DEF spoolVars
  <2> QED
    BY <1>1, <2>1, <2>2, <2>3 DEF NextSpool
<1>2. SpoolInv /\ [NextSpool]_spoolVars
        => [\A r \in rows \ rows' : Justified(r)]_spoolVars
  BY <1>1
<1> QED
  BY <1>2, SpoolInvariant, PTL DEF SpecSpool, EvictionIsJustified
===============================================================================
