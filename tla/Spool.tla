-------------------------------- MODULE Spool --------------------------------
(***************************************************************************)
(* The gateway's persistent outgoing queue (dashboard/gateway/spool.py,    *)
(* class SQLiteSpool, table mqtt_spool).                                   *)
(*                                                                         *)
(* Every method runs in one SQLite transaction under the spool's RLock, so *)
(* each is one action: enqueue inserts a row and trims the table before it *)
(* commits, acknowledge deletes one row.  Rows survive a crash; so does    *)
(* the AUTOINCREMENT sequence, which nextId stands for.  A payload is      *)
(* abstracted to the kind of message it carries: the topic and, with it,   *)
(* the priority the callers pass.                                          *)
(***************************************************************************)
EXTENDS Integers, FiniteSets

CONSTANTS
  MaxRows,      \* SQLiteSpool.max_rows, a positive integer (config.py:96)
  MaxEnqueues   \* bound of the model: how many rows are ever inserted

ASSUME MaxRowsAssumption == MaxRows \in Nat \ {0}
ASSUME MaxEnqueuesAssumption == MaxEnqueues \in Nat

VARIABLES
  rows,    \* the rows of table mqtt_spool
  nextId   \* the id AUTOINCREMENT gives the next row

spoolVars == <<rows, nextId>>

Kinds == {"telemetry", "result", "state", "availability"}

\* The priorities the callers of publish pass: telemetry takes the default,
\* command results 1, retained state 5, retained availability 10.
Priority ==
  [k \in Kinds |-> CASE k = "telemetry"    -> 0
                     [] k = "result"       -> 1
                     [] k = "state"        -> 5
                     [] k = "availability" -> 10]

Row == [id : Nat, kind : Kinds]

\* Mutant: the rows sorted as peek sorts them, the most urgent thrown away first.
EvictedBeforeAsDrained(s, r) ==
  \/ Priority[s.kind] > Priority[r.kind]
  \/ Priority[s.kind] = Priority[r.kind] /\ s.id < r.id

\* ORDER BY priority ASC, id ASC: the order in which rows are thrown away.
EvictedBefore(s, r) ==
  \/ Priority[s.kind] < Priority[r.kind]
  \/ Priority[s.kind] = Priority[r.kind] /\ s.id < r.id

\* ORDER BY priority DESC, id: the order in which peek hands rows out.
DrainedBefore(s, r) ==
  \/ Priority[s.kind] > Priority[r.kind]
  \/ Priority[s.kind] = Priority[r.kind] /\ s.id < r.id

EvictionRank(S, r) == Cardinality({s \in S : EvictedBefore(s, r)})

\* The rows _trim leaves: all but the first depth - max_rows to be evicted.
Trim(S) == {r \in S : EvictionRank(S, r) >= Cardinality(S) - MaxRows}

NewRow(k) == [id |-> nextId, kind |-> k]

NextRowId == nextId + 1

InitSpool == rows = {} /\ nextId = 1

Enqueue(k) ==
  /\ nextId <= MaxEnqueues
  /\ rows' = Trim(rows \cup {NewRow(k)})
  /\ nextId' = NextRowId

\* DELETE ... WHERE id = ?: deletes nothing when the row has been trimmed.
Acknowledge(i) ==
  /\ rows' = {r \in rows : r.id # i}
  /\ UNCHANGED nextId

\* Callers acknowledge ids that peek gave them, perhaps long ago.
NextSpool ==
  \/ \E k \in Kinds : Enqueue(k)
  \/ \E i \in 1 .. (nextId - 1) : Acknowledge(i)

SpecSpool == InitSpool /\ [][NextSpool]_spoolVars

-------------------------------------------------------------------------------
TypeOKSpool ==
  /\ rows \in SUBSET Row
  /\ nextId \in Nat

\* Ids come from one growing sequence, so they name rows without ambiguity and
\* an id handed out earlier can never name a later row (part of the invariant the
\* proofs need).
UniqueIds ==
  /\ \A r, s \in rows : r.id = s.id => r = s
  /\ \A r \in rows : r.id < nextId

\* The spool never outgrows max_rows, however long the broker is away
\* (spool.py enqueue and _trim, in one transaction).
SpoolBounded == Cardinality(rows) <= MaxRows

\* A row disappears only when the caller acknowledges it, or from a full spool
\* in which every row that stays ranks above it: _trim never drops a row while
\* there was room, and never one of a higher priority, or a newer one of the
\* same priority, than a row it keeps.
EvictionIsJustified ==
  [][\A r \in rows \ rows' :
        \/ nextId' = nextId /\ rows' = rows \ {r}
        \/ /\ Cardinality(rows') = MaxRows
           /\ \A s \in rows' :
                /\ Priority[s.kind] >= Priority[r.kind]
                /\ Priority[s.kind] = Priority[r.kind] => s.id > r.id]_spoolVars
===============================================================================
