--------------------------- MODULE FreshnessProofs ---------------------------
(***************************************************************************)
(* The orders of module Freshness: Go's and SQL's are strict total orders, *)
(* the two SQL statements use the same one, and it is Go's when the        *)
(* database keeps what Go compares.                                        *)
(***************************************************************************)
EXTENDS Freshness, TLAPS

\* The fields of a tuple are integers, and so is its key's place in the collation.
LEMMA TupleFields ==
    ASSUME NEW f \in FreshnessTuple
    PROVE  /\ f.source_sequence \in Int
           /\ f.modification_time \in Int
           /\ f.revision_number \in Int
           /\ f.physical_event_key \in Int
           /\ Collation[f.physical_event_key] \in Int
<1>1. f.source_sequence \in Nat /\ f.modification_time \in Instants
      /\ f.revision_number \in Nat /\ f.physical_event_key \in EventKeys
  BY DEF FreshnessTuple
<1>2. f.modification_time \in Int /\ f.physical_event_key \in Nat
  BY <1>1, MicrosAssumption, CollationAssumption
<1>3. Collation[f.physical_event_key] \in Nat
  BY <1>1, CollationAssumption
<1> QED
  BY <1>1, <1>2, <1>3

\* Tuples that agree in every field are equal; the collation tells keys apart.
LEMMA TupleEqual ==
    ASSUME NEW f \in FreshnessTuple, NEW g \in FreshnessTuple,
           f.source_sequence = g.source_sequence,
           f.modification_time = g.modification_time,
           f.revision_number = g.revision_number,
           Collation[f.physical_event_key] = Collation[g.physical_event_key]
    PROVE  f = g
<1>1. f.physical_event_key = g.physical_event_key
  BY CollationAssumption DEF FreshnessTuple
<1> QED
  BY <1>1 DEF FreshnessTuple

\* Compare answers -1, 0 or 1, is antisymmetric, and calls two tuples equal only
\* if they are the same tuple.
LEMMA CompareTotal ==
    ASSUME NEW f \in FreshnessTuple, NEW g \in FreshnessTuple
    PROVE  /\ Compare(f, g) \in {-1, 0, 1}
           /\ Compare(f, g) < 0 <=> Compare(g, f) > 0
           /\ Compare(f, g) = 0 <=> f = g
<1>1. Compare(f, g) \in {-1, 0, 1} /\ (Compare(f, g) < 0 <=> Compare(g, f) > 0)
  BY TupleFields DEF Compare, Sign
<1>2. ASSUME Compare(f, g) = 0 PROVE f = g
  BY <1>2, TupleFields, TupleEqual DEF Compare, Sign
<1>3. Compare(f, f) = 0
  BY TupleFields DEF Compare, Sign
<1> QED
  BY <1>1, <1>2, <1>3

\* Compare is transitive.
LEMMA CompareTransitive ==
    ASSUME NEW f \in FreshnessTuple, NEW g \in FreshnessTuple,
           NEW h \in FreshnessTuple,
           Compare(f, g) < 0, Compare(g, h) < 0
    PROVE  Compare(f, h) < 0
BY TupleFields DEF Compare, Sign

\* The columns of a tuple are a tuple, and they keep the event key.
LEMMA TupleColumnsType ==
    ASSUME NEW f \in FreshnessTuple
    PROVE  /\ TupleColumns(f) \in FreshnessTuple
           /\ TupleColumns(f).physical_event_key = f.physical_event_key
BY MicrosAssumption DEF TupleColumns, FreshnessTuple

\* The OR chain of the upserts is a strict total order of the columns.
LEMMA StoredOlderTotal ==
    ASSUME NEW f \in FreshnessTuple, NEW g \in FreshnessTuple
    PROVE  /\ ~StoredOlder(f, f)
           /\ StoredOlder(f, g) => ~StoredOlder(g, f)
           /\ StoredOlder(f, g) \/ StoredOlder(g, f) \/ f = g
BY TupleFields, TupleEqual DEF StoredOlder, CollatesBefore

\* The OR chain is transitive.
LEMMA StoredOlderTransitive ==
    ASSUME NEW f \in FreshnessTuple, NEW g \in FreshnessTuple,
           NEW h \in FreshnessTuple,
           StoredOlder(f, g), StoredOlder(g, h)
    PROVE  StoredOlder(f, h)
BY TupleFields DEF StoredOlder, CollatesBefore

\* The row comparison of updateProjectionSQL and the OR chain of
\* compareAndSetProjectionSQL order every two tuples alike.
THEOREM SqlFormsAgree ==
    ASSUME NEW f \in FreshnessTuple, NEW g \in FreshnessTuple
    PROVE  RowLess(f, g) <=> StoredOlder(f, g)
BY TupleFields DEF RowLess, StoredOlder, CollatesBefore

\* With whole microseconds and a bytewise collation, the stored columns are
\* ordered as FreshnessTuple.Compare orders the tuples they were written from.
THEOREM SqlOrderIsGoOrder ==
    ASSUME DatabaseOrdersAsGo,
           NEW f \in FreshnessTuple, NEW g \in FreshnessTuple
    PROVE  StoredOlder(TupleColumns(f), TupleColumns(g)) <=> Compare(f, g) < 0
<1>1. TupleColumns(f) = f /\ TupleColumns(g) = g
  BY DEF TupleColumns, FreshnessTuple, DatabaseOrdersAsGo
<1>2. /\ f.physical_event_key \in EventKeys /\ g.physical_event_key \in EventKeys
      /\ \A j, k \in EventKeys : Collation[j] \in Int /\ j \in Int
  BY CollationAssumption DEF FreshnessTuple
<1>3. CollatesBefore(f.physical_event_key, g.physical_event_key)
        <=> f.physical_event_key < g.physical_event_key
  BY <1>2 DEF CollatesBefore, DatabaseOrdersAsGo
<1> QED
  BY <1>1, <1>3, TupleFields DEF StoredOlder, Compare, Sign

\* Rounding to microseconds never reverses Go's order of two tuples that differ
\* in their sequence, or whose rounded modification times differ.
THEOREM RoundingKeepsOrder ==
    ASSUME NEW f \in FreshnessTuple, NEW g \in FreshnessTuple,
           \/ f.source_sequence # g.source_sequence
           \/ Micros[f.modification_time] # Micros[g.modification_time]
    PROVE  StoredOlder(TupleColumns(f), TupleColumns(g)) <=> Compare(f, g) < 0
<1>1. f.modification_time \in Instants /\ g.modification_time \in Instants
  BY DEF FreshnessTuple
<1>2. /\ TupleColumns(f).source_sequence = f.source_sequence
      /\ TupleColumns(g).source_sequence = g.source_sequence
      /\ TupleColumns(f).modification_time = Micros[f.modification_time]
      /\ TupleColumns(g).modification_time = Micros[g.modification_time]
  BY DEF TupleColumns, FreshnessTuple
<1>3. /\ f.modification_time <= g.modification_time =>
            Micros[f.modification_time] <= Micros[g.modification_time]
      /\ g.modification_time <= f.modification_time =>
            Micros[g.modification_time] <= Micros[f.modification_time]
      /\ Micros[f.modification_time] \in Int /\ Micros[g.modification_time] \in Int
  BY <1>1, MicrosAssumption
<1> QED
  BY <1>2, <1>3, TupleFields DEF StoredOlder, Compare, Sign
=============================================================================
