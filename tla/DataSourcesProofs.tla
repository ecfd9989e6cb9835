-------------------------- MODULE DataSourcesProofs --------------------------
(***************************************************************************)
(* Proofs about the four data sources, for any rows and files, any filters *)
(* and any bounds of time.  Each source has an inductive invariant of its  *)
(* own; only the clock is shared, by the CSV and the SQLite source.        *)
(***************************************************************************)
EXTENDS DataSources, FiniteSetTheorems, TLAPS

-----------------------------------------------------------------------------
(* The CSV source                                                          *)

\* What the state of the CSV source is made of; num_results plays no part.
CsvTypes ==
  /\ csv \in {"idle", "reading"}
  /\ csv_rows \in Seq(C!Row)
  /\ csv_pushes \in Seq(0..2)
  /\ Len(csv_pushes) = Len(csv_rows)
  /\ pos \in 0..Len(csv_rows)
  /\ current_field \in 0..6
  /\ now \in Nat \ {0}
  /\ max_ts_infile \in Nat /\ last_processed_ts \in Nat
  /\ max_accepted_ts \in Nat /\ csv_seen \in Nat

\* Rows stamped with the current second were accepted by no query yet, so that
\* a row appended now is ahead of them all.
CsvClock ==
  /\ csv_seen < now
  /\ max_accepted_ts < now
  /\ last_processed_ts < now
  /\ csv = "reading" => max_ts_infile <= max_accepted_ts

\* Fields left behind by an error are counted to the first row of the next query.
CsvFieldsLeft ==
  current_field # 0 => "query" \in csv_failed /\ (csv = "reading" => pos = 0)

\* The row was pushed, or is the one that a failed query may cost, or one that a
\* read error hid.
Pushed(i) == csv_pushes[i] > 0 \/ (i = 1 /\ "query" \in csv_failed) \/ i \in csv_lost

\* What last_processed_ts rules out was pushed.
CsvRuledOut ==
  \A i \in 1..Len(csv_rows) :
    C!Wanted(csv_rows[i]) /\ csv_rows[i].timestamp <= last_processed_ts => Pushed(i)

\* The query has pushed what it read and had to push, or an earlier one did.
CsvReadSoFar ==
  csv = "reading" =>
    \A i \in 1..pos :
      C!Wanted(csv_rows[i]) /\ csv_rows[i].timestamp <= max_accepted_ts => Pushed(i)

\* The inductive invariant: NothingMissed speaks of the queries that succeeded,
\* and needs ReadSoFar for the one that is running and RuledOut for those to come.
CsvInv ==
  /\ CsvTypes
  /\ CsvClock
  /\ CsvFieldsLeft
  /\ CsvRuledOut
  /\ CsvReadSoFar
  /\ CsvNothingMissed

\* A row that is asked for passes filter_ok, whose margin only adds rows as long
\* as the subtraction does not wrap around.
LEMMA WantedPasses ==
  ASSUME IntervalsDoNotWrap, NEW row \in C!Row, C!Wanted(row)
  PROVE  C!FilterOk(row) /\ row.fields = 7
<1>1. row.match /\ row.fields = 7
  BY DEF C!Wanted, C!FIELDCNT
<1>2. row.filetime \in Nat
  BY SourcesAssumption DEF C!Row, S!SqliteAssumption
<1> DEFINE ivs == {time_intervals[i] : i \in DOMAIN time_intervals}
<1>3. CASE ivs = {}
  BY <1>1, <1>3 DEF C!FilterOk
<1>4. CASE ivs # {}
  <2>1. PICK i \in DOMAIN time_intervals :
          /\ row.filetime >= time_intervals[i].begin_time
          /\ time_intervals[i].end_time = FOREVER \/ row.filetime <= time_intervals[i].end_time
    BY <1>4 DEF C!Wanted
  <2> DEFINE begin == time_intervals[i].begin_time
  <2>2. begin \in Margin..(Word - 1) /\ Margin \in Nat /\ Word \in Nat \ {0}
    <3>1. time_intervals[i] \in [begin_time : 0..(Word - 1), end_time : 0..(Word - 1)]
      <4> DEFINE Intervals == [begin_time : 0..(Word - 1), end_time : 0..(Word - 1)]
      <4>1. time_intervals \in Seq(Intervals)
        BY SourcesAssumption
      <4> HIDE DEF Intervals
      <4>2. time_intervals[i] \in Intervals
        BY <4>1
      <4> QED BY <4>2 DEF Intervals
    <3>2. begin \in 0..(Word - 1) /\ begin >= Margin
      BY <3>1 DEF IntervalsDoNotWrap
    <3>3. Margin \in Nat /\ Word \in Nat \ {0}
      BY SourcesAssumption DEF S!SqliteAssumption
    <3> HIDE DEF begin
    <3> QED BY <3>2, <3>3
  <2>3. (begin - Margin) % Word = begin - Margin
    <3> HIDE DEF begin
    <3> QED BY <2>2
  <2>4. row.filetime >= (begin - Margin) % Word
    <3>1. row.filetime >= begin
      BY <2>1
    <3> HIDE DEF begin
    <3> QED BY <1>2, <2>2, <2>3, <3>1
  <2> QED BY <1>1, <2>1, <2>4 DEF C!FilterOk
<1> QED BY <1>3, <1>4

\* The source starts with an empty file and no query.
LEMMA CsvInit ==
  ASSUME Init
  PROVE  CsvInv
<1>1. CsvTypes
  <2>1. csv_rows = <<>> /\ csv_pushes = <<>> /\ pos = 0
    BY DEF Init, C!Init
  <2>2. csv_rows \in Seq(C!Row) /\ csv_pushes \in Seq(0..2) /\ Len(csv_pushes) = 0
        /\ Len(csv_rows) = 0
    BY <2>1
  <2>3. /\ now = 1 /\ csv = "idle" /\ current_field = 0
        /\ max_ts_infile = 0 /\ last_processed_ts = 0
        /\ max_accepted_ts = 0 /\ csv_seen = 0
    BY DEF Init, C!Init
  <2> QED BY <2>1, <2>2, <2>3 DEF CsvTypes
<1>2. CsvClock /\ CsvFieldsLeft /\ CsvRuledOut /\ CsvReadSoFar
  BY DEF Init, C!Init, CsvClock, CsvFieldsLeft, CsvRuledOut, CsvReadSoFar
<1>3. CsvNothingMissed
  BY DEF Init, C!Init, CsvNothingMissed, C!NothingMissed
<1> QED BY <1>1, <1>2, <1>3 DEF CsvInv

\* The clock may run while the source rests, whoever moves it.
LEMMA CsvStutters ==
  ASSUME CsvInv, UNCHANGED csv_vars, now' \in Nat, now' >= now
  PROVE  CsvInv'
<1>1. CsvTypes' /\ CsvClock' /\ CsvFieldsLeft'
  BY DEF CsvInv, csv_vars, CsvTypes, CsvClock, CsvFieldsLeft
<1>2. CsvRuledOut' /\ CsvReadSoFar'
  BY DEF CsvInv, csv_vars, CsvRuledOut, CsvReadSoFar, Pushed, C!Wanted
<1>3. CsvNothingMissed'
  BY DEF CsvInv, csv_vars, CsvNothingMissed, C!NothingMissed, C!Due, C!Wanted
<1> QED BY <1>1, <1>2, <1>3 DEF CsvInv

\* Taking a row, whole or cut short, only adds pushes, accepts no row of the
\* current second, and pushes the row if it has to.
LEMMA CsvTakesRow ==
  ASSUME CsvTypes, CsvClock, csv = "reading", pos < Len(csv_rows),
         NEW row, row.timestamp \in Nat, C!TakeRow(row)
  PROVE  /\ csv_pushes' \in Seq(0..2) /\ Len(csv_pushes') = Len(csv_pushes)
         /\ \A i \in 1..Len(csv_rows) : csv_pushes[i] > 0 => csv_pushes'[i] > 0
         /\ C!Accepted(row) /\ C!FilterOk(row) => csv_pushes'[pos + 1] > 0
         /\ max_ts_infile' \in Nat /\ max_ts_infile' <= max_accepted_ts
         /\ current_field' = 0
<1> DEFINE push == C!Accepted(row) /\ C!FilterOk(row)
<1>0. PICK p \in 1..Len(csv_rows) : p = pos + 1
  BY DEF CsvTypes
<1>1. /\ max_ts_infile' = IF C!Accepted(row) /\ row.timestamp > max_ts_infile
                          THEN row.timestamp ELSE max_ts_infile
      /\ csv_pushes' = IF push
                       THEN [csv_pushes EXCEPT ![p] = IF @ = 0 THEN 1 ELSE 2]
                       ELSE csv_pushes
      /\ current_field' = 0
  BY <1>0 DEF C!TakeRow
<1>2. C!Accepted(row) => row.timestamp <= max_accepted_ts
  BY DEF C!Accepted
<1>3. max_ts_infile' \in Nat /\ max_ts_infile' <= max_accepted_ts
  BY <1>1, <1>2 DEF CsvTypes, CsvClock
<1>4. CASE ~ push
  BY <1>0, <1>1, <1>3, <1>4 DEF CsvTypes
<1>5. CASE push
  <2> HIDE DEF push
  <2>1. /\ csv_pushes' \in Seq(0..2) /\ Len(csv_pushes') = Len(csv_pushes)
        /\ \A i \in 1..Len(csv_rows) : csv_pushes[i] > 0 => csv_pushes'[i] > 0
        /\ csv_pushes'[p] > 0
    BY <1>1, <1>5 DEF CsvTypes
  <2> QED BY <1>0, <1>1, <1>3, <2>1
<1> QED BY <1>4, <1>5

\* Every step of the source and of the writer keeps the invariant.
LEMMA CsvStep ==
  ASSUME IntervalsDoNotWrap, CsvInv, C!Next
  PROVE  CsvInv'
<1> USE DEF CsvInv
<1>1. ASSUME C!BeginQuery PROVE CsvInv'
  <2>1. CsvTypes'
    BY <1>1 DEF C!BeginQuery, CsvTypes, CsvClock
  <2>2. CsvClock' /\ CsvFieldsLeft'
    BY <1>1 DEF C!BeginQuery, CsvTypes, CsvClock, CsvFieldsLeft
  <2>3. CsvRuledOut' /\ CsvReadSoFar'
    BY <1>1 DEF C!BeginQuery, CsvRuledOut, CsvReadSoFar, Pushed, C!Wanted
  <2>4. CsvNothingMissed'
    BY <1>1 DEF C!BeginQuery, CsvNothingMissed, C!NothingMissed, C!Due, C!Wanted
  <2> QED BY <2>1, <2>2, <2>3, <2>4
<1>2. ASSUME C!ReadRow PROVE CsvInv'
  <2>0. PICK p \in 1..Len(csv_rows) : p = pos + 1
    BY <1>2 DEF C!ReadRow, CsvTypes
  <2> DEFINE row == csv_rows[p]
             push == C!Accepted(row) /\ C!FilterOk(row)
  <2>1. /\ csv = "reading" /\ pos < Len(csv_rows)
        /\ C!TakeRow(row) /\ pos' = pos + 1
        /\ UNCHANGED <<csv_rows, now, last_processed_ts, max_accepted_ts, csv, csv_seen,
                       csv_lost, csv_failed>>
    BY <1>2, <2>0 DEF C!ReadRow
  <2>2. row \in C!Row /\ row.timestamp \in Nat
    <3>1. row \in C!Row
      BY DEF CsvTypes
    <3> QED BY <3>1, SourcesAssumption DEF C!Row
  <2>4. /\ csv_pushes' \in Seq(0..2) /\ Len(csv_pushes') = Len(csv_pushes)
        /\ \A i \in 1..Len(csv_rows) : csv_pushes[i] > 0 => csv_pushes'[i] > 0
        /\ push => csv_pushes'[p] > 0
        /\ max_ts_infile' \in Nat /\ max_ts_infile' <= max_accepted_ts
        /\ current_field' = 0
    BY <2>0, <2>1, <2>2, CsvTakesRow
  <2> HIDE DEF push
  <2>5. CsvTypes'
    BY <2>0, <2>1, <2>4 DEF CsvTypes
  <2>6. CsvClock' /\ CsvFieldsLeft'
    BY <2>1, <2>4 DEF CsvTypes, CsvClock, CsvFieldsLeft
  <2>7. CsvNothingMissed' /\ CsvRuledOut'
    BY <2>1, <2>4 DEF CsvNothingMissed, C!NothingMissed, C!Due, C!Wanted, CsvRuledOut, Pushed
  <2>8. C!Wanted(row) /\ row.timestamp <= max_accepted_ts => Pushed(p)'
    <3> SUFFICES ASSUME C!Wanted(row), row.timestamp <= max_accepted_ts
                 PROVE  Pushed(p)'
      OBVIOUS
    <3>1. C!FilterOk(row) /\ row.fields = 7
      BY <2>2, WantedPasses
    <3>2. CASE row.timestamp <= last_processed_ts
      BY <2>1, <2>4, <3>2 DEF CsvRuledOut, Pushed
    <3>3. CASE row.timestamp > last_processed_ts /\ current_field = 0
      <4>1. push
        BY <3>1, <3>3 DEF push, C!Accepted, C!Compliant, C!FIELDCNT
      <4> QED BY <2>4, <4>1 DEF Pushed
    <3>4. CASE current_field # 0
      BY <2>0, <2>1, <3>4 DEF CsvFieldsLeft, Pushed, CsvTypes
    <3> QED BY <2>2, <3>2, <3>3, <3>4 DEF CsvTypes
  <2>9. CsvReadSoFar'
    <3> SUFFICES ASSUME NEW i \in 1..p, C!Wanted(csv_rows[i]),
                        csv_rows[i].timestamp <= max_accepted_ts
                 PROVE  Pushed(i)'
      BY <2>0, <2>1 DEF CsvReadSoFar, C!Wanted
    <3>1. CASE i = p
      BY <2>8, <3>1
    <3>2. CASE i # p
      <4>1. i \in 1..pos /\ i \in 1..Len(csv_rows)
        BY <2>0, <2>1, <3>2 DEF CsvTypes
      <4>2. Pushed(i)
        BY <2>1, <4>1 DEF CsvReadSoFar
      <4> QED BY <2>1, <2>4, <4>1, <4>2 DEF Pushed
    <3> QED BY <3>1, <3>2
  <2> QED BY <2>5, <2>6, <2>7, <2>9
<1>3. ASSUME C!EndQuery PROVE CsvInv'
  <2>1. CsvTypes'
    BY <1>3 DEF C!EndQuery, CsvTypes
  <2>2. CsvClock' /\ CsvFieldsLeft' /\ CsvReadSoFar'
    BY <1>3 DEF C!EndQuery, CsvTypes, CsvClock, CsvFieldsLeft, CsvReadSoFar
  <2>3. ASSUME NEW i \in 1..Len(csv_rows), C!Wanted(csv_rows[i]),
               csv_rows[i].timestamp <= max_accepted_ts
        PROVE  Pushed(i)'
    BY <1>3, <2>3 DEF C!EndQuery, CsvReadSoFar, CsvTypes, Pushed
  <2>4. CsvNothingMissed'
    BY <1>3, <2>3 DEF C!EndQuery, CsvNothingMissed, C!NothingMissed, C!Due, C!Wanted, Pushed
  <2>5. CsvRuledOut'
    <3> SUFFICES ASSUME NEW i \in 1..Len(csv_rows), C!Wanted(csv_rows[i]),
                        csv_rows[i].timestamp <= max_ts_infile
                 PROVE  Pushed(i)'
      BY <1>3 DEF C!EndQuery, CsvRuledOut, C!Wanted
    <3>1. csv_rows[i] \in C!Row
      BY DEF CsvTypes
    <3>2. csv_rows[i].timestamp \in Nat
      BY <3>1, SourcesAssumption DEF C!Row
    <3> QED BY <1>3, <2>3, <3>2 DEF C!EndQuery, CsvClock, CsvTypes
  <2> QED BY <2>1, <2>2, <2>4, <2>5
<1>4. ASSUME C!ReadError PROVE CsvInv'
  <2>1. /\ csv = "reading" /\ pos < Len(csv_rows)
        /\ last_processed_ts' = max_ts_infile'
        /\ csv_lost' = csv_lost \union
             {i \in (pos + 1)..Len(csv_rows) : csv_rows[i].timestamp <= max_ts_infile'}
        /\ csv_failed' = csv_failed \union {"read"}
        /\ csv' = "idle" /\ pos' = 0
        /\ UNCHANGED <<csv_rows, now, max_accepted_ts, csv_seen>>
    BY <1>4 DEF C!ReadError
  <2>2. /\ csv_pushes' \in Seq(0..2) /\ Len(csv_pushes') = Len(csv_pushes)
        /\ \A i \in 1..Len(csv_rows) : csv_pushes[i] > 0 => csv_pushes'[i] > 0
        /\ max_ts_infile' \in Nat /\ max_ts_infile' <= max_accepted_ts
        /\ current_field' = 0 \/ UNCHANGED current_field
    <3>1. CASE UNCHANGED <<current_field, max_ts_infile, csv_results, csv_pushes>>
      BY <2>1, <3>1 DEF CsvTypes, CsvClock
    <3>2. CASE \E row \in C!CutRow(csv_rows[pos + 1]) : C!TakeRow(row)
      <4>0. PICK row \in C!CutRow(csv_rows[pos + 1]) : C!TakeRow(row)
        BY <3>2
      <4>1. csv_rows[pos + 1] \in C!Row
        BY <2>1 DEF CsvTypes
      <4>2. csv_rows[pos + 1].timestamp \in Nat
        BY <4>1, SourcesAssumption DEF C!Row
      <4>3. row.timestamp \in Nat
        BY <4>0, <4>1, <4>2 DEF C!CutRow, C!Row
      <4> QED BY <2>1, <4>0, <4>3, CsvTakesRow
    <3> QED BY <1>4, <3>1, <3>2 DEF C!ReadError
  <2>3. CsvTypes'
    BY <2>1, <2>2 DEF CsvTypes
  <2>4. CsvClock' /\ CsvFieldsLeft' /\ CsvReadSoFar'
    BY <2>1, <2>2 DEF CsvTypes, CsvClock, CsvFieldsLeft, CsvReadSoFar
  <2>5. CsvNothingMissed'
    BY <2>1, <2>2 DEF CsvNothingMissed, C!NothingMissed, C!Due, C!Wanted
  <2>6. CsvRuledOut'
    <3> SUFFICES ASSUME NEW i \in 1..Len(csv_rows), C!Wanted(csv_rows[i]),
                        csv_rows[i].timestamp <= max_ts_infile'
                 PROVE  Pushed(i)'
      BY <2>1 DEF CsvRuledOut, C!Wanted
    <3>1. CASE i > pos
      BY <2>1, <3>1 DEF Pushed, CsvTypes
    <3>2. CASE i <= pos
      <4>1. csv_rows[i] \in C!Row
        BY DEF CsvTypes
      <4>2. csv_rows[i].timestamp \in Nat
        BY <4>1, SourcesAssumption DEF C!Row
      <4>3. Pushed(i)
        BY <2>1, <2>2, <3>2, <4>2 DEF CsvReadSoFar, CsvTypes
      <4> QED BY <2>1, <2>2, <4>3 DEF Pushed
    <3> QED BY <3>1, <3>2 DEF CsvTypes
  <2> QED BY <2>3, <2>4, <2>5, <2>6
<1>5. ASSUME C!QueryFails PROVE CsvInv'
  <2>1. CsvTypes'
    BY <1>5 DEF C!QueryFails, CsvTypes, C!FIELDCNT
  <2>2. CsvClock' /\ CsvFieldsLeft' /\ CsvRuledOut' /\ CsvReadSoFar'
    BY <1>5 DEF C!QueryFails, CsvTypes, CsvClock, CsvFieldsLeft, CsvRuledOut, CsvReadSoFar,
                Pushed, C!Wanted
  <2>3. CsvNothingMissed'
    BY <1>5 DEF C!QueryFails, CsvNothingMissed, C!NothingMissed, C!Due, C!Wanted
  <2> QED BY <2>1, <2>2, <2>3
<1>6. ASSUME C!Tick PROVE CsvInv'
  BY <1>6, CsvStutters DEF C!Tick, C!source, csv_vars, CsvTypes
<1>7. ASSUME C!WriteRow PROVE CsvInv'
  <2>1. PICK row \in C!Row : row.timestamp = now /\ csv_rows' = Append(csv_rows, row)
    BY <1>7 DEF C!WriteRow
  <2>2. /\ csv_pushes' = Append(csv_pushes, 0)
        /\ UNCHANGED <<now, current_field, max_ts_infile, last_processed_ts,
                       max_accepted_ts, csv_results, csv, pos, csv_seen, csv_lost,
                       csv_failed>>
    BY <1>7 DEF C!WriteRow, C!source
  <2>3. /\ csv_rows' \in Seq(C!Row) /\ Len(csv_rows') = Len(csv_rows) + 1
        /\ csv_pushes' \in Seq(0..2) /\ Len(csv_pushes') = Len(csv_rows) + 1
        /\ \A i \in 1..Len(csv_rows) :
             csv_rows'[i] = csv_rows[i] /\ csv_pushes'[i] = csv_pushes[i]
        /\ csv_rows'[Len(csv_rows) + 1] = row
    BY <2>1, <2>2 DEF CsvTypes
  <2>4. CsvTypes'
    BY <2>2, <2>3 DEF CsvTypes
  <2>5. CsvClock' /\ CsvFieldsLeft'
    BY <2>2 DEF CsvClock, CsvFieldsLeft
  <2>6. CsvReadSoFar'
    <3>1. \A i \in 1..pos : i \in 1..Len(csv_rows)
      BY DEF CsvTypes
    <3> QED BY <2>2, <2>3, <3>1 DEF CsvReadSoFar, Pushed, C!Wanted
  <2>7. CsvNothingMissed'
    <3> SUFFICES ASSUME NEW i \in 1..(Len(csv_rows) + 1), C!Due(i)'
                 PROVE  Pushed(i)'
      BY <2>3 DEF CsvNothingMissed, C!NothingMissed, Pushed
    <3>1. i # Len(csv_rows) + 1
      BY <2>1, <2>2, <2>3 DEF C!Due, CsvTypes, CsvClock
    <3>2. i \in 1..Len(csv_rows)
      BY <3>1 DEF CsvTypes
    <3>3. C!Due(i)
      BY <2>2, <2>3, <3>2 DEF C!Due, C!Wanted
    <3> QED BY <2>2, <2>3, <3>2, <3>3 DEF CsvNothingMissed, C!NothingMissed, Pushed
  <2>8. CsvRuledOut'
    <3> SUFFICES ASSUME NEW i \in 1..(Len(csv_rows) + 1), C!Wanted(csv_rows'[i]),
                        csv_rows'[i].timestamp <= last_processed_ts
                 PROVE  Pushed(i)'
      BY <2>2, <2>3 DEF CsvRuledOut, C!Wanted
    <3>1. i # Len(csv_rows) + 1
      BY <2>1, <2>3 DEF CsvTypes, CsvClock
    <3>2. i \in 1..Len(csv_rows)
      BY <3>1 DEF CsvTypes
    <3> QED BY <2>2, <2>3, <3>2 DEF CsvRuledOut, C!Wanted, Pushed
  <2> QED BY <2>4, <2>5, <2>6, <2>7, <2>8
<1> QED BY <1>1, <1>2, <1>3, <1>4, <1>5, <1>6, <1>7 DEF C!Next

-----------------------------------------------------------------------------
(* The SQLite source                                                       *)

\* What the state of the SQLite source is made of, and the last window ended
\* before the current second.
SqliteTypes ==
  /\ sqlite \in {"idle", "step"}
  /\ db_rows \in Seq(S!Row)
  /\ db_pushes \in Seq(0..2)
  /\ Len(db_pushes) = Len(db_rows)
  /\ todo \in Seq(1..Len(db_rows))
  /\ now \in Nat \ {0}
  /\ current_ts \in Nat
  /\ current_ts < now
  /\ db_failed \in BOOLEAN

\* The row is in a window that was bound.
InWindow(i) == S!Selected(db_rows[i]) /\ db_rows[i].ts <= current_ts

\* The statement still has to give the row.
IsDueRow(i) == \E k \in 1..Len(todo) : todo[k] = i

\* The statement gives rows of the bound windows, each once.
SqliteTodo ==
  /\ ~ stale
  /\ sqlite = "idle" => todo = <<>>
  /\ \A k, m \in 1..Len(todo) : todo[k] = todo[m] => k = m
  /\ \A i \in 1..Len(db_rows) : IsDueRow(i) => InWindow(i)

\* The rows of the windows were pushed once, but for those still to be given;
\* no other row was.
SqlitePushes ==
  \A i \in 1..Len(db_rows) :
    db_pushes[i] = IF InWindow(i) /\ ~ IsDueRow(i) THEN 1 ELSE 0

\* The inductive invariant: WindowsTile is about the moments between queries,
\* and SqlitePushes accounts for every row within one.
SqliteInv ==
  /\ SqliteTypes
  /\ ~ db_failed => SqliteTodo /\ SqlitePushes

\* What the statement gives are the rows of the window, each of them once.
LEMMA ResultProperties ==
  ASSUME NEW n \in Nat, NEW W \in SUBSET (1..n), NEW q \in S!SetToSeqs(W)
  PROVE  /\ q \in Seq(1..n)
         /\ \A k, m \in 1..Len(q) : q[k] = q[m] => k = m
         /\ \A k \in 1..Len(q) : q[k] \in W
         /\ \A i \in W : \E k \in 1..Len(q) : q[k] = i
<1> DEFINE c == Cardinality(W)
<1>1. IsFiniteSet(W)
  <2>1. 1 \in Int /\ n \in Int
    OBVIOUS
  <2>2. IsFiniteSet(1..n)
    BY <2>1, FS_Interval, Zenon
  <2> QED BY <2>2, FS_Subset
<1>2. c \in Nat
  BY <1>1, FS_CardinalityType
<1>3. S!Cardinality(W) = c
  BY DEF S!Cardinality, S!IsFiniteSet, Cardinality, IsFiniteSet
<1>4. q \in [1..c -> W] /\ \A i, j \in 1..c : i # j => q[i] # q[j]
  BY <1>3 DEF S!SetToSeqs
<1>5. Cardinality(1..c) = c /\ IsFiniteSet(1..c)
  <2> HIDE DEF c
  <2>1. 1 \in Int /\ c \in Int
    BY <1>2
  <2>2. IsFiniteSet(1..c) /\ Cardinality(1..c) = IF 1 > c THEN 0 ELSE c - 1 + 1
    BY <2>1, FS_Interval, Zenon
  <2> QED BY <1>2, <2>2
<1>6. q \in Injection(1..c, W)
  <2> HIDE DEF c
  <2> QED BY <1>4 DEF Injection, IsInjective
<1>7. q \in Surjection(1..c, W)
  BY <1>1, <1>5, <1>6, FS_Injection
<1> HIDE DEF c
<1>8. Len(q) = c /\ q \in Seq(1..n)
  <2>1. q \in [1..c -> 1..n]
    BY <1>4
  <2> QED BY <1>2, <2>1
<1> QED BY <1>4, <1>7, <1>8 DEF Surjection

\* The source starts with an empty database and no query.
LEMMA SqliteInit ==
  ASSUME Init
  PROVE  SqliteInv
<1>1. /\ db_rows = <<>> /\ db_pushes = <<>> /\ todo = <<>>
      /\ sqlite = "idle" /\ now = 1 /\ current_ts = 0 /\ stale = FALSE
      /\ db_failed = FALSE
  BY DEF Init, S!Init
<1>2. /\ db_rows \in Seq(S!Row) /\ db_pushes \in Seq(0..2)
      /\ todo \in Seq(1..Len(db_rows))
      /\ Len(db_rows) = 0 /\ Len(db_pushes) = 0 /\ Len(todo) = 0
  BY <1>1
<1>3. db_failed \in BOOLEAN
  BY <1>1
<1>4. SqliteTypes
  BY <1>1, <1>2, <1>3 DEF SqliteTypes
<1>5. SqliteTodo /\ SqlitePushes
  BY <1>1, <1>2 DEF SqliteTodo, SqlitePushes
<1> QED BY <1>4, <1>5 DEF SqliteInv

\* The clock may run while the source rests.
LEMMA SqliteStutters ==
  ASSUME SqliteInv, UNCHANGED sqlite_vars, now' \in Nat, now' >= now
  PROVE  SqliteInv'
<1>1. SqliteTypes'
  BY DEF SqliteInv, sqlite_vars, SqliteTypes
<1>2. ~ db_failed' => SqliteTodo' /\ SqlitePushes'
  BY DEF SqliteInv, sqlite_vars, SqliteTodo, SqlitePushes, InWindow, IsDueRow,
         S!Selected
<1> QED BY <1>1, <1>2 DEF SqliteInv

\* Every step of the source and of the writer keeps the invariant.
LEMMA SqliteStep ==
  ASSUME SqliteInv, S!Next
  PROVE  SqliteInv'
<1> USE DEF SqliteInv
<1>1. ASSUME S!Create PROVE SqliteInv'
  <2>1. UNCHANGED <<db_rows, now, current_ts, stale, sqlite, todo, db_pushes, db_failed>>
    BY <1>1 DEF S!Create
  <2>2. SqliteTypes'
    BY <2>1 DEF SqliteTypes
  <2> QED BY <2>1, <2>2 DEF SqliteTodo, SqlitePushes, InWindow, IsDueRow, S!Selected
<1>2. ASSUME S!BeginQuery PROVE SqliteInv'
  <2>1. /\ sqlite = "idle" /\ sqlite' = "step"
        /\ current_ts' = now - 1
        /\ bound' = [min |-> current_ts, max |-> now - 1] \/ stale
        /\ todo' \in S!Result(bound')
        /\ stale' = FALSE
        /\ UNCHANGED <<db_rows, now, db_pushes, db_failed>>
    BY <1>2 DEF S!BeginQuery
  <2> DEFINE W(b) == {i \in DOMAIN db_rows : /\ S!Selected(db_rows[i])
                                             /\ db_rows[i].ts > b.min
                                             /\ db_rows[i].ts <= b.max}
  <2>2. DOMAIN db_rows = 1..Len(db_rows) /\ Len(db_rows) \in Nat
    BY DEF SqliteTypes
  <2>3. todo' \in S!SetToSeqs(W(bound')) /\ W(bound') \in SUBSET (1..Len(db_rows))
    BY <2>1, <2>2 DEF S!Result
  <2>4. /\ todo' \in Seq(1..Len(db_rows))
        /\ \A k, m \in 1..Len(todo') : todo'[k] = todo'[m] => k = m
        /\ \A k \in 1..Len(todo') : todo'[k] \in W(bound')
        /\ \A i \in W(bound') : \E k \in 1..Len(todo') : todo'[k] = i
    <3> HIDE DEF W
    <3> QED BY <2>2, <2>3, ResultProperties
  <2>5. SqliteTypes'
    BY <2>1, <2>4 DEF SqliteTypes
  <2>6. ASSUME ~ db_failed' PROVE SqliteTodo' /\ SqlitePushes'
    <3>1. /\ ~ db_failed /\ SqliteTodo /\ SqlitePushes
          /\ bound'.min = current_ts /\ bound'.max = now - 1
      BY <2>1, <2>6 DEF SqliteTodo
    <3>2. \A i \in 1..Len(db_rows) : db_rows[i].ts \in Int
      <4>1. \A i \in 1..Len(db_rows) : db_rows[i] \in S!Row
        BY DEF SqliteTypes
      <4> QED BY <4>1, SourcesAssumption DEF S!Row
    <3>3. \A i \in 1..Len(db_rows) :
            i \in W(bound') <=>
              /\ S!Selected(db_rows[i])
              /\ db_rows[i].ts > current_ts /\ db_rows[i].ts <= now - 1
      BY <2>2, <3>1
    <3> HIDE DEF W
    <3>4. \A i \in 1..Len(db_rows) :
            InWindow(i)' <=> S!Selected(db_rows[i]) /\ db_rows[i].ts <= now - 1
      BY <2>1 DEF InWindow, S!Selected
    <3>5. SqliteTodo'
      <4>1. \A i \in 1..Len(db_rows) : IsDueRow(i)' => InWindow(i)'
        BY <2>4, <3>3, <3>4 DEF IsDueRow
      <4> QED BY <2>1, <2>4, <4>1 DEF SqliteTodo
    <3>6. SqlitePushes'
      <4> SUFFICES ASSUME NEW i \in 1..Len(db_rows)
                   PROVE  db_pushes[i] = IF InWindow(i)' /\ ~ IsDueRow(i)' THEN 1 ELSE 0
        BY <2>1 DEF SqlitePushes
      <4>1. IsDueRow(i)' <=> i \in W(bound')
        BY <2>4 DEF IsDueRow
      <4>2. ~ IsDueRow(i)
        BY <2>1, <3>1 DEF SqliteTodo, IsDueRow
      <4>3. db_pushes[i] = IF InWindow(i) THEN 1 ELSE 0
        BY <3>1, <4>2 DEF SqlitePushes
      <4>4. InWindow(i) <=> S!Selected(db_rows[i]) /\ db_rows[i].ts <= current_ts
        BY DEF InWindow
      <4>5. InWindow(i)' /\ ~ IsDueRow(i)' <=> InWindow(i)
        BY <3>2, <3>3, <3>4, <4>1, <4>4 DEF SqliteTypes
      <4> QED BY <4>3, <4>5
    <3> QED BY <3>5, <3>6
  <2> QED BY <2>5, <2>6
<1>3. ASSUME S!StepRow PROVE SqliteInv'
  <2>1. /\ sqlite = "step" /\ todo # <<>>
        /\ db_pushes' = [db_pushes EXCEPT ![Head(todo)] = IF @ = 0 THEN 1 ELSE 2]
        /\ todo' = Tail(todo)
        /\ UNCHANGED <<db_rows, now, current_ts, stale, sqlite, db_failed>>
    BY <1>3 DEF S!StepRow
  <2>2. PICK h \in 1..Len(db_rows) : h = todo[1] /\ h = Head(todo)
    BY <2>1 DEF SqliteTypes
  <2>3. /\ todo' \in Seq(1..Len(db_rows))
        /\ Len(todo) \in Nat \ {0}
        /\ Len(todo') = Len(todo) - 1
        /\ \A k \in 1..Len(todo') : k + 1 \in 1..Len(todo) /\ todo'[k] = todo[k + 1]
    BY <2>1 DEF SqliteTypes
  <2>4. /\ db_pushes' \in Seq(0..2) /\ Len(db_pushes') = Len(db_pushes)
        /\ \A i \in 1..Len(db_rows) : i # h => db_pushes'[i] = db_pushes[i]
        /\ db_pushes[h] = 0 => db_pushes'[h] = 1
    BY <2>1, <2>2 DEF SqliteTypes
  <2>5. SqliteTypes'
    BY <2>1, <2>3, <2>4 DEF SqliteTypes
  <2>6. \A i : InWindow(i)' <=> InWindow(i)
    BY <2>1 DEF InWindow, S!Selected
  <2>7. ASSUME ~ db_failed' PROVE SqliteTodo' /\ SqlitePushes'
    <3>1. SqliteTodo /\ SqlitePushes
      BY <2>1, <2>7
    <3>2. SqliteTodo'
      <4>1. \A k, m \in 1..Len(todo') : todo'[k] = todo'[m] => k = m
        <5> SUFFICES ASSUME NEW k \in 1..Len(todo'), NEW m \in 1..Len(todo'),
                            todo'[k] = todo'[m]
                     PROVE  k = m
          OBVIOUS
        <5>1. k + 1 \in 1..Len(todo) /\ m + 1 \in 1..Len(todo)
              /\ todo[k + 1] = todo[m + 1]
          BY <2>3
        <5>2. k + 1 = m + 1
          BY <3>1, <5>1 DEF SqliteTodo
        <5> QED BY <2>3, <5>2
      <4>2. \A i \in 1..Len(db_rows) : IsDueRow(i)' => InWindow(i)'
        <5>1. \A i \in 1..Len(db_rows) : IsDueRow(i)' => IsDueRow(i)
          BY <2>3 DEF IsDueRow
        <5> QED BY <2>6, <3>1, <5>1 DEF SqliteTodo
      <4> QED BY <2>1, <3>1, <4>1, <4>2 DEF SqliteTodo
    <3>3. SqlitePushes'
      <4> SUFFICES ASSUME NEW i \in 1..Len(db_rows)
                   PROVE  db_pushes'[i] = IF InWindow(i) /\ ~ IsDueRow(i)' THEN 1 ELSE 0
        BY <2>1, <2>6 DEF SqlitePushes
      <4>1. IsDueRow(i) <=> i = h \/ IsDueRow(i)'
        <5>1. \A k \in 1..Len(todo) : k = 1 \/ (k - 1 \in 1..Len(todo') /\ todo'[k - 1] = todo[k])
          BY <2>3
        <5>2. 1 \in 1..Len(todo)
          BY <2>3
        <5> QED BY <2>2, <2>3, <5>1, <5>2 DEF IsDueRow
      <4>2. ~ IsDueRow(h)'
        <5> SUFFICES ASSUME NEW k \in 1..Len(todo'), todo'[k] = h PROVE FALSE
          BY DEF IsDueRow
        <5>1. k + 1 \in 1..Len(todo) /\ 1 \in 1..Len(todo) /\ todo[k + 1] = todo[1]
          BY <2>2, <2>3
        <5>2. k + 1 = 1
          BY <3>1, <5>1 DEF SqliteTodo
        <5> QED BY <2>3, <5>2
      <4>3. InWindow(h) /\ IsDueRow(h)
        BY <2>2, <2>3, <3>1 DEF SqliteTodo, IsDueRow
      <4>4. CASE i = h
        BY <2>4, <3>1, <4>2, <4>3, <4>4 DEF SqlitePushes
      <4>5. CASE i # h
        BY <2>4, <3>1, <4>1, <4>5 DEF SqlitePushes
      <4> QED BY <4>4, <4>5
    <3> QED BY <3>2, <3>3
  <2> QED BY <2>5, <2>7
<1>4. ASSUME S!StepDone PROVE SqliteInv'
  <2>1. /\ todo = <<>> /\ sqlite' = "idle"
        /\ UNCHANGED <<db_rows, now, current_ts, stale, todo, db_pushes, db_failed>>
    BY <1>4 DEF S!StepDone
  <2>2. SqliteTypes'
    BY <2>1 DEF SqliteTypes
  <2> QED BY <2>1, <2>2 DEF SqliteTodo, SqlitePushes, InWindow, IsDueRow, S!Selected
<1>5. ASSUME S!StepFails PROVE SqliteInv'
  BY <1>5 DEF S!StepFails, SqliteTypes
<1>6. ASSUME S!Tick PROVE SqliteInv'
  BY <1>6, SqliteStutters DEF S!Tick, sqlite_vars, SqliteTypes
<1>7. ASSUME S!AddRow PROVE SqliteInv'
  <2>1. PICK row \in S!Row : row.ts = now /\ db_rows' = Append(db_rows, row)
    BY <1>7 DEF S!AddRow
  <2>2. /\ db_pushes' = Append(db_pushes, 0)
        /\ UNCHANGED <<now, current_ts, stale, sqlite, todo, db_failed>>
    BY <1>7 DEF S!AddRow
  <2>3. /\ db_rows' \in Seq(S!Row) /\ Len(db_rows') = Len(db_rows) + 1
        /\ db_pushes' \in Seq(0..2) /\ Len(db_pushes') = Len(db_rows) + 1
        /\ \A i \in 1..Len(db_rows) :
             db_rows'[i] = db_rows[i] /\ db_pushes'[i] = db_pushes[i]
        /\ db_rows'[Len(db_rows) + 1] = row
        /\ db_pushes'[Len(db_rows) + 1] = 0
        /\ \A k \in 1..Len(todo) : todo[k] \in 1..Len(db_rows)
    BY <2>1, <2>2 DEF SqliteTypes
  <2>4. SqliteTypes'
    <3>1. todo' \in Seq(1..Len(db_rows'))
      BY <2>2, <2>3 DEF SqliteTypes
    <3> QED BY <2>2, <2>3, <3>1 DEF SqliteTypes
  <2>5. ASSUME ~ db_failed' PROVE SqliteTodo' /\ SqlitePushes'
    <3>1. SqliteTodo /\ SqlitePushes
      BY <2>2, <2>5
    <3>2. \A i \in 1..Len(db_rows) : InWindow(i)' <=> InWindow(i)
      BY <2>2, <2>3 DEF InWindow, S!Selected
    <3>3. SqliteTodo'
      <4>1. \A i \in 1..(Len(db_rows) + 1) : IsDueRow(i)' => IsDueRow(i)
        BY <2>2 DEF IsDueRow
      <4>2. \A i \in 1..(Len(db_rows) + 1) : IsDueRow(i) => i \in 1..Len(db_rows)
        BY <2>3 DEF IsDueRow
      <4>3. \A i \in 1..Len(db_rows') : IsDueRow(i)' => InWindow(i)'
        BY <2>3, <3>1, <3>2, <4>1, <4>2 DEF SqliteTodo
      <4> QED BY <2>2, <3>1, <4>3 DEF SqliteTodo
    <3>4. SqlitePushes'
      <4> SUFFICES ASSUME NEW i \in 1..(Len(db_rows) + 1)
                   PROVE  db_pushes'[i] = IF InWindow(i)' /\ ~ IsDueRow(i)' THEN 1 ELSE 0
        BY <2>3 DEF SqlitePushes
      <4>1. CASE i = Len(db_rows) + 1
        <5>1. ~ InWindow(i)'
          BY <2>1, <2>2, <2>3, <4>1 DEF InWindow, SqliteTypes
        <5> QED BY <2>3, <4>1, <5>1
      <4>2. CASE i # Len(db_rows) + 1
        <5>1. i \in 1..Len(db_rows)
          BY <4>2 DEF SqliteTypes
        <5>2. IsDueRow(i)' <=> IsDueRow(i)
          BY <2>2 DEF IsDueRow
        <5> QED BY <2>3, <3>1, <3>2, <5>1, <5>2 DEF SqlitePushes
      <4> QED BY <4>1, <4>2
    <3> QED BY <3>3, <3>4
  <2> QED BY <2>4, <2>5
<1> QED BY <1>1, <1>2, <1>3, <1>4, <1>5, <1>6, <1>7 DEF S!Next

\* A row that is wanted is selected, as the margins of the WHERE clause only add
\* rows; so the windows tile the time.
LEMMA SqliteInvImplies ==
  ASSUME SqliteInv
  PROVE  SqliteWindowsTile
<1> SUFFICES ASSUME ~ db_failed, NEW i \in DOMAIN db_rows
             PROVE  /\ db_pushes[i] <= 1
                    /\ sqlite = "idle" /\ S!Wanted(db_rows[i]) /\ db_rows[i].ts <= current_ts
                         => db_pushes[i] = 1
  BY DEF SqliteWindowsTile, S!WindowsTile
<1>1. i \in 1..Len(db_rows) /\ SqliteTodo /\ SqlitePushes
  BY DEF SqliteInv, SqliteTypes
<1>2. db_rows[i] \in S!Row
  BY <1>1 DEF SqliteInv, SqliteTypes
<1>3. S!Wanted(db_rows[i]) => S!Selected(db_rows[i])
  <2> SUFFICES ASSUME S!Wanted(db_rows[i]) PROVE S!Selected(db_rows[i])
    OBVIOUS
  <2>1. db_rows[i].file_time \in Nat
    BY <1>2, SourcesAssumption DEF S!Row, S!SqliteAssumption
  <2>2. CASE time_intervals = <<>>
    BY <2>2 DEF S!Wanted, S!Selected
  <2>3. CASE time_intervals # <<>>
    <3>1. PICK j \in DOMAIN time_intervals :
            /\ db_rows[i].file_time >= time_intervals[j].begin_time
            /\ \/ time_intervals[j].end_time = FOREVER
               \/ db_rows[i].file_time <= time_intervals[j].end_time
      BY <2>3 DEF S!Wanted
    <3>2. time_intervals[j].begin_time \in Nat
      <4> DEFINE Intervals == [begin_time : 0..(Word - 1), end_time : 0..(Word - 1)]
      <4>1. time_intervals \in Seq(Intervals)
        BY SourcesAssumption
      <4> HIDE DEF Intervals
      <4>2. time_intervals[j] \in Intervals
        BY <4>1
      <4> QED BY <4>2, SourcesAssumption DEF Intervals
    <3>3. TimeSpan \in Nat /\ Margin \in Nat
      BY SourcesAssumption DEF S!SqliteAssumption
    <3>4. db_rows[i].file_time >= time_intervals[j].begin_time - TimeSpan - Margin
      BY <2>1, <3>1, <3>2, <3>3
    <3> QED BY <3>1, <3>4 DEF S!Wanted, S!Selected
  <2> QED BY <2>2, <2>3
<1>4. sqlite = "idle" => ~ IsDueRow(i)
  BY <1>1 DEF SqliteTodo, IsDueRow
<1> QED BY <1>1, <1>3, <1>4 DEF SqlitePushes, InWindow

-----------------------------------------------------------------------------
(* The broker                                                              *)

\* The inductive invariant: between queries the buffer is empty.
BrokerInv ==
  /\ broker = "idle" /\ ~ fatal => url = <<>>
  /\ BrokerAsksFromWhereItStopped

\* A query appends its parameters, whole, or is given up.
LEMMA BrokerStarts ==
  ASSUME BrokerInv, B!BeginQuery
  PROVE  BrokerInv'
<1> DEFINE params == B!VariableParams(B!Knows)
           fit == IF Len(params) <= room THEN Len(params) ELSE room
<1>1. params \in Seq({B!Param("dataAddedSince", last_response_time),
                      B!Param("minInitialTime", current_window_end)})
  <2> DEFINE a == B!Param("dataAddedSince", last_response_time)
             b == B!Param("minInitialTime", current_window_end)
  <2>1. params = (IF last_response_time > 0 THEN <<a>> ELSE <<>>)
                   \o (IF current_window_end > 0 THEN <<b>> ELSE <<>>)
    BY DEF B!VariableParams, B!Knows
  <2> HIDE DEF params, a, b
  <2>2. <<a>> \in Seq({a, b}) /\ <<b>> \in Seq({a, b}) /\ <<>> \in Seq({a, b})
    OBVIOUS
  <2>3. params \in Seq({a, b})
    BY <2>1, <2>2
  <2> QED BY <2>3 DEF a, b
<1>2. /\ broker = "idle"
      /\ url' = url \o SubSeq(params, 1, fit)
      /\ IF fit = Len(params) THEN broker' = "ask" /\ UNCHANGED <<result, fatal>>
         ELSE result' = -1 /\ fatal' = TRUE /\ UNCHANGED broker
      /\ asked_from' = B!Knows
  BY DEF B!BeginQuery
<1>3. CASE fit = Len(params) /\ ~ fatal
  <2>1. url = <<>>
    BY <1>2, <1>3 DEF BrokerInv
  <2> HIDE DEF params, fit
  <2>2. SubSeq(params, 1, fit) = params
    BY <1>1, <1>3
  <2>3. url' = params
    BY <1>1, <1>2, <2>1, <2>2
  <2>4. url' = B!VariableParams(asked_from')
    BY <1>2, <2>3 DEF params
  <2>5. broker' = "ask" /\ ~ fatal'
    BY <1>2, <1>3
  <2> QED
    BY <2>4, <2>5 DEF BrokerInv, BrokerAsksFromWhereItStopped, B!AsksFromWhereItStopped,
       B!VariableParams
<1>4. CASE ~ (fit = Len(params) /\ ~ fatal)
  <2>1. fatal'
    BY <1>2, <1>4
  <2> QED
    BY <2>1 DEF BrokerInv, BrokerAsksFromWhereItStopped, B!AsksFromWhereItStopped
<1> QED BY <1>3, <1>4

\* No other step touches the parameters, but for the end that cuts them off.
LEMMA BrokerSteps ==
  ASSUME BrokerInv, B!Step \/ B!TakeBatch \/ B!Tick
  PROVE  BrokerInv'
<1> USE DEF BrokerInv, BrokerAsksFromWhereItStopped, B!AsksFromWhereItStopped,
            B!VariableParams, B!buffer, B!history, B!query
<1>1. ASSUME B!Answered \/ B!NotAnswered \/ B!ReadTime \/ B!BreaksOff PROVE BrokerInv'
  <2>1. broker # "idle" /\ broker' # "idle" /\ UNCHANGED <<url, asked_from, fatal>>
    BY <1>1 DEF B!Answered, B!NotAnswered, B!ReadTime, B!BreaksOff
  <2> QED BY <2>1
<1>2. ASSUME B!GiveUp PROVE BrokerInv'
  <2>1. fatal'
    BY <1>2 DEF B!GiveUp
  <2> QED BY <2>1
<1>3. ASSUME B!ReadFile PROVE BrokerInv'
  <2>1. /\ broker = "read" /\ UNCHANGED <<url, asked_from, fatal>>
        /\ broker' = "ask" \/ UNCHANGED broker
    BY <1>3 DEF B!ReadFile
  <2> QED BY <2>1
<1>4. ASSUME B!EndQuery PROVE BrokerInv'
  <2>1. broker' = "idle" /\ url' = <<>>
    BY <1>4 DEF B!EndQuery
  <2> QED BY <2>1
<1>5. ASSUME B!TakeBatch \/ B!Tick PROVE BrokerInv'
  <2>1. UNCHANGED <<broker, url, asked_from, fatal>>
    BY <1>5 DEF B!TakeBatch, B!Tick
  <2> QED BY <2>1
<1> QED BY <1>1, <1>2, <1>3, <1>4, <1>5 DEF B!Step

-----------------------------------------------------------------------------
(* The single files                                                        *)

\* What the state of the single file source is made of.
FilesTypes ==
  /\ content \in [F!Kinds -> F!Heads]
  /\ header \in [F!Kinds -> [1..HeaderLen -> Bytes \cup {0}]]
  /\ DOMAIN last_filetime = F!Kinds
  /\ replaced \in [F!Kinds -> BOOLEAN]
  /\ looked \in [F!Kinds -> BOOLEAN]
  /\ step \in F!Kinds \cup {"idle"}

\* The inductive invariant: a file that was not replaced since it was pushed
\* still begins with the header that is remembered.
FilesInv ==
  /\ FilesTypes
  /\ F!NothingSkipped
  /\ \A f \in F!Kinds : ~ replaced[f] => F!SameHeader(content[f], header[f])

\* What is read of a file is at most HeaderLen bytes.
LEMMA HeadProperties ==
  ASSUME NEW h \in F!Heads
  PROVE  \E n \in 0..HeaderLen : h \in [1..n -> Bytes] /\ Len(h) = n
<1>1. PICK n \in 0..HeaderLen : h \in [1..n -> Bytes]
  BY DEF F!Heads
<1>2. n \in Nat
  BY SourcesAssumption DEF F!SingleFileAssumption
<1>3. Len(h) = n
  BY <1>1, <1>2
<1> QED BY <1>1, <1>3

\* What is remembered begins with the bytes that were read, and is these bytes
\* where they are as many as the header.
LEMMA RememberProperties ==
  ASSUME NEW h \in F!Heads, NEW old \in [1..HeaderLen -> Bytes \cup {0}]
  PROVE  /\ F!Remember(h, old) \in [1..HeaderLen -> Bytes \cup {0}]
         /\ F!SameHeader(h, F!Remember(h, old))
         /\ Len(h) >= HeaderLen => F!Remember(h, old) = h
         /\ Len(h) >= HeaderLen /\ F!SameHeader(h, old) => old = h
<1>1. PICK n \in 0..HeaderLen : h \in [1..n -> Bytes] /\ Len(h) = n
  BY HeadProperties
<1>2. HeaderLen \in Nat
  BY SourcesAssumption DEF F!SingleFileAssumption
<1>3. DOMAIN h = 1..n /\ \A i \in 1..n : i \in 1..HeaderLen /\ h[i] \in Bytes
  BY <1>1, <1>2
<1>4. Len(h) >= HeaderLen => n = HeaderLen
  BY <1>1, <1>2
<1>5. F!Remember(h, old) \in [1..HeaderLen -> Bytes \cup {0}]
  BY <1>3 DEF F!Remember
<1>6. F!SameHeader(h, F!Remember(h, old))
  BY <1>3 DEF F!Remember, F!SameHeader
<1>7. n = HeaderLen => F!Remember(h, old) = h
  BY <1>1, <1>3 DEF F!Remember
<1>8. n = HeaderLen /\ F!SameHeader(h, old) => old = h
  BY <1>1, <1>3 DEF F!SameHeader
<1> QED BY <1>4, <1>5, <1>6, <1>7, <1>8

\* What a step of the property may do.
PushesOnce ==
  /\ F!NothingSkipped'
  /\ \A f \in F!Kinds : last_filetime'[f] # last_filetime[f] => replaced[f]

\* A new source has pushed nothing.
LEMMA FilesInit ==
  ASSUME Init
  PROVE  FilesInv
<1>1. FilesTypes
  BY DEF Init, F!Init, FilesTypes
<1>2. F!NothingSkipped /\ \A f \in F!Kinds : replaced[f]
  BY DEF Init, F!Init, F!NothingSkipped
<1> QED BY <1>1, <1>2 DEF FilesInv

\* Every step keeps the invariant, and pushes a file only if it was replaced.
LEMMA FilesStep ==
  ASSUME FilesInv, F!Next
  PROVE  FilesInv' /\ PushesOnce
<1> USE DEF FilesInv
<1>1. ASSUME F!BeginQuery \/ F!PassOver \/ F!Tick PROVE FilesInv' /\ PushesOnce
  <2>1. UNCHANGED <<content, header, last_filetime, replaced, looked, short>>
    BY <1>1 DEF F!BeginQuery, F!PassOver, F!Tick
  <2>2. step' \in F!Kinds \cup {"idle"}
    BY <1>1 DEF F!BeginQuery, F!PassOver, F!Tick, F!NextStep, FilesTypes, F!Kinds
  <2>3. FilesTypes'
    BY <2>1, <2>2 DEF FilesTypes
  <2>4. F!NothingSkipped'
    BY <2>1 DEF F!NothingSkipped
  <2> QED BY <2>1, <2>3, <2>4 DEF F!SameHeader, PushesOnce
<1>2. ASSUME F!LookAt PROVE FilesInv' /\ PushesOnce
  <2>1. PICK s \in F!Kinds : s = step
    BY <1>2 DEF F!LookAt, FilesTypes
  <2> DEFINE buffer == content[s]
             new == ~ F!SameHeader(buffer, header[s])
  <2>2. /\ short' = (short \/ Len(buffer) < HeaderLen)
        /\ IF new
           THEN /\ header' = [header EXCEPT ![s] = F!Remember(buffer, @)]
                /\ last_filetime' = [last_filetime EXCEPT ![s] = taken_at]
                /\ replaced' = [replaced EXCEPT ![s] = FALSE]
           ELSE UNCHANGED <<header, last_filetime, replaced>>
        /\ looked' = [looked EXCEPT ![s] = TRUE]
        /\ F!NextStep
        /\ UNCHANGED content
    BY <1>2, <2>1 DEF F!LookAt
  <2>3. buffer \in F!Heads /\ header[s] \in [1..HeaderLen -> Bytes \cup {0}]
    BY DEF FilesTypes
  <2>4. /\ F!Remember(buffer, header[s]) \in [1..HeaderLen -> Bytes \cup {0}]
        /\ F!SameHeader(buffer, F!Remember(buffer, header[s]))
        /\ Len(buffer) >= HeaderLen => F!Remember(buffer, header[s]) = buffer
        /\ Len(buffer) >= HeaderLen /\ F!SameHeader(buffer, header[s]) => header[s] = buffer
    BY <2>3, RememberProperties
  <2>5. Len(buffer) \in Nat /\ HeaderLen \in Nat
    BY <2>3, HeadProperties, SourcesAssumption DEF F!SingleFileAssumption
  <2>6. step' \in F!Kinds \cup {"idle"}
    BY <2>2 DEF F!NextStep, F!Kinds
  <2>7. /\ header' \in [F!Kinds -> [1..HeaderLen -> Bytes \cup {0}]]
        /\ DOMAIN last_filetime' = F!Kinds
        /\ replaced' \in [F!Kinds -> BOOLEAN]
        /\ \A f \in F!Kinds \ {s} : /\ header'[f] = header[f]
                                    /\ last_filetime'[f] = last_filetime[f]
                                    /\ replaced'[f] = replaced[f]
        /\ header'[s] = IF new THEN F!Remember(buffer, header[s]) ELSE header[s]
        /\ last_filetime'[s] # last_filetime[s] => new
    <3> HIDE DEF new
    <3>1. CASE new
      BY <2>2, <2>4, <3>1 DEF FilesTypes
    <3>2. CASE ~ new
      BY <2>2, <3>2 DEF FilesTypes
    <3> QED BY <3>1, <3>2
  <2>8. FilesTypes'
    BY <2>2, <2>6, <2>7 DEF FilesTypes
  <2>9. F!SameHeader(content[s], header'[s])
    BY <2>4, <2>7
  <2>10. F!NothingSkipped'
    <3> SUFFICES ASSUME ~ short', NEW f \in F!Kinds, looked'[f]
                 PROVE  header'[f] = content'[f]
      BY DEF F!NothingSkipped
    <3>1. CASE f = s
      <4>1. Len(buffer) >= HeaderLen
        <5>1. ~ (Len(buffer) < HeaderLen)
          BY <2>2, Zenon
        <5> HIDE DEF buffer
        <5> QED BY <2>5, <5>1
      <4> QED BY <2>2, <2>4, <2>7, <3>1, <4>1
    <3>2. CASE f # s
      <4>1. looked[f] /\ ~ short
        BY <2>2, <3>2 DEF FilesTypes
      <4>2. header[f] = content[f]
        BY <4>1 DEF F!NothingSkipped
      <4> QED BY <2>2, <2>7, <3>2, <4>2
    <3> QED BY <3>1, <3>2
  <2>11. \A f \in F!Kinds : ~ replaced'[f] => F!SameHeader(content'[f], header'[f])
    BY <2>2, <2>7, <2>9
  <2>12. \A f \in F!Kinds : last_filetime'[f] # last_filetime[f] => replaced[f]
    BY <2>7
  <2> QED BY <2>8, <2>10, <2>11, <2>12 DEF PushesOnce, F!SameHeader
<1>3. ASSUME F!Replace PROVE FilesInv' /\ PushesOnce
  <2>1. PICK f \in F!Kinds, h \in F!Heads :
          /\ content' = [content EXCEPT ![f] = h]
          /\ replaced' = [replaced EXCEPT ![f] = TRUE]
          /\ looked' = [looked EXCEPT ![f] = FALSE]
    BY <1>3 DEF F!Replace
  <2>2. UNCHANGED <<header, last_filetime, step, short>>
    BY <1>3 DEF F!Replace
  <2>3. FilesTypes'
    BY <2>1, <2>2 DEF FilesTypes
  <2>4. /\ \A g \in F!Kinds \ {f} : /\ content'[g] = content[g]
                                    /\ replaced'[g] = replaced[g]
                                    /\ looked'[g] = looked[g]
        /\ ~ looked'[f] /\ replaced'[f]
    BY <2>1 DEF FilesTypes
  <2>5. F!NothingSkipped'
    BY <2>2, <2>4 DEF F!NothingSkipped
  <2>6. \A g \in F!Kinds : ~ replaced'[g] => F!SameHeader(content'[g], header'[g])
    BY <2>2, <2>4
  <2> QED BY <2>2, <2>3, <2>5, <2>6 DEF PushesOnce, F!SameHeader
<1> QED BY <1>1, <1>2, <1>3 DEF F!Next

-----------------------------------------------------------------------------
(* The theorems                                                            *)

\* The clock runs forward, whichever source moves it.
LEMMA ClockRunsOn ==
  ASSUME now \in Nat, [Next]_vars
  PROVE  now' \in Nat /\ now' >= now
<1>1. UNCHANGED now \/ now' = now + 1
  BY DEF Next, vars, Csv, C!Next, C!BeginQuery, C!ReadRow, C!EndQuery, C!ReadError,
         C!QueryFails, C!Tick, C!WriteRow, SqliteDb, S!Next, S!Create, S!BeginQuery, S!StepRow,
         S!StepDone, S!StepFails, S!Tick, S!AddRow, BrokerQuery, BrokerStep, SingleFiles
<1> QED BY <1>1

\* csvfile.c: whatever is appended to the file while it is read, and whichever
\* queries fail or meet a read error, no wanted row is missed, but for the first
\* one after a failed query, and rows behind a read error that are not newer than
\* those in front of it; for intervals whose begin does not wrap around.
THEOREM CsvComplete ==
  ASSUME IntervalsDoNotWrap
  PROVE  Spec => []CsvNothingMissed
<1>1. Init => CsvInv
  BY CsvInit
<1>2. CsvInv /\ [Next]_vars => CsvInv'
  <2> SUFFICES ASSUME CsvInv, [Next]_vars PROVE CsvInv'
    OBVIOUS
  <2>1. now' \in Nat /\ now' >= now
    BY ClockRunsOn DEF CsvInv, CsvTypes
  <2>2. CASE Csv
    BY <2>2, CsvStep DEF Csv
  <2>3. CASE UNCHANGED csv_vars
    BY <2>1, <2>3, CsvStutters
  <2> QED BY <2>2, <2>3 DEF Next, vars, SqliteDb, BrokerQuery, BrokerStep, SingleFiles
<1>3. CsvInv => CsvNothingMissed
  BY DEF CsvInv
<1> QED BY <1>1, <1>2, <1>3, PTL DEF Spec

\* sqlite.c: until a query fails, no row is pushed twice, and none that is
\* wanted falls between two windows.
THEOREM SqliteTiles == Spec => []SqliteWindowsTile
<1>1. Init => SqliteInv
  BY SqliteInit
<1>2. SqliteInv /\ [Next]_vars => SqliteInv'
  <2> SUFFICES ASSUME SqliteInv, [Next]_vars PROVE SqliteInv'
    OBVIOUS
  <2>1. now' \in Nat /\ now' >= now
    BY ClockRunsOn DEF SqliteInv, SqliteTypes
  <2>2. CASE SqliteDb
    BY <2>2, SqliteStep DEF SqliteDb
  <2>3. CASE UNCHANGED sqlite_vars
    BY <2>1, <2>3, SqliteStutters
  <2> QED BY <2>2, <2>3 DEF Next, vars, Csv, BrokerQuery, BrokerStep, SingleFiles
<1>3. SqliteInv => SqliteWindowsTile
  BY SqliteInvImplies
<1> QED BY <1>1, <1>2, <1>3, PTL DEF Spec

\* broker.c: until a query is given up, every request, the first one and the
\* repeated ones, asks from where the source stood when the query began.
THEOREM BrokerAsks == Spec => []BrokerAsksFromWhereItStopped
<1>1. Init => BrokerInv
  BY DEF Init, B!Init, BrokerInv, BrokerAsksFromWhereItStopped, B!AsksFromWhereItStopped
<1>2. BrokerInv /\ [Next]_vars => BrokerInv'
  <2> SUFFICES ASSUME BrokerInv, [Next]_vars PROVE BrokerInv'
    OBVIOUS
  <2>1. CASE BrokerQuery \/ BrokerStep
    BY <2>1, BrokerStarts, BrokerSteps DEF BrokerQuery, BrokerStep
  <2>2. CASE UNCHANGED broker_vars
    BY <2>2 DEF broker_vars, BrokerInv, BrokerAsksFromWhereItStopped,
                B!AsksFromWhereItStopped, B!VariableParams
  <2> QED BY <2>1, <2>2 DEF Next, vars, Csv, SqliteDb, SingleFiles
<1>3. BrokerInv => BrokerAsksFromWhereItStopped
  BY DEF BrokerInv
<1> QED BY <1>1, <1>2, <1>3, PTL DEF Spec

\* singlefile.c: every version of a file that is looked at is pushed, and once.
THEOREM SingleFileOnce == Spec => SingleFilePushedOnce
<1>1. Init => FilesInv
  BY FilesInit
<1>2. FilesInv /\ [Next]_vars => FilesInv' /\ [PushesOnce]_(F!vars)
  <2> SUFFICES ASSUME FilesInv, [Next]_vars
               PROVE  FilesInv' /\ [PushesOnce]_(F!vars)
    OBVIOUS
  <2>1. CASE SingleFiles
    BY <2>1, FilesStep DEF SingleFiles
  <2>2. CASE UNCHANGED singlefile_vars
    <3>1. FilesTypes'
      BY <2>2 DEF singlefile_vars, FilesInv, FilesTypes
    <3>2. FilesInv'
      BY <2>2, <3>1 DEF singlefile_vars, FilesInv, F!NothingSkipped, F!SameHeader
    <3> QED BY <2>2, <3>2 DEF singlefile_vars, F!vars
  <2> QED BY <2>1, <2>2 DEF Next, vars, Csv, SqliteDb, BrokerQuery, BrokerStep
<1> QED BY <1>1, <1>2, PTL DEF Spec, SingleFilePushedOnce, F!PushedOnce, PushesOnce

=============================================================================
