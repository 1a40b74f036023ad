------------------------------ MODULE DataView ------------------------------
(***************************************************************************)
(* The data view: a table with a row for every time stamp and a column for *)
(* every signal, filled anew from where it stopped with every event.       *)
(***************************************************************************)
EXTENDS SignalSource

CONSTANT MaxColumns   (* bound: columns of the table                       *)

VARIABLES
  columns,      (* signals_, next_signal_pos_ and last_timestamp_: the     *)
                (* signal, the samples taken, the row of the last one or 0 *)
  rows          (* the rows: [t, cells], the cells a function of columns   *)

dataVars == <<columns, rows>>

InitDataView == columns = <<>> /\ rows = <<>>

Table == [columns |-> columns, rows |-> rows]

(* An item of a QTableWidget moves with its row.                           *)
RowStays(row, inserted)  == row
RowAfter(row, inserted) == IF row >= inserted THEN row + 1 ELSE row

InsertRow(table, at, t) ==
  [columns |-> [i \in DOMAIN table.columns |->
                  [table.columns[i] EXCEPT !.last = RowAfter(@, at)]],
   rows |-> InsertAt(table.rows, at, [t |-> t, cells |-> <<>>])]

WithCell(cells, i, value) ==
  [j \in DOMAIN cells \cup {i} |-> IF j = i THEN value ELSE cells[j]]

(* The row of a sample of column i is the first one behind the column's    *)
(* last that is not older; it is a new one unless it has the same time.    *)
Place(table, i, sample) ==
  LET behind == {r \in DOMAIN table.rows : /\ r > table.columns[i].last
                                           /\ table.rows[r].t >= sample.t}
      at     == IF behind = {} THEN Len(table.rows) + 1 ELSE Min(behind)
      meets  == behind # {} /\ table.rows[at].t = sample.t
      wider  == IF meets THEN table ELSE InsertRow(table, at, sample.t)
  IN  [columns |-> [wider.columns EXCEPT ![i].last = at, ![i].next = @ + 1],
       rows |-> [wider.rows EXCEPT ![at].cells = WithCell(@, i, sample.v)]]

(* Column i takes the samples of its signal that it has not taken: the     *)
(* table once it has the first k of them.                                  *)
Placed(table, i) ==
  LET column == table.columns[i]
      of     == samples[column.signal]
      placed[k \in 0..Len(of)] ==
        IF k <= column.next THEN table ELSE Place(placed[k - 1], i, of[k])
  IN  placed

Fill(table, i) == Placed(table, i)[Count(table.columns[i].signal)]

(* The columns do so one after the other.                                  *)
Filled(table) ==
  LET filled[i \in 0..Len(table.columns)] ==
        IF i = 0 THEN table ELSE Fill(filled[i - 1], i)
  IN  filled

PopulateTable(table) ==
  LET full == Filled(table)[Len(table.columns)]
  IN  columns' = full.columns /\ rows' = full.rows

(* add_signal(), for the first signal or from the dialog; the same signal  *)
(* may be added again.                                                     *)
AddSignal(s) ==
  /\ Len(columns) < MaxColumns
  /\ PopulateTable([Table EXCEPT !.columns = Append(@, [signal |-> s, next |-> 0, last |-> 0])])
  /\ Listen(s)
  /\ UNCHANGED <<samples, digitVars, pushVars, now, clears, queued>>

OnTableEvent ==
  /\ TakeEvent
  /\ PopulateTable(Table)
  /\ UNCHANGED <<samples, digitVars, pushVars, now, clears, listening>>

DataViewNext == (\E s \in Signals : AddSignal(s)) \/ OnTableEvent

-----------------------------------------------------------------------------
(* Every one of the first n samples of a sequence has a row for its cell   *)
(* in column i, in their order, and there are no other cells.              *)
HasCell(table, i, r) == i \in DOMAIN table.rows[r].cells
HasTaken(table, i, of, n) ==
  \E at \in [1..n -> DOMAIN table.rows] :
    /\ \A k \in 2..n : at[k - 1] < at[k]
    /\ \A k \in 1..n : /\ HasCell(table, i, at[k])
                       /\ of[k].t = table.rows[at[k]].t /\ of[k].v = table.rows[at[k]].cells[i]
    /\ \A r \in DOMAIN table.rows : HasCell(table, i, r) => \E k \in 1..n : at[k] = r

(* The time stamps of all columns' signals have been in order.             *)
NoneBackward == \A i \in DOMAIN columns : columns[i].signal \notin backward

(* However packets and events of the signals interleave and whenever a     *)
(* column is added, the table is the merge of its signals: a column has    *)
(* the samples of its signal in their order, each in a row of its time,    *)
(* and all of them when nothing is under way; and unless a packet came     *)
(* with an older time than its signal had, which the table does not look   *)
(* back for, the rows are in order of time, and a time has no more rows    *)
(* than a signal has samples of it: some column has a cell in each.  (A    *)
(* signal that was deleted is not taken from before it has more samples    *)
(* than before.)                                                           *)
TableIsMerged ==
  /\ \A i \in DOMAIN columns : ~Cleared(columns[i].signal) =>
       LET of == samples[columns[i].signal]
       IN  \E n \in 0 .. Len(of) : (Still => n = Len(of)) /\ HasTaken(Table, i, of, n)
  /\ NoneBackward => \A r \in 2 .. Len(rows) : rows[r - 1].t <= rows[r].t
  /\ NoneBackward => \A r \in DOMAIN rows :
       \E i \in DOMAIN columns :
         \A q \in DOMAIN rows : rows[q].t = rows[r].t => HasCell(Table, i, q)
=============================================================================
