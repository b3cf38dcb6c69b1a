-------------------------- MODULE TransactLogObserver --------------------------
(***************************************************************************)
(* The changes a notifier reports, from the instructions of the            *)
(* transaction log to the change set of the callback: TransactLogObserver  *)
(* tells a CollectionChangeBuilder of every instruction on an observed     *)
(* list or table, the notifier turns that into the changes of its own      *)
(* collection when the log is at its end, and the changes of several runs  *)
(* are merged until the callback takes them.                               *)
(*                                                                         *)
(* Three kinds of collection: a list reports the log's changes; a query in *)
(* table order and a sorted query report how their rows changed, for which *)
(* they need to know where the table's rows went; a table that is only     *)
(* linked to is watched for modified rows alone (track_moves is false).    *)
(***************************************************************************)
EXTENDS CollectionChangeBuilder

CONSTANTS
  Kinds,    \* a subset of {"list", "query", "sorted", "linked"}
  MaxStart, \* bound on the rows at the beginning
  MaxRows,  \* bound on the rows there are at any time
  MaxOps    \* bound, per kind, on the instructions before the callback

ASSUME BoundsAssumption ==
  /\ Kinds \subseteq {"list", "query", "sorted", "linked"}
  /\ {MaxStart, MaxRows, Huge} \subseteq Nat
  /\ MaxStart <= MaxRows
  /\ MaxOps \in [Kinds -> Nat]
  /\ \A k \in Kinds : Huge > MaxRows + MaxOps[k]

VARIABLES
  kind,    \* what is observed
  start,   \* the rows of the list or table at the beginning of the run
  rows,    \* the rows now; a row keeps its name when its number changes
  fresh,   \* the rows modified in this run
  change,  \* what the observer built in this run
  shown,   \* the collection the callback last saw
  view,    \* the collection at the end of the last run
  touched, \* the rows modified from shown to view
  total,   \* the changes merged since the callback
  passed,  \* history: a query's row went past one that kept its number
  ops

vars == <<kind, start, rows, fresh, change, shown, view, touched, total, passed, ops>>

Track == kind # "linked"
Table == kind # "list"
\* Positions count from 0, as in the code.
Positions == 0 .. Len(rows) - 1
RowAt(i) == rows[i + 1]
NewRow == Min((0 .. 4 * MaxRows) \ (ToSet(start) \cup ToSet(rows) \cup ToSet(shown) \cup ToSet(view)))

Orders(S) == {f \in [1 .. Cardinality(S) -> S] : ToSet(f) = S}

Init ==
  /\ kind \in Kinds
  /\ \E n \in 0 .. MaxStart : start = [i \in 1 .. n |-> i - 1]
  /\ rows = start
  /\ view = start
  /\ shown = view
  /\ fresh = {} /\ touched = {}
  /\ change = NoChange /\ total = NoChange
  /\ passed = FALSE
  /\ ops = 0

Told(newRows, modified, newChange) ==
  /\ ops < MaxOps[kind]
  /\ ops' = ops + 1
  /\ rows' = newRows
  /\ fresh' = (fresh \cup modified) \cap ToSet(newRows)
  /\ change' = newChange
  /\ UNCHANGED <<kind, start, shown, view, touched, total, passed>>

LinkListSet ==
  /\ ~Table
  /\ \E i \in Positions : Told(rows, {RowAt(i)}, Modify(change, i))

\* Both entries change; the observer makes two modifications of it.
LinkListSwap ==
  /\ ~Table
  /\ \E i, j \in Positions :
       /\ i < j
       /\ Told(rows, {RowAt(i), RowAt(j)}, Modify(Modify(change, i), j))

LinkListInsert ==
  /\ ~Table
  /\ Len(rows) < MaxRows
  /\ \E i \in 0 .. Len(rows) :
       Told(InsertAt(rows, i + 1, NewRow), {}, Insert(change, i, 1, TRUE))

\* link_list_erase, and link_list_nullify when the linked row is deleted.
LinkListErase ==
  /\ ~Table
  /\ \E i \in Positions : Told(RemoveAt(rows, i + 1), {}, Erase(change, i))

LinkListMove ==
  /\ ~Table
  /\ \E i, j \in Positions :
       /\ i # j
       /\ Told(InsertAt(RemoveAt(rows, i + 1), j + 1, RowAt(i)), {}, Move(change, i, j))

LinkListClear ==
  /\ ~Table
  /\ Told(<< >>, {}, Clear(change, Len(rows)))

\* mark_dirty: an instruction that sets a field of the row.
MarkDirty ==
  /\ Table
  /\ \E i \in Positions : Told(rows, {RowAt(i)}, Modify(change, i))

\* New rows come at the end of a table.
InsertEmptyRows ==
  /\ Table
  /\ \E n \in 1 .. 2 :
       /\ Len(rows) + n <= MaxRows
       /\ LET first == NewRow
              second == Min((0 .. 5 * MaxRows) \ (ToSet(start) \cup ToSet(rows) \cup ToSet(shown)
                                                  \cup ToSet(view) \cup {first}))
          IN  Told(rows \o SubSeq(<<first, second>>, 1, n), {},
                   Insert(change, Len(rows), n, Track))

OverLast(s, i) == Front([s EXCEPT ![i + 1] = Last(s)])

\* An unordered erase_rows: the last row takes the deleted one's number.
EraseRows ==
  /\ Table
  /\ \E i \in Positions :
       Told(OverLast(rows, i), {}, MoveOver(change, i, Len(rows) - 1, Track))

SwapTableRows ==
  /\ Table
  /\ \E i, j \in Positions :
       /\ i < j
       /\ Told([rows EXCEPT ![i + 1] = RowAt(j), ![j + 1] = RowAt(i)], {},
               SwapRows(change, i, j, Track))

\* merge_rows into a row that is new in this run and has taken no other
\* row's place, and the deletion of the old row that always follows.
MergeRows ==
  /\ Table
  /\ \E old, new \in Positions :
       /\ old # new
       /\ RowAt(new) \notin ToSet(start)
       /\ new \notin DOMAIN change.mapping
       /\ Told(OverLast([rows EXCEPT ![new + 1] = RowAt(old)], old),
               IF RowAt(new) \in fresh THEN {RowAt(old)} ELSE {},
               MoveOver(Subsume(change, old, new, Track), old, Len(rows) - 1, Track))

ClearTable ==
  /\ Table
  /\ Told(<< >>, {}, Clear(change, Huge))

-----------------------------------------------------------------------------
(* The end of a run.                                                        *)

\* parse_complete of the observer.
Parsed == IF Table THEN ParseComplete(change) ELSE CleanUpStaleMoves(change)

RowNumber(row) == IF row \in ToSet(rows) THEN PosIn(rows, row) ELSE NPos

\* calculate_changes: where a row of the query's last result is now, from
\* the changes of the table.
NumberNow(b, i) ==
  LET at == {k \in DOMAIN b.moves : b.moves[k].from = i}
  IN  IF InSet(b.deletions, i)
      THEN IF at = {} THEN NPos ELSE b.moves[CHOOSE k \in at : TRUE].to
      ELSE ShiftIndex(b.insertions, UnshiftIndex(b.deletions, i))

\* The query's rows as numbers of the new table, from those of the old one.
QueryChange(next) ==
  Calculate([k \in DOMAIN view |-> NumberNow(Parsed, PosIn(start, view[k]))],
            [k \in DOMAIN next |-> PosIn(rows, next[k])],
            {i \in Positions : InSet(Parsed.modifications, i)},
            Parsed.insertions, kind = "query")

\* Rows that nobody modified match as before, and stay in order if sorted.
Results ==
  LET Same(s, t) == SelectSeq(s, LAMBDA x : x \in ToSet(t) \ fresh)
      Selections == UNION {Orders(S) : S \in SUBSET ToSet(rows)}
      InTableOrder(next) ==
        \A i, j \in DOMAIN next : i < j => PosIn(rows, next[i]) < PosIn(rows, next[j])
      Fits(next) ==
        /\ (ToSet(view) \cap ToSet(rows)) \ fresh \subseteq ToSet(next)
        /\ \A row \in (ToSet(start) \cap ToSet(next)) \ fresh : row \in ToSet(view)
  IN  CASE kind = "list" -> {rows}
        [] kind = "query" -> {next \in Selections : Fits(next) /\ InTableOrder(next)}
        [] kind = "sorted" -> {next \in Selections : Fits(next) /\ Same(next, view) = Same(view, next)}

\* In this run a row of the query has gone to a higher number and past one
\* that kept its number.  move_last_over only lowers numbers; a swap or a
\* merge can do it.
Passes(next) ==
  \E row, other \in ToSet(view) \cap ToSet(next) :
    /\ PosIn(start, row) < PosIn(start, other)
    /\ PosIn(start, other) = PosIn(rows, other)
    /\ PosIn(rows, other) < PosIn(rows, row)

\* The notifier runs: its changes join those the callback has not seen
\* (add_changes), and the next run begins.
Run ==
  /\ kind # "linked"
  /\ change # NoChange
  /\ \E next \in Results :
       /\ view' = next
       /\ total' = Merge(total, IF kind = "list" THEN Parsed ELSE QueryChange(next))
       /\ touched' = (touched \cup fresh) \cap ToSet(rows)
       /\ passed' = (passed \/ (kind = "query" /\ Passes(next)))
  /\ start' = rows
  /\ fresh' = {}
  /\ change' = NoChange
  /\ UNCHANGED <<kind, rows, shown, ops>>

Next ==
  \/ LinkListSet \/ LinkListSwap \/ LinkListInsert \/ LinkListErase
  \/ LinkListMove \/ LinkListClear
  \/ MarkDirty \/ InsertEmptyRows \/ EraseRows \/ SwapTableRows \/ MergeRows \/ ClearTable
  \/ Run

Spec == Init /\ [][Next]_vars

-----------------------------------------------------------------------------
(* Properties.                                                              *)

IndexSets(b) == {b.deletions, b.insertions, b.modifications}

\* Every index set is in order with gaps between its ranges, as all of its
\* operations expect; insertions and modifications are rows there are now.
TypeOK ==
  /\ \A set \in UNION {IndexSets(b) : b \in {change, Parsed, total}} : WellFormed(set)
  /\ Members(total.insertions) \cup Members(total.modifications) \subseteq 0 .. Len(view) - 1
  /\ DOMAIN change.mapping \subseteq Members(change.insertions)

\* The rows in a set of positions, and the positions outside of it.
Inside(s, set) == {row \in ToSet(s) : InSet(set, PosIn(s, row))}
Outside(s, set) == {i \in 0 .. Len(s) - 1 : ~InSet(set, i)}

\* Without the deletions the old collection is the new one without the
\* insertions: as many rows are left, and the first is the first, the second
\* the second and so on.
Applies(old, new, b) ==
  LET left == Outside(old, b.deletions)
      stay == Outside(new, b.insertions)
      Before(S, i) == Cardinality({j \in S : j < i})
  IN  /\ Cardinality(left) = Cardinality(stay)
      /\ \A i \in left, j \in stay : Before(left, i) = Before(stay, j) => old[i + 1] = new[j + 1]

\* As many rows are left of the old collection as stay in the new one.
CountsFit(old, new, b) ==
  Cardinality(Outside(old, b.deletions)) = Cardinality(Outside(new, b.insertions))

\* Every move is of one row, which is also deleted and inserted.
MovesTrue(old, new, b) ==
  \A m \in ToSet(b.moves) :
    /\ InSet(b.deletions, m.from) /\ InSet(b.insertions, m.to)
    /\ old[m.from + 1] = new[m.to + 1]

\* However rows are inserted, moved, swapped, merged and deleted in a
\* transaction, the changes read from its log are those from the rows before
\* to the rows now: a query finds each of its rows under its new number or
\* deleted, and exactly the rows that were modified are modified.
LogChangesRight ==
  /\ Track => Applies(start, rows, Parsed) /\ MovesTrue(start, rows, Parsed)
  /\ kind \in {"query", "sorted"} =>
       \A i \in DOMAIN start : NumberNow(Parsed, i - 1) = RowNumber(start[i])
  /\ Inside(rows, Parsed.modifications) \subseteq fresh
  /\ fresh \cap ToSet(start) \subseteq Inside(rows, Parsed.modifications)

\* collection_notifications.hpp of the change set a callback receives: every
\* move is a move and also a deletion and an insertion, the modifications in
\* the old and the new collection are of the same rows; and the set turns
\* what the callback was shown into what there is now, with no modified row
\* missing or made up, however many runs it was merged from.  For a query in
\* table order that is so as long as no row has passed one that kept its
\* number: the code promises it "when the only row moves are due to
\* move_last_over()" (collection_change_builder.cpp).  The number of rows
\* is right in any case, as a view that is told of the changes demands.
MergedChangesRight ==
  LET final == Finalize(total)
  IN  /\ CountsFit(shown, view, final)
      /\ ~passed =>
           /\ Applies(shown, view, final) /\ MovesTrue(shown, view, final)
           /\ Inside(shown, final.modifications) = Inside(view, final.modifications_new)
           /\ Inside(view, total.modifications) \subseteq touched
           /\ touched \cap ToSet(shown) \cap ToSet(view) \subseteq
                Inside(view, final.modifications_new) \cup Inside(view, final.insertions)
           /\ \A m \in ToSet(total.moves) :
                shown[m.from + 1] \in touched => InSet(total.modifications, m.to)

\* The assertion at the end of calculate, "Verify that applying the
\* calculated change to prev_rows actually produces next_rows", for a query
\* in table order, whatever became of the table's rows.
QueryDiffRight ==
  kind = "query" => \A next \in Results : Applies(view, next, QueryChange(next))

AtFirst == ops = 0 /\ start = << >> /\ kind = "list"

\* Every operation of an index set does to its ranges what is meant by it
\* for sets of numbers, for the ranges of every set of numbers up to the
\* bound and every index; and leaves no two ranges that touch.
IndexSetsRight ==
  AtFirst =>
    \A S \in SUBSET (0 .. MaxRows + 1) : \A x \in 0 .. MaxRows + 2 :
      LET s == FromIndexes(S)
          Below == {y \in S : y < x}
          Upper(d) == {y + d : y \in S \ Below}
          free == CHOOSE y \in 0 .. 2 * MaxRows + 4 : y \notin S /\ Cardinality((0 .. y) \ S) = x + 1
      IN  /\ Members(s) = S /\ WellFormed(s)
          /\ InSet(s, x) = (x \in S)
          /\ CountIn(s, 0, x) = Cardinality(Below)
          /\ ShiftIndex(s, x) = free
          /\ AddIndex(s, x) = FromIndexes(S \cup {x})
          /\ AddShifted(s, x) = [set |-> FromIndexes(S \cup {free}), index |-> free]
          /\ RemoveIndex(s, x) = FromIndexes(S \ {x})
          /\ EraseOrUnshift(s, x) =
               [set |-> FromIndexes(Below \cup (Upper(-1) \ {x - 1})),
                index |-> IF x \in S THEN NPos ELSE x - Cardinality(Below)]
          /\ \A n \in 1 .. 2 :
               /\ InsertRange(s, x, n) = FromIndexes(Below \cup Upper(n) \cup (x .. x + n - 1))
               /\ ShiftForInsert(s, x, n) = FromIndexes(Below \cup Upper(n))

\* calculate, for sorted results: the changes between every two orders of
\* the rows turn one into the other, whichever rows were modified.
DiffRight ==
  AtFirst =>
    LET prev == [i \in 1 .. MaxRows |-> i - 1]
    IN  \A S \in SUBSET (0 .. MaxRows) : \A next \in Orders(S) : \A modified \in SUBSET S :
          Applies(prev, next, Calculate(prev, next, modified, << >>, FALSE))
=============================================================================
