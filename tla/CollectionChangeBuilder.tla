------------------------ MODULE CollectionChangeBuilder ------------------------
(***************************************************************************)
(* CollectionChangeBuilder of the object store: the changes between two    *)
(* versions of a collection, built operation by operation from the         *)
(* transaction log (lists: the moves; tables: the mapping, new row to old  *)
(* row), merged with the changes of a later step, or calculated from the   *)
(* rows a query returned before and after.  Deletions and the origins of   *)
(* moves are positions in the old collection, everything else in the new.  *)
(* The per-column copies of the modifications go through the same          *)
(* operations as the modifications and are left out.                       *)
(***************************************************************************)
EXTENDS IndexSet

CONSTANT Huge  \* stands for SIZE_MAX, the length of a table's clear

NoChange == [deletions |-> << >>, insertions |-> << >>, modifications |-> << >>,
             moves |-> << >>, mapping |-> << >>]

\* CollectionChangeSet::empty
IsEmpty(b) ==
  /\ b.deletions = << >> /\ b.insertions = << >>
  /\ b.modifications = << >> /\ b.moves = << >>

Without(f, keys) == [x \in DOMAIN f \ keys |-> f[x]]
Mapped(f, to, from) == [x \in DOMAIN f \cup {to} |-> IF x = to THEN from ELSE f[x]]

Modify(b, i) == [b EXCEPT !.modifications = AddIndex(@, i)]

Insert(b, i, count, track) ==
  LET After(x) == IF x >= i THEN x + count ELSE x
  IN  IF ~track
      THEN [b EXCEPT !.modifications = ShiftForInsert(@, i, count)]
      ELSE [b EXCEPT !.modifications = ShiftForInsert(@, i, count),
                     !.insertions = InsertRange(@, i, count),
                     !.moves = [k \in DOMAIN @ |-> [from |-> @[k].from, to |-> After(@[k].to)]],
                     !.mapping = [x \in {After(y) : y \in DOMAIN @} |->
                                    @[CHOOSE y \in DOMAIN @ : After(y) = x]]]

Erase(b, i) ==
  LET erased == EraseOrUnshift(b.insertions, i)
      Closed(m) == CASE m.to = i -> << >>
                     [] m.to > i -> <<[m EXCEPT !.to = @ - 1]>>
                     [] m.to < i -> <<m>>
      kept[k \in 0 .. Len(b.moves)] == IF k = 0 THEN << >> ELSE kept[k - 1] \o Closed(b.moves[k])
  IN  [b EXCEPT !.modifications = EraseIndex(@, i),
                !.insertions = erased.set,
                !.deletions = IF erased.index = NPos THEN @
                              ELSE AddShifted(@, erased.index).set,
                !.moves = kept[Len(b.moves)]]

\* A list knows its size, from which the old size follows; a table does not
\* and deletes every row there could be.
Clear(b, size) ==
  LET old == size + CountIn(b.deletions, 0, Huge) - CountIn(b.insertions, 0, Huge)
  IN  [NoChange EXCEPT !.deletions = WithLength(IF size = Huge THEN Huge ELSE old)]

\* A list entry taken out and put in again: A -> B, B -> C become A -> C.
Move(b, from, to) ==
  LET again == \E k \in DOMAIN b.moves : b.moves[k].to = from
      Passed(x) == CASE x = from -> to
                     [] x >= to /\ x < from -> x + 1
                     [] x <= to /\ x > from -> x - 1
                     [] OTHER -> x
      moved == [k \in DOMAIN b.moves |-> [b.moves[k] EXCEPT !.to = Passed(@)]]
      out == EraseOrUnshift(b.insertions, from)
      deleted == AddShifted(b.deletions, out.index)
      b1 == [b EXCEPT
               !.insertions = InsertRange(out.set, to, 1),
               !.modifications = IF InSet(@, from)
                                 THEN InsertRange(EraseIndex(@, from), to, 1)
                                 ELSE ShiftForInsert(EraseIndex(@, from), to, 1)]
  IN  IF again \/ out.index = NPos
      THEN [b1 EXCEPT !.moves = moved]
      ELSE [b1 EXCEPT !.moves = Append(moved, [from |-> deleted.index, to |-> to]),
                      !.deletions = deleted.set]

\* A table's last row takes the place of the deleted row.
MoveOver(b, row, last, track) ==
  LET mods == RemoveIndex(b.modifications, row)
      b1 == [b EXCEPT !.modifications =
               IF row # last /\ InSet(b.modifications, last)
               THEN AddIndex(RemoveIndex(@, last), row) ELSE mods]
      rowIn  == InSet(b.insertions, row)
      lastIn == InSet(b.insertions, last)
      moved  == lastIn /\ last \in DOMAIN b.mapping
      \* the last row leaves its old place, unless it is new or has moved
      left   == AddShifted(b.deletions, UnshiftIndex(b.insertions, last))
      mapping == CASE moved -> Mapped(Without(b.mapping, {last}), row, b.mapping[last])
                   [] ~moved /\ lastIn -> Without(b.mapping, IF rowIn THEN {row} ELSE {})
                   [] OTHER -> Mapped(b.mapping, row, left.index)
      ins == IF lastIn THEN RemoveIndex(b.insertions, last) ELSE b.insertions
      del == IF lastIn THEN b.deletions ELSE left.set
  IN  CASE ~track -> b1
        [] track /\ row = last ->
             LET out == EraseOrUnshift(b.insertions, row)
             IN  [b1 EXCEPT !.insertions = out.set,
                            !.deletions = IF out.index = NPos THEN @
                                          ELSE AddShifted(@, out.index).set,
                            !.mapping = Without(@, {row})]
        [] track /\ row # last ->
             [b1 EXCEPT !.mapping = mapping,
                        !.insertions = IF rowIn THEN ins ELSE AddIndex(ins, row),
                        !.deletions = IF rowIn THEN del
                                      ELSE AddShifted(del, UnshiftIndex(ins, row)).set]

\* Displace with a plausible bug: the row's number is taken for its number
\* in the old table.
DisplaceUnshifted(b, row, to) ==
  LET left == AddShifted(b.deletions, row)
  IN  IF InSet(b.insertions, row) THEN b
      ELSE [b EXCEPT !.deletions = left.set,
                     !.insertions = AddIndex(@, row),
                     !.mapping = Mapped(@, to, left.index)]

\* One row takes the place of another that has not moved: its old row is
\* deleted there, unless it is new.
Displace(b, row, to) ==
  LET left == AddShifted(b.deletions, UnshiftIndex(b.insertions, row))
  IN  IF InSet(b.insertions, row) THEN b
      ELSE [b EXCEPT !.deletions = left.set,
                     !.insertions = AddIndex(@, row),
                     !.mapping = Mapped(@, to, left.index)]

SwapRows(b, row1, row2, track) ==
  LET Other(x) == IF x = row1 THEN row2 ELSE row1
      Exchanged(s, x) == AddIndex(RemoveIndex(s, x), Other(x))
      in1 == InSet(b.modifications, row1)
      in2 == InSet(b.modifications, row2)
      b1 == [b EXCEPT !.modifications =
               IF in1 = in2 THEN @ ELSE Exchanged(@, IF in1 THEN row1 ELSE row2)]
      moves == {row1, row2} \cap DOMAIN b.mapping
      mover == CHOOSE x \in moves : TRUE
  IN  CASE ~track -> b1
        [] track /\ moves = {row1, row2} ->
             [b1 EXCEPT !.mapping = [@ EXCEPT ![row1] = b.mapping[row2],
                                              ![row2] = b.mapping[row1]]]
        [] track /\ Cardinality(moves) = 1 ->
             Displace([b1 EXCEPT !.mapping = Mapped(Without(@, {mover}), Other(mover), @[mover])],
                      Other(mover), mover)
        [] OTHER -> Displace(Displace(b1, row2, row1), row1, row2)

\* The new row takes over the old one, which a move over then deletes.
Subsume(b, old, new, track) ==
  LET b1 == [b EXCEPT !.modifications = IF InSet(@, old) THEN AddIndex(@, new) ELSE @]
      from == ShiftIndex(b.deletions, UnshiftIndex(b.insertions, old))
  IN  CASE ~track -> b1
        [] track /\ old \in DOMAIN b.mapping ->
             [b1 EXCEPT !.mapping = Mapped(Without(@, {old}), new, @[old])]
        [] track /\ old \notin DOMAIN b.mapping /\ ~InSet(b.insertions, old) ->
             [b1 EXCEPT !.mapping = Mapped(@, new, from)]
        [] OTHER -> b1

\* Moves that leave the row where it was are dropped with their deletion and
\* insertion, one by one: each counts the positions the earlier ones left.
CleanUpStaleMoves(b) ==
  LET Look(acc, m) ==
        IF UnshiftIndex(acc.deletions, m.from) = UnshiftIndex(acc.insertions, m.to)
        THEN [acc EXCEPT !.deletions = RemoveIndex(@, m.from),
                         !.insertions = RemoveIndex(@, m.to)]
        ELSE [acc EXCEPT !.moves = Append(@, m)]
      left[k \in 0 .. Len(b.moves)] == IF k = 0 THEN [b EXCEPT !.moves = << >>]
                                       ELSE Look(left[k - 1], b.moves[k])
  IN  left[Len(b.moves)]

\* The mapping of a table becomes moves in the order of their origins.
ParseComplete(b) ==
  LET Stay == {x \in DOMAIN b.mapping : b.mapping[x] = x}
      origins == {b.mapping[x] : x \in DOMAIN b.mapping \ Stay}
      Origin(i) == CHOOSE o \in origins : Cardinality({p \in origins : p < o}) = i - 1
      To(o) == CHOOSE x \in DOMAIN b.mapping : b.mapping[x] = o
  IN  [b EXCEPT !.deletions = RemoveIndexes(@, FromIndexes(Stay)),
                !.insertions = RemoveIndexes(@, FromIndexes(Stay)),
                !.moves = [i \in 1 .. Cardinality(origins) |->
                             [from |-> Origin(i), to |-> To(Origin(i))]],
                !.mapping = << >>]

\* The old moves seen from the new version: a row moved again has its last
\* destination and uses up the new move, one that was deleted drops out.
UpdateOldMoves(b, c) ==
  LET Later(new, old) == {k \in DOMAIN new : new[k].from = old.to}
      Update(acc, old) ==
        LET k == Min(Later(acc.new, old))
            to == acc.new[k].to
        IN  CASE Later(acc.new, old) # {} ->
                   [old |-> Append(acc.old, [old EXCEPT !.to = to]),
                    new |-> Front([acc.new EXCEPT ![k] = Last(acc.new)]),
                    modifications |-> IF InSet(b.modifications, old.to)
                                      THEN AddIndex(acc.modifications, to)
                                      ELSE acc.modifications]
              [] Later(acc.new, old) = {} /\ InSet(c.deletions, old.to) -> acc
              [] OTHER -> [acc EXCEPT !.old = Append(@, [old EXCEPT !.to =
                             ShiftIndex(c.insertions, UnshiftIndex(c.deletions, @))])]
      updated[k \in 0 .. Len(b.moves)] ==
        IF k = 0 THEN [old |-> << >>, new |-> c.moves, modifications |-> c.modifications]
        ELSE Update(updated[k - 1], b.moves[k])
  IN  updated[Len(b.moves)]

\* merge: the changes b and then the changes c.  A row that b inserted does
\* not move, and a modified row stays modified where it moves to.
Merge(b, c) ==
  LET updated == UpdateOldMoves(b, c)
      BeforeBoth(i) == ShiftIndex(b.deletions, UnshiftIndex(b.insertions, i))
      Take(acc, m) ==
        IF InSet(b.insertions, m.from) THEN acc
        ELSE [moves |-> Append(acc.moves, [from |-> BeforeBoth(m.from), to |-> m.to]),
              modifications |-> IF InSet(b.modifications, m.from)
                                THEN AddIndex(acc.modifications, m.to)
                                ELSE acc.modifications]
      taken[k \in 0 .. Len(updated.new)] ==
        IF k = 0 THEN [moves |-> updated.old, modifications |-> updated.modifications]
        ELSE Take(taken[k - 1], updated.new[k])
      moved == taken[Len(updated.new)]
      merged ==
        [NoChange EXCEPT
           !.moves = moved.moves,
           !.deletions = AddShiftedBy(b.deletions, b.insertions, c.deletions),
           !.insertions = InsertIndexes(EraseIndexes(b.insertions, c.deletions), c.insertions)]
      kept == ShiftForInserts(EraseIndexes(b.modifications, c.deletions), c.insertions)
  IN  CASE IsEmpty(c) -> b
        [] IsEmpty(b) /\ ~IsEmpty(c) -> c
        [] OTHER -> [CleanUpStaleMoves(merged) EXCEPT !.modifications =
                       AddIndexes(kept, moved.modifications)]

\* finalize: the change set the callback receives.
Finalize(b) ==
  [deletions         |-> b.deletions,
   insertions        |-> b.insertions,
   modifications     |-> ShiftForInserts(EraseIndexes(b.modifications, b.insertions), b.deletions),
   modifications_new |-> RemoveIndexes(b.modifications, b.insertions),
   moves             |-> b.moves]

-----------------------------------------------------------------------------
(* calculate: the changes from the rows a query returned before to those it *)
(* returns now.  prev holds the rows' numbers in the new table, NPos for a  *)
(* deleted one, and no row occurs twice; positions count from 0.            *)

PosIn(rows, row) == (CHOOSE i \in DOMAIN rows : rows[i] = row) - 1

\* The rows that the other collection has too, in their order.
Survivors(rows, others) ==
  LET at == {k \in DOMAIN rows : rows[k] \in ToSet(others)}
      Nth(k) == CHOOSE p \in at : Cardinality({q \in at : q < p}) = k - 1
  IN  [k \in 1 .. Cardinality(at) |-> rows[Nth(k)]]

\* The rows of an unsorted query move only when a row is moved over another.
MovesUnsorted(b, prev, next, removed, candidates) ==
  LET shifted(row) == Cardinality({i \in 1 .. PosIn(prev, row) : prev[i] # NPos})
      Look(acc, row) ==
        LET tv     == PosIn(next, row)
            before == PosIn(prev, row)
            calc   == tv - CountIn(acc.change.insertions, 0, tv)
                         + CountIn(acc.removed, 0, before)
        IN  CASE shifted(row) = acc.expected -> [acc EXCEPT !.expected = @ + 1]
              [] shifted(row) # acc.expected /\ (~InSet(candidates, row) \/ shifted(row) = calc) ->
                   [acc EXCEPT !.expected = shifted(row) + 1]
              [] OTHER ->
                   [acc EXCEPT !.removed = AddIndex(@, before),
                               !.change.insertions = AddIndex(@, tv),
                               !.change.moves = Append(@, [from |-> before, to |-> tv])]
      done[k \in 0 .. Len(next)] ==
        IF k = 0 THEN [expected |-> 0, removed |-> removed, change |-> b]
        ELSE IF next[k] \in ToSet(prev) THEN Look(done[k - 1], next[k])
        ELSE done[k - 1]
      moved == done[Len(next)]
  IN  [moved.change EXCEPT !.deletions = AddIndexes(@, moved.removed)]

\* The length of the run of equal rows that ends at a[i] and b[j].
RunEnding(a, b, b1, b2, i, j) ==
  Max({n \in 1 .. Min({i - b1, j - b2}) + 1 :
         \A k \in 0 .. n - 1 : a[i - k + 1] = b[j - k + 1]})

\* The longest run of rows that lies in both a[b1 .. e1 - 1] and
\* b[b2 .. e2 - 1] (positions from 0); among equals the first, unless a later
\* one seems to have fewer modified rows.  The count for the first looks at
\* the positions before its start, and a window that would begin below 0 is
\* empty.
LongestMatch(a, b, modifications, b1, e1, b2, e2) ==
  LET Window(from, to) == IF from < 0 THEN 0 ELSE CountIn(modifications, from, to)
      Look(best, i) ==
        LET j == PosIn(b, a[i + 1])
            size == RunEnding(a, b, b1, b2, i, j)
            Found(modified) ==
              [i |-> i - size + 1, j |-> j - size + 1, size |-> size, modified |-> modified]
            count == Window(j - size + 1, j + 1)
            old == IF best.modified = NPos THEN Window(best.j - size + 1, best.j + 1)
                   ELSE best.modified
        IN  CASE j < b2 \/ j >= e2 -> best
              [] j \in b2 .. e2 - 1 /\ size > best.size -> Found(NPos)
              [] j \in b2 .. e2 - 1 /\ size = best.size ->
                   IF count < old THEN Found(count) ELSE [best EXCEPT !.modified = old]
              [] OTHER -> best
      found[i \in 0 .. e1] ==
        IF i <= b1 THEN [i |-> b1, j |-> b2, size |-> 0, modified |-> 0]
        ELSE Look(found[i - 1], i - 1)
  IN  found[e1]

\* The matches of the stretch, the longest first and then those on either
\* side of it: each round looks at the stretches the last one left, which
\* are shorter, until none is left.
LongestMatches(a, b, modifications, first) ==
  LET n == Len(a)
      Match(s) == LongestMatch(a, b, modifications, s.b1, s.e1, s.b2, s.e2)
      Sides(s, m) ==
        LET i == m.i + m.size
            j == m.j + m.size
        IN  IF m.size = 0 THEN {}
            ELSE (IF m.i > s.b1 /\ m.j > s.b2 THEN {[s EXCEPT !.e1 = m.i, !.e2 = m.j]} ELSE {})
                 \cup (IF i < s.e2 /\ j < s.e2 THEN {[s EXCEPT !.b1 = i, !.b2 = j]} ELSE {})
      Round(last) ==
        LET found == {<<s, Match(s)>> : s \in last.left}
        IN  [left    |-> UNION {Sides(f[1], f[2]) : f \in found},
             matches |-> last.matches \cup {f[2] : f \in {g \in found : g[2].size > 0}}]
      round[k \in 0 .. n] ==
        IF k = 0 THEN [left |-> {[b1 |-> first, e1 |-> n, b2 |-> first, e2 |-> n]}, matches |-> {}]
        ELSE Round(round[k - 1])
  IN  round[n].matches

\* Unmatched with a plausible bug: the first position that differs is
\* stepped over.
UnmatchedTooLate(rows, first, runs) ==
  {rows[x] : x \in {y \in DOMAIN rows : y - 1 > first /\ \A r \in runs : y - 1 \notin r}}

\* The rows from the first position on that are in no run of positions.
Unmatched(rows, first, runs) ==
  {rows[x] : x \in {y \in DOMAIN rows : y - 1 >= first /\ \A r \in runs : y - 1 \notin r}}

\* Rows outside the matches are deleted where they were and inserted where
\* they are now.
MovesSorted(b, prev, next) ==
  LET was == Survivors(prev, next)
      now == Survivors(next, prev)
      differ == {i \in DOMAIN was : was[i] # now[i]}
      first == Min(differ) - 1
      matches == LongestMatches(was, now, b.modifications, first)
      gone == Unmatched(was, first, {m.i .. m.i + m.size - 1 : m \in matches})
      come == Unmatched(now, first, {m.j .. m.j + m.size - 1 : m \in matches})
  IN  IF differ = {} THEN b
      ELSE [b EXCEPT
              !.deletions = AddIndexes(@, FromIndexes({PosIn(prev, row) : row \in gone})),
              !.insertions = AddIndexes(@, FromIndexes({PosIn(next, row) : row \in come}))]

\* A row that no longer matches is deleted only after the moves are known.
Calculate(prev, next, changed, candidates, inTableOrder) ==
  LET Positions(rows, set) == FromIndexes({i - 1 : i \in {k \in DOMAIN rows : rows[k] \in set}})
      removed == Positions(prev, ToSet(prev) \ (ToSet(next) \cup {NPos}))
      b == [NoChange EXCEPT
              !.deletions = Positions(prev, {NPos}),
              !.insertions = Positions(next, ToSet(next) \ ToSet(prev)),
              !.modifications = Positions(next, ToSet(prev) \cap changed)]
  IN  IF inTableOrder THEN MovesUnsorted(b, prev, next, removed, candidates)
      ELSE [MovesSorted(b, prev, next) EXCEPT !.deletions = AddIndexes(@, removed)]
=============================================================================
