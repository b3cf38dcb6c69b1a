------------------------------- MODULE IndexSet -------------------------------
(***************************************************************************)
(* IndexSet of the object store: a set of row indexes kept as a sequence   *)
(* of half-open ranges <<first, second>>, in order and with a gap between  *)
(* each range and the next.  The chunks the ranges are stored in only      *)
(* speed up the search and are left out: a sequence of ranges stands for   *)
(* all the ways of cutting it into chunks.                                 *)
(***************************************************************************)
EXTENDS Integers, FiniteSets, SequencesExt, FiniteSetsExt

\* What erase_or_unshift answers for an index of the set.
NPos == -1

Members(s) == UNION {s[i][1] .. (s[i][2] - 1) : i \in DOMAIN s}

\* The shape every operation relies on (ChunkedRangeVector::verify).
WellFormed(s) ==
  /\ \A i \in DOMAIN s : s[i][1] < s[i][2]
  /\ \A i \in 2 .. Len(s) : s[i - 1][2] < s[i][1]

\* ChunkedRangeVectorBuilder::push_back of an index beyond the last range.
PushBack(s, index) ==
  IF s # << >> /\ s[Len(s)][2] = index
  THEN [s EXCEPT ![Len(s)] = <<s[Len(s)][1], index + 1>>]
  ELSE Append(s, <<index, index + 1>>)

\* The ranges of a set of indexes, pushed one by one in increasing order.
FromIndexes(S) ==
  LET end == Max(S \cup {-1}) + 1
      pushed[k \in 0 .. end] ==
        IF k = 0 THEN << >>
        ELSE IF k - 1 \in S THEN PushBack(pushed[k - 1], k - 1)
        ELSE pushed[k - 1]
  IN  pushed[end]

\* The range that holds the index, or else the first one after it.
Find(s, index) ==
  LET after == {i \in DOMAIN s : s[i][2] > index}
  IN  IF after = {} THEN Len(s) + 1 ELSE Min(after)

InSet(s, index) ==
  LET it == Find(s, index) IN it <= Len(s) /\ s[it][1] <= index

CountIn(s, from, to) ==
  LET Overlap(r) == Max({0, Min({r[2], to}) - Max({r[1], from})})
      count[k \in 0 .. Len(s)] == IF k = 0 THEN 0 ELSE count[k - 1] + Overlap(s[k])
  IN  count[Len(s)]

\* The index after the indexes of the set are inserted, and after they
\* are deleted.
ShiftIndex(s, index) ==
  LET Past(x, r) == IF r[1] > x THEN x ELSE x + (r[2] - r[1])
      shifted[k \in 0 .. Len(s)] == IF k = 0 THEN index ELSE Past(shifted[k - 1], s[k])
  IN  shifted[Len(s)]

UnshiftIndex(s, index) == index - CountIn(s, 0, index)

ShiftFrom(s, k, distance) ==
  [i \in DOMAIN s |-> IF i < k THEN s[i]
                      ELSE <<s[i][1] + distance, s[i][2] + distance>>]

\* DoAdd with a plausible bug: the index closes a gap, and the two ranges
\* are left side by side.
DoAddUnjoined(s, it, index) ==
  CASE it <= Len(s) /\ s[it][1] <= index -> s
    [] it > 1 /\ s[it - 1][2] = index -> [s EXCEPT ![it - 1] = <<s[it - 1][1], index + 1>>]
    [] OTHER -> InsertAt(s, it, <<index, index + 1>>)

DoAdd(s, it, index) ==
  LET valid  == it <= Len(s)
      after  == it > 1 /\ s[it - 1][2] = index
      before == valid /\ s[it][1] = index + 1
  IN  CASE valid /\ s[it][1] <= index -> s
        [] after /\ before -> [RemoveAt(s, it) EXCEPT ![it - 1] = <<s[it - 1][1], s[it][2]>>]
        [] after /\ ~before -> [s EXCEPT ![it - 1] = <<s[it - 1][1], index + 1>>]
        [] before /\ ~after -> [s EXCEPT ![it] = <<index, s[it][2]>>]
        [] OTHER -> InsertAt(s, it, <<index, index + 1>>)

AddIndex(s, index) == DoAdd(s, Find(s, index), index)

AddIndexes(s, other) == FromIndexes(Members(s) \cup Members(other))

\* add_shifted and the index it returns.
AddShifted(s, index) ==
  LET shifted == ShiftIndex(s, index)
  IN  [set |-> AddIndex(s, shifted), index |-> shifted]

\* AddShiftedBy with a plausible bug: no value is dropped.
AddShiftedByAll(s, shiftedBy, values) ==
  FromIndexes(Members(s) \cup
              {ShiftIndex(s, UnshiftIndex(shiftedBy, v)) : v \in Members(values)})

\* Each value counted without the indexes of shiftedBy, then with those
\* of the old set; a value that is one of shiftedBy is dropped.
AddShiftedBy(s, shiftedBy, values) ==
  FromIndexes(Members(s) \cup
              {ShiftIndex(s, UnshiftIndex(shiftedBy, v)) :
                 v \in Members(values) \ Members(shiftedBy)})

WithLength(len) == IF len = 0 THEN << >> ELSE << <<0, len>> >>

\* insert_at(index, count): a range that holds the index grows, otherwise
\* the later ranges move and the new indexes are added one by one.
InsertRange(s, index, count) ==
  LET pos == Find(s, index)
      added[k \in 0 .. count] == IF k = 0 THEN ShiftFrom(s, pos, count)
                                 ELSE AddIndex(added[k - 1], index + k - 1)
  IN  IF InSet(s, index)
      THEN [ShiftFrom(s, pos + 1, count) EXCEPT ![pos] = <<s[pos][1], s[pos][2] + count>>]
      ELSE added[count]

InsertIndexes(s, positions) ==
  FromIndexes(Members(positions) \cup
              {ShiftIndex(positions, x) : x \in Members(s)})

\* shift_for_insert_at(index, count): a range around the index is cut in two.
ShiftForInsert(s, index, count) ==
  LET it == Find(s, index)
      shifted == ShiftFrom(s, it, count)
  IN  IF it <= Len(s) /\ s[it][1] < index
      THEN InsertAt([shifted EXCEPT ![it] = <<s[it][1], index>>], it + 1,
                    <<index + count, s[it][2] + count>>)
      ELSE shifted

ShiftForInserts(s, values) ==
  FromIndexes({ShiftIndex(values, x) : x \in Members(s)})

\* DoErase with a plausible bug: a gap of one closes, and the two ranges are
\* left side by side.
DoEraseUnjoined(s, it, index) ==
  CASE s[it][1] <= index /\ s[it][1] + 1 = s[it][2] ->
         ShiftFrom(RemoveAt(s, it), it, -1)
    [] s[it][1] <= index /\ s[it][1] + 1 < s[it][2] ->
         ShiftFrom([s EXCEPT ![it] = <<s[it][1], s[it][2] - 1>>], it + 1, -1)
    [] OTHER -> ShiftFrom(s, it, -1)

DoErase(s, it, index) ==
  LET holds  == s[it][1] <= index
      single == s[it][1] + 1 = s[it][2]
      closes == ~holds /\ it > 1 /\ s[it - 1][2] + 1 = s[it][1]
  IN  CASE holds /\ single -> ShiftFrom(RemoveAt(s, it), it, -1)
        [] holds /\ ~single -> ShiftFrom([s EXCEPT ![it] = <<s[it][1], s[it][2] - 1>>], it + 1, -1)
        [] closes -> ShiftFrom([RemoveAt(s, it) EXCEPT ![it - 1] = <<s[it - 1][1], s[it][2] - 1>>], it, -1)
        [] OTHER -> ShiftFrom(s, it, -1)

EraseIndex(s, index) ==
  LET it == Find(s, index) IN IF it <= Len(s) THEN DoErase(s, it, index) ELSE s

EraseIndexes(s, positions) ==
  FromIndexes({UnshiftIndex(positions, x) : x \in Members(s) \ Members(positions)})

\* erase_or_unshift: the set without the index, and NPos for one of its
\* own, else the index counted without the set.
EraseOrUnshift(s, index) ==
  [set   |-> EraseIndex(s, index),
   index |-> IF InSet(s, index) THEN NPos ELSE UnshiftIndex(s, index)]

\* A range, unless it is empty.
Part(first, second) == IF first < second THEN << <<first, second>> >> ELSE << >>

\* remove(index, count): what is left of each range before from and after to.
RemoveRange(s, from, to) ==
  LET Rest(r) == Part(r[1], Min({r[2], from})) \o Part(Max({r[1], to}), r[2])
      left[k \in 0 .. Len(s)] == IF k = 0 THEN << >> ELSE left[k - 1] \o Rest(s[k])
  IN  left[Len(s)]

RemoveIndex(s, index) == RemoveRange(s, index, index + 1)

RemoveIndexes(s, values) ==
  LET left[k \in 0 .. Len(values)] ==
        IF k = 0 THEN s ELSE RemoveRange(left[k - 1], values[k][1], values[k][2])
  IN  left[Len(values)]
=============================================================================
