---------------------------- MODULE LiveCodingDiff ----------------------------
(***************************************************************************)
(* code_edits and changed_line_numbers of llm/live_coding.rs, and the way  *)
(* the overlay edits its text buffer with them (overlay/mod.rs).           *)
(*                                                                         *)
(* A code is the sequence of its lines, as split_inclusive gives them: a   *)
(* line is a sequence of characters of which the last is Newline, only the *)
(* last line of a code may lack it.  A text is a sequence of characters.   *)
(***************************************************************************)
EXTENDS Integers, Sequences, FiniteSets, SequencesExt, FiniteSetsExt

CONSTANT Newline

Text(code) == FlattenSeq(code)

\* str::lines
Lines(code) ==
  [i \in 1..Len(code) |-> IF Last(code[i]) = Newline THEN Front(code[i]) ELSE code[i]]

-----------------------------------------------------------------------------
(* The longest common subsequence *)

\* lengths: of what old from i on and new from j on have in common.
Lengths(old, new) ==
  LET lengths[i \in 1..(Len(old) + 1), j \in 1..(Len(new) + 1)] ==
        IF i > Len(old) \/ j > Len(new) THEN 0
        ELSE IF old[i] = new[j] THEN lengths[i + 1, j + 1] + 1
        ELSE Max({lengths[i + 1, j], lengths[i, j + 1]})
  IN  lengths

\* The lines that are kept, in their order: <<i, j>>, the i-th of old is the j-th
\* of new.
Kept(old, new) ==
  LET lengths == Lengths(old, new)
      kept[i \in 1..(Len(old) + 1), j \in 1..(Len(new) + 1)] ==
        IF i > Len(old) \/ j > Len(new) THEN <<>>
        ELSE IF old[i] = new[j] THEN <<<<i, j>>>> \o kept[i + 1, j + 1]
        ELSE IF lengths[i + 1, j] >= lengths[i, j + 1] THEN kept[i + 1, j]
        ELSE kept[i, j + 1]
  IN  kept[1, 1]

\* changed_line_numbers: when lines only went, the last one counts as changed.
ChangedLines(oldCode, newCode) ==
  LET old == Lines(oldCode)
      new == Lines(newCode)
      unchanged == {pair[2] : pair \in ToSet(Kept(old, new))}
      changed   == DOMAIN new \ unchanged
  IN  IF old = new THEN {}
      ELSE IF changed = {} /\ new # <<>> THEN {Len(new)}
      ELSE changed

\* line_offsets: the first character of the line after the k-th.
Offset(lines, k) == Len(Text(SubSeq(lines, 1, k)))

\* code_edits: one edit for each run of lines between two that are kept.
CodeEdits(old, new) ==
  LET kept == <<<<0, 0>>>> \o Kept(old, new) \o <<<<Len(old) + 1, Len(new) + 1>>>>
      edit(k) == [start       |-> Offset(old, kept[k][1]),
                  end         |-> Offset(old, kept[k + 1][1] - 1),
                  replacement |-> Text(SubSeq(new, kept[k][2] + 1, kept[k + 1][2] - 1))]
  IN  SelectSeq([k \in 1..(Len(kept) - 1) |-> edit(k)],
                LAMBDA e : e.start # e.end \/ e.replacement # <<>>)

-----------------------------------------------------------------------------
(* The text buffer of the overlay *)

\* replaced: history, the edits did not do and the buffer was set as a whole.
EmptyView == [text |-> <<>>, marked |-> {}, replaced |-> FALSE]

\* delete and insert; an offset past the end is the end.
Edited(text, edit) ==
  LET start == Min({edit.start, Len(text)})
      end   == Min({edit.end, Len(text)})
  IN  SubSeq(text, 1, start) \o edit.replacement \o SubSeq(text, end + 1, Len(text))

\* Faulty: the first edit is made first, and moves the offsets of the others.
FaultyApplied(text, edits) == FoldLeft(Edited, text, edits)

\* apply_code_edits: the last edit is made first.
Applied(text, edits) == FoldLeft(Edited, text, Reverse(edits))

\* refresh_live_coding: a buffer that shows the code is left as it is, with its
\* marks.
Refreshed(view, text, edits, changedLines) ==
  LET edited == Applied(view.text, edits) IN
  IF view.text = text
  THEN view
  ELSE [text     |-> text,
        marked   |-> changedLines,
        replaced |-> view.replaced \/ edited # text]

-----------------------------------------------------------------------------
(* What the algorithms promise, by a definition that searches *)

\* The lines of new at the places K, and of old at the places J, are the same.
Same(old, J, new, K) ==
  LET pick(lines, places) == [n \in 1..Cardinality(places) |->
                                lines[SetToSortSeq(places, <)[n]]]
  IN  Cardinality(J) = Cardinality(K) /\ pick(old, J) = pick(new, K)

LongestCommon(old, new) ==
  Max({Cardinality(K) : K \in {K \in SUBSET (DOMAIN new) :
                                 \E J \in SUBSET (DOMAIN old) : Same(old, J, new, K)}})

\* The edits turn the old text into the new one, apart from each other, and
\* leave as much of it alone as can be left; the lines that are not marked are
\* common to both, and as many as can be.
IsExact(old, new) ==
  LET edits  == CodeEdits(old, new)
      common == LongestCommon(Lines(old), Lines(new))
      plain  == DOMAIN new \ ChangedLines(old, new)
  IN  /\ Applied(Text(old), edits) = Text(new)
      /\ \A i \in 1..(Len(edits) - 1) : edits[i].end < edits[i + 1].start
      /\ Len(Kept(old, new)) = LongestCommon(old, new)
      /\ \E J \in SUBSET (DOMAIN old) : Same(Lines(old), J, Lines(new), plain)
      /\ Cardinality(plain) = common \/ (common = Len(new) /\ Cardinality(plain) = common - 1)
=============================================================================
