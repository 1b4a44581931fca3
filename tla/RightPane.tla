----------------------------- MODULE RightPane -----------------------------
(***************************************************************************)
(* The scrolling of the right pane, src/src/ui/panels/right.rs.  A frame   *)
(* lays the sections out one below the other, an empty row after each and  *)
(* a separator before each but the first (sections_view); scroll_offset    *)
(* then picks the first row on display.  Rows count from 0.                *)
(***************************************************************************)
EXTENDS Integers, Sequences

Lower(a, b) == IF a <= b THEN a ELSE b
Higher(a, b) == IF a <= b THEN b ELSE a

\* saturating_sub
Monus(a, b) == IF a <= b THEN 0 ELSE a - b

\* render_section: the title, the values and, with education on, the prose.
SectionHeight(value_rows, education, details) ==
  1 + value_rows + (IF education THEN 1 + details ELSE 0)

\* The first row of section i, when the sections have these heights.
Starts(heights) ==
  LET start[i \in 1..Len(heights)] == IF i = 1 THEN 0 ELSE start[i - 1] + heights[i - 1] + 2
  IN  start

Start(heights, i) == Starts(heights)[i]

\* total_rows: without the empty row after the last section.
TotalRows(heights) ==
  IF heights = << >> THEN 0 ELSE Start(heights, Len(heights)) + heights[Len(heights)]

PEEK == 3
U16_MAX == 65535

\* The first row that leaves the section and, if it fits, a glimpse of the next at the bottom.
Desired(start, height, inner_h) ==
  IF height + PEEK <= inner_h THEN Monus(start + height + PEEK, inner_h)
  ELSE IF height <= inner_h THEN Monus(start + height, inner_h)
  ELSE start

\* Fault: the glimpse is wanted of every section, and nothing holds the title in view.
ScrollOffsetUnheld(start, height, total, inner_h) ==
  Lower(Monus(start + height + PEEK, inner_h), Monus(total, inner_h))

ScrollOffset(start, height, total, inner_h) ==
  IF inner_h = 0 THEN 0
  ELSE LET lowest == Higher(Desired(start, height, inner_h), Monus(start, inner_h - 1))
       IN  Lower(Lower(Lower(lowest, Monus(total, inner_h)), start), U16_MAX)

-----------------------------------------------------------------------------
(* What the pane is for, as scroll_offset's comment has it: the selected   *)
(* section is in view.  Its title row is, all of it when it fits, and the  *)
(* pane does not run past the last row.                                    *)
TitleVisible(scroll, start, inner_h) == scroll <= start /\ start < scroll + inner_h

WholeVisible(scroll, start, height, inner_h) ==
  height <= inner_h => start + height <= scroll + inner_h

NotPastTheEnd(scroll, total, inner_h) == scroll <= Monus(total, inner_h)

InView(scroll, start, height, total, inner_h) ==
  /\ TitleVisible(scroll, start, inner_h)
  /\ WholeVisible(scroll, start, height, inner_h)
  /\ NotPastTheEnd(scroll, total, inner_h)
=============================================================================
