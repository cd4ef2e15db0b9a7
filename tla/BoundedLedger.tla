---------------------------- MODULE BoundedLedger ----------------------------
(* The window both Linux plugins keep of what they recorded: the newest       *)
(* records, how many there were, and how many of them were dropped.           *)
EXTENDS Naturals, Sequences

NewLedger(max) == [records |-> <<>>, dropped |-> 0, total |-> 0, max |-> max]

\* The last n records of a sequence of them.
LastOf(n, records) == SubSeq(records, Len(records) - n + 1, Len(records))

\* Mutant of Pushed: nothing is dropped before the window is over full.
PushedLate(l, record) ==
  LET full == Len(l.records) > l.max
  IN  [l EXCEPT !.total = @ + 1,
                !.records = Append(IF full THEN Tail(@) ELSE @, record),
                !.dropped = IF full THEN @ + 1 ELSE @]

\* The oldest record goes when the window is full.
Pushed(l, record) ==
  LET full == Len(l.records) >= l.max
  IN  [l EXCEPT !.total = @ + 1,
                !.records = Append(IF full THEN Tail(@) ELSE @, record),
                !.dropped = IF full THEN @ + 1 ELSE @]

\* Mutant of Resized: room left is counted as dropped.
ResizedUnchecked(l, max) ==
  [l EXCEPT !.max = max,
            !.records = IF Len(@) <= max THEN @ ELSE LastOf(max, @),
            !.dropped = @ + Len(l.records) - max]

\* The oldest records go until the rest fits.
Resized(l, max) ==
  IF Len(l.records) <= max THEN [l EXCEPT !.max = max]
  ELSE [l EXCEPT !.max = max, !.records = LastOf(max, l.records),
                 !.dropped = @ + Len(l.records) - max]
=============================================================================
