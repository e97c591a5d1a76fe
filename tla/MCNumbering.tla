---------------------------- MODULE MCNumbering ----------------------------
(***************************************************************************)
(* Instances of Numbering for TLC: the dates, masks and settings edits the *)
(* configurations choose from.                                             *)
(***************************************************************************)
EXTENDS Numbering, TLC

CONSTANTS w1, w2

\* The end of one financial year and the start of the next, a year that opens
\* in January and one that opens in April, and a second month.
NewYearsEve  == [year |-> 2026, month |-> 12, day |-> 31]
NewYearsDay  == [year |-> 2027, month |-> 1, day |-> 1]
LateMarch    == [year |-> 2026, month |-> 3, day |-> 31]
EarlyApril   == [year |-> 2026, month |-> 4, day |-> 1]

TwoYears     == {NewYearsEve, NewYearsDay}
AroundApril  == {LateMarch, EarlyApril}
OneDay       == {EarlyApril}

\* Masks: JNL-{YYYY}-##### as shipped for journals, one without a date.
Dated   == [literal |-> "JNL", parts |-> {"YYYY"}]
Plain   == [literal |-> "INV", parts |-> {}]
Monthly == [literal |-> "INV", parts |-> {"YY", "MM", "DD", "FY"}]

Settings(reset, mask, start) ==
    [reset |-> reset, mask |-> mask, start |-> start, active |-> TRUE]
SwitchedOff(s) == [s EXCEPT !.active = FALSE]

\* What config/numbering/books.toml ships for journals.
Journals  == Settings("fiscal_year", Dated, 1)

\* An administrator who changes the format and the reset period, back again, or
\* pauses the series.
Reshape == {Settings("fiscal_year", Dated, 1), Settings("monthly", Monthly, 3),
            Settings("daily", Plain, 2), SwitchedOff(Journals)}
\* One who makes a single change.
OneReshape == {Settings("yearly", Dated, 2)}
NoEdits    == {}

TwoWriters == {w1, w2}
Symmetry == Permutations(TwoWriters)
=============================================================================
