------------------------------ MODULE NetTrace ------------------------------
(***************************************************************************)
(* Package internal/nettrace: the rows of a recorded run as bandwidth over *)
(* time.  Segment i ends at ends[i] and has rate rates[i]; the last one    *)
(* never ends.                                                             *)
(***************************************************************************)
EXTENDS Rational, Sequences

(* FromRows fails without rows or with one that is not positive.           *)
ValidRows(rows) ==
    rows # <<>> /\ \A i \in DOMAIN rows : Zero \prec rows[i].bytes /\ Zero \prec rows[i].seconds

FromRows(rows) ==
    LET end[i \in 0..Len(rows)] == IF i = 0 THEN Zero ELSE end[i - 1] \oplus rows[i].seconds
    IN  [ends  |-> [i \in DOMAIN rows |-> end[i]],
         rates |-> [i \in DOMAIN rows |-> rows[i].bytes \oslash rows[i].seconds]]

Last(tr) == Len(tr.ends)
Duration(tr) == tr.ends[Last(tr)]

(* A time on a boundary belongs to the segment that starts there.          *)
Segment(tr, at) ==
    CHOOSE i \in 1..Last(tr) :
        /\ i = Last(tr) \/ at \prec tr.ends[i]
        /\ \A j \in 1..i - 1 : tr.ends[j] \preceq at

(* Mutant: what is left is sent at the rate of the segment it started in.  *)
SendTimeFirstRate(tr, at, bytes) == bytes \oslash tr.rates[Segment(tr, at)]

(* How long bytes take when they start at this time.  left[i] of them are  *)
(* still to send when segment i begins to carry them, at now(i).           *)
SendTime(tr, at, bytes) ==
    LET first == Segment(tr, at)
        now(i) == IF i = first THEN at ELSE tr.ends[i - 1]
        fits(i) == (tr.ends[i] \ominus now(i)) \otimes tr.rates[i]
        left[i \in first..Last(tr)] ==
            IF i = first THEN bytes ELSE left[i - 1] \ominus fits(i - 1)
        ends == CHOOSE i \in first..Last(tr) :
                    /\ i = Last(tr) \/ left[i] \preceq fits(i)
                    /\ \A j \in first..i - 1 : fits(j) \prec left[j]
    IN  (now(ends) \oplus (left[ends] \oslash tr.rates[ends])) \ominus at
=============================================================================
