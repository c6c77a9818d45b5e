------------------------------- MODULE Replay -------------------------------
(***************************************************************************)
(* kvreplay: feeds the transfers of kvxfer's CSV, in order, to learners    *)
(* that start from one belief, and writes what each expected of every      *)
(* transfer before it saw the time.                                        *)
(***************************************************************************)
EXTENDS Recording

CONSTANT Alphas         \* how fast the learners move

(* NewLine and NewEWMA insist on it.                                       *)
ASSUME AlphasAssumption ==
    \A alpha \in Alphas : IsFraction(alpha) /\ Zero \prec alpha /\ alpha \preceq One

VARIABLES
    learners,       \* a line and an EWMA for each alpha
    predictions     \* what they predicted of the rows read so far

rvars == <<rows, learners, predictions>>

RInit(files) ==
    /\ rows \in files
    /\ learners = [lr \in {"line", "ewma"} \X Alphas |->
                      IF lr[1] = "line" THEN NewLine(lr[2], Initial) ELSE NewEWMA(lr[2], Initial)]
    /\ predictions = <<>>

Read == Len(predictions)

(* One turn of replay's loop over the rows: every learner predicts, then   *)
(* observes.                                                               *)
ReplayRow ==
    /\ Read < Len(rows)
    /\ LET r == rows[Read + 1] IN
         /\ predictions' = Append(predictions,
                [lr \in DOMAIN learners |-> Predicted(learners[lr], r.bytes)])
         /\ learners' = [lr \in DOMAIN learners |-> Observe(learners[lr], r.bytes, r.seconds)]
    /\ UNCHANGED rows

-----------------------------------------------------------------------------
(* Whatever was observed, no transfer is believed to take no time or less, *)
(* and none to start before it is asked for: the cost model would reject   *)
(* such a belief and end the run.                                          *)
BeliefIsPositive ==
    \A lr \in DOMAIN learners :
        Zero \preceq learners[lr].startup /\ Zero \prec learners[lr].secondsPerByte

(* The sum over the rows read of x[i], each row i weighted by how often it *)
(* faded.                                                                  *)
Power(x, n) == LET p[i \in 0..n] == IF i = 0 THEN One ELSE p[i - 1] \otimes x IN p[n]

Weighted(alpha, x) == Sum(LAMBDA i : Power(One \ominus alpha, Read - i) \otimes x[i], Read)

(* A line's belief is the weighted least squares line of the rows read, by *)
(* the normal equations, or at least leaves the rows no shorter and no     *)
(* longer than they were on the whole.  That it is not the optimum has one *)
(* of three reasons: rows too much alike in size, an optimum that does not *)
(* rise, or one whose startup is negative.                                 *)
BeliefIsLeastSquares ==
    \A alpha \in Alphas : Read > 0 =>
        LET l == learners[<<"line", alpha>>]
            bytes == [i \in DOMAIN rows |-> rows[i].bytes]
            seconds == [i \in DOMAIN rows |-> rows[i].seconds]
            residual == [i \in DOMAIN rows |-> seconds[i] \ominus
                            (l.startup \oplus (l.secondsPerByte \otimes bytes[i]))]
            w == Weighted(alpha, [i \in DOMAIN rows |-> One])
            b == Weighted(alpha, bytes) \oslash w
            s == Weighted(alpha, seconds) \oslash w
            var == Weighted(alpha, [i \in DOMAIN rows |->
                                       (bytes[i] \ominus b) \otimes (bytes[i] \ominus b)])
            cov == Weighted(alpha, [i \in DOMAIN rows |->
                                       (bytes[i] \ominus b) \otimes (seconds[i] \ominus s)])
        IN  /\ Weighted(alpha, residual) = Zero
            /\ \/ Weighted(alpha, [i \in DOMAIN rows |-> bytes[i] \otimes residual[i]]) = Zero
               \/ (Whole(100) \otimes var) \prec (w \otimes (b \otimes b))
               \/ cov \preceq Zero
               \/ (s \otimes var) \prec (b \otimes cov)

(* A rate that neither fades the row before the last too fast nor the ones *)
(* before it too slowly, as those of kvreplay are, 0.1 and 0.5.            *)
Tells(alpha) ==
    (Whole(5) \ominus alpha) \preceq (Whole(100) \otimes (alpha \otimes (One \ominus alpha)))

(* A network that is a line is learned as soon as a row is twice as large  *)
(* as the one before it or the one after it, and not forgotten, although   *)
(* the rows that follow may be too much alike to tell it from others.      *)
LearnsTheLine ==
    \A alpha \in Alphas, i, j \in 1..Read :
        LET slope == (rows[j].seconds \ominus rows[i].seconds)
                        \oslash (rows[j].bytes \ominus rows[i].bytes)
            startup == rows[i].seconds \ominus (slope \otimes rows[i].bytes)
            l == learners[<<"line", alpha>>]
        IN  /\ Tells(alpha)
            /\ i - j \in {-1, 1} /\ (Whole(2) \otimes rows[i].bytes) \preceq rows[j].bytes
            /\ Zero \prec slope /\ Zero \preceq startup
            /\ \A k \in 1..Read : rows[k].seconds = startup \oplus (slope \otimes rows[k].bytes)
            => l.startup = startup /\ l.secondsPerByte = slope
=============================================================================
