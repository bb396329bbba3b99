----------------------------- MODULE RttWindow ------------------------------
(***************************************************************************)
(* The sliding window of round trip times that AdaptiveTimeout,            *)
(* NetworkQualityEvaluator and HeartbeatManager each keep, and what they   *)
(* compute from it.                                                        *)
(***************************************************************************)
EXTENDS Integers, Sequences, FiniteSets, SequencesExt

\* record, record_rtt, on_pong: the oldest sample makes room for the new one.
Push(win, size, rtt) ==
    Append(IF Len(win) >= size THEN Tail(win) ELSE win, rtt)

\* Sample i is not after sample j in ascending order; equal ones keep theirs.
NotAfter(win, i, j) == win[i] < win[j] \/ (win[i] = win[j] /\ i <= j)

\* The place of sample i in ascending order.
Rank(win, i) == Cardinality({j \in DOMAIN win : NotAfter(win, j, i)})

\* sort_unstable: the samples in ascending order.
Ascending(win) ==
    [k \in DOMAIN win |-> win[CHOOSE i \in DOMAIN win : Rank(win, i) = k]]

\* ceil(0.90 * n), the place of the 90th percentile counted from 1.
P90Place(n) == (9 * n + 9) \div 10

\* The 90th percentile of a window that is not empty.
P90(win) == Ascending(win)[P90Place(Len(win))]

Total(win) == FoldSeq(+, 0, win)
Abs(n) == IF n < 0 THEN -n ELSE n

NoStats == [avg |-> 0, min |-> 0, max |-> 0, jitter |-> 0, count |-> 0]

\* RttSnapshot of a window that is not empty.
Stats(win) ==
    LET sorted == Ascending(win)
        n == Len(win)
        avg == Total(win) \div n
    IN  [avg |-> avg, min |-> sorted[1], max |-> sorted[n],
         jitter |-> Total([i \in 1..n |-> Abs(win[i] - avg)]) \div n,
         count |-> n]

-----------------------------------------------------------------------------
(* Reference definition.                                                   *)

\* The samples of win that are at most rtt.
UpTo(win, rtt) == {i \in DOMAIN win : win[i] <= rtt}

\* rtt is the 90th percentile of win: at least nine tenths of the samples are
\* no greater, and of no smaller sample is that true.
IsP90(rtt, win) ==
    /\ \E i \in DOMAIN win : win[i] = rtt
    /\ 10 * Cardinality(UpTo(win, rtt)) >= 9 * Len(win)
    /\ \A i \in DOMAIN win :
           win[i] < rtt => 10 * Cardinality(UpTo(win, win[i])) < 9 * Len(win)
=============================================================================
