----------------------------- MODULE MCSelftest -----------------------------
(***************************************************************************)
(* Selftest on small machines.                                             *)
(***************************************************************************)
EXTENDS Selftest, SequencesExt

MCRecords == [fan : Fans, value : {0, 1}, outcome : Outcomes]
MCZeroRecord == [fan |-> 0, value |-> 0, outcome |-> "match"]

\* The reference for the median: the samples are sorted, and the middle one taken,
\* or the two middle ones added.
SortedMedian(s) ==
    LET t == SortSeq(s, <)
        n == Len(s)
    IN  IF n = 0 THEN 0
        ELSE IF n % 2 = 1 THEN 2 * t[n \div 2 + 1] ELSE t[n \div 2] + t[n \div 2 + 1]

\* A third speed, between the others: the run itself has only two.
MoreSpeeds == {0, 1200, 2300}
Wide == INSTANCE Selftest WITH Speeds <- MoreSpeeds

BagOf(s) == [v \in MoreSpeeds |-> Cardinality({i \in DOMAIN s : s[i] = v})]

\* Up to five samples of every kind, in every order.
ASSUME MedianAsSorted ==
    \A s \in UNION {[1 .. n -> MoreSpeeds] : n \in 0 .. 5} :
        Wide!TwiceMedian(BagOf(s)) = SortedMedian(s)
=============================================================================
