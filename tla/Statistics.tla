------------------------------ MODULE Statistics ------------------------------
(***************************************************************************)
(* The statistics a verdict, a finding or a published figure rests on:      *)
(* anomaly detectors, changepoints, segment contributions and correlations  *)
(* (analysis/src/primitives.ts), the k-anonymous benchmark (benchmark.ts),  *)
(* the sequential test (experiments/src/sequential.ts) and the alerts that  *)
(* read a series or scores (analysis-agent/src/alerts.ts).                  *)
(*                                                                         *)
(* A daily series grows by one value or gap at a time.  Values count a unit *)
(* that a double need not represent (0.1), so what the code computes from   *)
(* them is rounded: a comparison of computed figures whose exact values     *)
(* differ comes out right, one of equal values may come out either way.     *)
(* Such an operator is the set of the answers the code may give.            *)
(***************************************************************************)
EXTENDS Integers, Sequences, FiniteSets, SequencesExt, FiniteSetsExt

CONSTANTS
    Values,       \* integers a day may have
    Gap,          \* an integer apart from them that stands for null
    MaxDays,      \* bound on the series
    Radius        \* csRadius per number of samples, in thousandths

VARIABLE series

Sum(s) == FoldLeft(LAMBDA a, b : a + b, 0, s)
Squares(s) == FoldLeft(LAMBDA a, b : a + b * b, 0, s)
Abs(n) == IF n < 0 THEN -n ELSE n
\* The answers to x > y of two computed figures.
Greater(x, y) == IF x = y THEN BOOLEAN ELSE {x > y}
MeanN(s) == Sum(s)                              \* mean, times Len(s)
VarN(s) == Len(s) * Squares(s) - Sum(s) * Sum(s)  \* variance, times Len(s) squared
Sorted(s) == SortSeq(s, LAMBDA a, b : a < b)
Map(f(_), s) == [i \in DOMAIN s |-> f(s[i])]
\* Twice the median.
Median2(s) ==
    LET o == Sorted(s)
        mid == Len(s) \div 2
    IN  IF Len(s) % 2 = 1 THEN 2 * o[mid + 1] ELSE o[mid] + o[mid + 1]
\* Four times the quantile of q quarters.
Quantile4(o, q) ==
    LET lo == ((Len(o) - 1) * q) \div 4
        part == ((Len(o) - 1) * q) % 4
    IN  4 * o[lo + 1] + (IF part = 0 THEN 0 ELSE (o[lo + 2] - o[lo + 1]) * part)
-----------------------------------------------------------------------------
MIN_BASELINE == 5

\* Mutant: a value is judged against a history it is part of.
History_WithToday(s, i) == SelectSeq(SubSeq(s, 1, i), LAMBDA v : v # Gap)
History(s, i) == SelectSeq(SubSeq(s, 1, i - 1), LAMBDA v : v # Gap)

\* The three judges, with their default thresholds 3, 3.5 and 1.5: the answers each may give.
\* A median of equal values is exact; a rounded mean is one deviation from an even history.
ZScore(v, h) ==
    LET d == Len(h) * v - MeanN(h)
    IN  IF VarN(h) = 0 THEN {d # 0} ELSE Greater(d * d, 9 * VarN(h))
Mad(v, h) ==
    LET med == Median2(h)
        mad == Median2(Map(LAMBDA x : Abs(2 * x - med), h))
    IN  IF mad = 0 THEN {2 * v # med} ELSE Greater(2 * 6745 * Abs(2 * v - med), 35000 * mad)
Iqr(v, h) ==
    LET q1 == Quantile4(Sorted(h), 1)
        q3 == Quantile4(Sorted(h), 3)
        iqr == q3 - q1
    IN  IF iqr = 0 THEN {4 * v # q1}
        ELSE {low \/ high : low \in Greater(2 * q1 - 3 * iqr, 8 * v),
                            high \in Greater(8 * v, 2 * q3 + 3 * iqr)}
Judged(method, v, h) ==
    CASE method = "z" -> ZScore(v, h)
      [] method = "mad" -> Mad(v, h)
      [] method = "iqr" -> Iqr(v, h)
Detect(method, s, i) ==
    CASE s[i] = Gap -> {"gap"}
      [] s[i] # Gap /\ Len(History(s, i)) < MIN_BASELINE -> {"insufficient"}
      [] OTHER -> {IF j THEN "anomalous" ELSE "normal" : j \in Judged(method, s[i], History(s, i))}

\* The squared significance of a split, as a ratio; a zero denominator is Infinity, and a split
\* of a flat series, 0 to 0, may have any: the two means and deviations differ by rounding alone.
Shift(s, split) ==
    LET before == SubSeq(s, 1, split)
        after == SubSeq(s, split + 1, Len(s))
        b == Len(before)
        a == Len(after)
        d == Sum(after) * b - Sum(before) * a
    IN  [index |-> split, num |-> d * d * a * b,
         den |-> VarN(before) * a * a * a + VarN(after) * b * b * b]
Beats(x, y) == x.num * y.den > y.num * x.den
\* The indices at which a shift may be reported, 0 for none: a split that may clear the floor
\* of 3 and that none which surely does beats.
DetectChangepoint(s) ==
    LET shifts == {Shift(s, split) : split \in 3..(Len(s) - 3)}
        clear == {x \in shifts : x.num > 9 * x.den}
        possible == {x \in shifts : x.num >= 9 * x.den}
    IN  {x.index : x \in {y \in possible : \A z \in clear : ~Beats(z, y)}}
        \cup (IF clear = {} THEN {0} ELSE {})

\* Segments are [key -> [before, after]]; a share is out of the total change.
RankSegmentContributions(segments) ==
    LET delta == [k \in DOMAIN segments |-> segments[k].after - segments[k].before]
    IN  [share |-> [k \in DOMAIN segments |-> Abs(delta[k])],
         total |-> MapThenSumSet(LAMBDA k : Abs(delta[k]), DOMAIN segments)]

\* The coefficients that may be reported, each as the covariance and the product of the
\* variances; <<>> when the candidate is excluded.  A constant series is excluded only when its
\* mean is exact: otherwise each day deviates by the same rounding, which goes with nothing,
\* or wholly with that of another constant series.
Correlation(target, candidate) ==
    LET len == Min({Len(target), Len(candidate)})
        pairs == SelectSeq([i \in 1..len |-> <<target[i], candidate[i]>>],
                           LAMBDA p : p[1] # Gap /\ p[2] # Gap)
        n == Len(pairs)
        xs == Map(LAMBDA p : p[1], pairs)
        ys == Map(LAMBDA p : p[2], pairs)
        cov == n * Sum(Map(LAMBDA p : p[1] * p[2], pairs)) - Sum(xs) * Sum(ys)
        Rank(c, vars) == <<[cov |-> c, vars |-> vars, n |-> n]>>
    IN  CASE n < 3 -> {<<>>}
          [] n >= 3 /\ VarN(xs) * VarN(ys) # 0 -> {Rank(cov, VarN(xs) * VarN(ys))}
          [] OTHER -> {<<>>} \cup {Rank(c, 1) : c \in IF VarN(xs) = VarN(ys) THEN {-1, 1} ELSE {0}}
-----------------------------------------------------------------------------
DEFAULT_K == 5
ComputeBenchmark(contributions, own) ==
    LET n == Len(contributions)
        below == Len(SelectSeq(contributions, LAMBDA v : v < own))
        percent == (200 * below + n) \div (2 * n)
    IN  IF n < DEFAULT_K THEN [suppressed |-> TRUE, n |-> n]
        ELSE [suppressed |-> FALSE, n |-> n, mean |-> Sum(contributions), var |-> VarN(contributions),
              own_percentile |-> IF percent = 0 THEN 1 ELSE percent]

\* An arm is its number of samples and their sum; the interval is effect -+ both radii.
\* The decisions that may be made.
Decision(control, variant) ==
    LET effect == 1000 * (variant.sum * control.n - control.sum * variant.n)
        radius == (Radius[control.n] + Radius[variant.n]) * control.n * variant.n
    IN  IF control.n = 0 \/ variant.n = 0 THEN {"inconclusive"}
        ELSE {IF ship THEN "ship" ELSE IF revert THEN "revert" ELSE "inconclusive" :
                  ship \in Greater(effect - radius, 0), revert \in Greater(0, effect + radius)}
Arm(values) == [n |-> Len(values), sum |-> Sum(values)]
\* The experiment agent observes the arms in pairs, up to the shorter one.
RunSequence(control, variant) ==
    LET n == Min({Len(control), Len(variant)})
    IN  Decision(Arm(SubSeq(control, 1, n)), Arm(SubSeq(variant, 1, n)))

\* Whether an alert may fire: on the last value of a series, on a drop of the mean score.
EvaluateAnomalyAlert(s) == s # <<>> /\ "anomalous" \in Detect("z", s, Len(s))
EvaluateEvalRegressionAlert(current, previous, maxDrop) ==
    /\ current # <<>> /\ previous # <<>>
    /\ TRUE \in Greater(Sum(previous) * Len(current) - Sum(current) * Len(previous),
                        maxDrop * Len(current) * Len(previous))
-----------------------------------------------------------------------------
Init == series = <<>>
Observe(v) == Len(series) < MaxDays /\ series' = Append(series, v)
Next == \E v \in Values \cup {Gap} : Observe(v)
Spec == Init /\ [][Next]_series
-----------------------------------------------------------------------------
Known == SelectSeq(series, LAMBDA v : v # Gap)

\* A gap changes no verdict, nor does the order of the days before, nor where zero is, unless
\* the score is the threshold itself; and whatever the rounding, a value equal to an even
\* history is no anomaly, one apart from it is.
VerdictsRight ==
    \A i \in {Len(series)} \ {0} : \A method \in {"z", "mad", "iqr"} :
        LET h == History(series, i)
            seen == Range(h)
        IN  series[i] # Gap =>
            /\ Detect(method, series, i) = Detect(method, Known, Len(Known))
            /\ Detect(method, series, i) = Detect(method, Append(Reverse(h), series[i]), Len(h) + 1)
            /\ Len(h) >= MIN_BASELINE =>
                /\ Judged(method, series[i], h) = Judged(method, series[i] + 7, Map(LAMBDA x : x + 7, h))
                /\ Judged(method, series[i], h) = Judged(method, -series[i], Map(LAMBDA x : -x, h))
                /\ Cardinality(seen) = 1 => Judged(method, series[i], h) = {series[i] \notin seen}
            /\ Len(h) < MIN_BASELINE => Detect(method, series, i) = {"insufficient"}
\* A step with three days on each side is found, and where it is; one day apart from the rest
\* is no shift; and the series backwards has its changepoints in the same places.  Of a flat
\* series nothing is claimed: rounding alone may give it one, against primitives.ts:131-132.
ChangepointRight ==
    LET found == DetectChangepoint(Known)
        Even(s) == Cardinality(Range(s)) = 1
        IsStep(i) == /\ Even(SubSeq(Known, 1, i)) /\ Even(SubSeq(Known, i + 1, Len(Known)))
                     /\ Known[i] # Known[i + 1]
    IN  /\ \A i \in 3..(Len(Known) - 3) : IsStep(i) => found = {i}
        /\ \A i \in DOMAIN Known :
                Even(RemoveAt(Known, i)) /\ ~Even(Known) => found = {0}
        /\ DetectChangepoint(Reverse(Known)) = {IF i = 0 THEN 0 ELSE Len(Known) - i : i \in found}
\* Shares make up the change; a correlation is within -1..1, of three days or more, the same
\* both ways, and 1 of a series that varies with itself.
AttributionRight ==
    LET half == Len(series) \div 2
        segments == [i \in 1..half |-> [before |-> series[i], after |-> series[half + i]]]
        ranked == RankSegmentContributions(segments)
        head == SubSeq(series, 1, half)
        tail == SubSeq(series, half + 1, Len(series))
    IN  /\ MapThenSumSet(LAMBDA k : ranked.share[k], 1..half) = ranked.total
        /\ Correlation(head, tail) = Correlation(tail, head)
        /\ \A c \in Correlation(head, tail) :
                c # <<>> => c[1].cov * c[1].cov <= c[1].vars /\ c[1].n >= 3
        /\ Cardinality(Range(Known)) > 1 /\ Len(Known) >= 3 =>
                \A self \in Correlation(series, series) :
                    self # <<>> /\ self[1].cov * self[1].cov = self[1].vars /\ self[1].cov > 0
\* No figure of fewer than k contributors; a position is 1 to 100 and grows with the value.
FiguresRight ==
    \A own, other \in Values :
        LET mine == ComputeBenchmark(Known, own)
        IN  IF Len(Known) < DEFAULT_K THEN DOMAIN mine = {"suppressed", "n"}
            ELSE /\ mine.own_percentile \in 1..100
                 /\ own <= other => mine.own_percentile <= ComputeBenchmark(Known, other).own_percentile
\* Arms exchanged exchange ship and revert; a better variant than one that may ship ships; and
\* what an arm has in excess of the other is not read.
DecisionsRight ==
    LET Arms == {[n |-> n, sum |-> n * f] : n \in DOMAIN Radius, f \in {0, 1}}
        Other == [ship |-> "revert", revert |-> "ship", inconclusive |-> "inconclusive"]
        Exchanged(decisions) == {Other[d] : d \in decisions}
    IN  /\ \A a, b \in Arms :
            /\ Decision(b, a) = Exchanged(Decision(a, b))
            /\ "ship" \in Decision(a, b) =>
                    \A more \in (b.sum + 1)..b.n : Decision(a, [b EXCEPT !.sum = more]) = {"ship"}
        /\ \A successes \in {11, 12} :
            LET zeros == [i \in 1..12 |-> 0]
                mixed == [i \in 1..12 |-> IF i <= successes THEN 1 ELSE 0]
            IN  /\ RunSequence(zeros \o series, mixed) = RunSequence(zeros, mixed)
                /\ RunSequence(mixed, zeros) = Exchanged(RunSequence(zeros, mixed \o series))
\* An anomaly alert needs a baseline and a move; scores that dropped one way did not drop the
\* other, and an alert needs a current score below a previous one.
AlertsRight ==
    LET half == Len(Known) \div 2
        previous == SubSeq(Known, 1, half)
        current == SubSeq(Known, half + 1, Len(Known))
    IN  /\ EvaluateAnomalyAlert(Known) =>
                Len(Known) > MIN_BASELINE /\ Cardinality(Range(Known)) > 1
        /\ \A drop \in {1, 2} : EvaluateEvalRegressionAlert(current, previous, drop) =>
                /\ ~EvaluateEvalRegressionAlert(previous, current, drop)
                /\ \E i \in DOMAIN previous, k \in DOMAIN current : current[k] < previous[i]
StatisticsRight ==
    /\ VerdictsRight /\ ChangepointRight /\ AttributionRight /\ FiguresRight
    /\ DecisionsRight /\ AlertsRight
=============================================================================
