---------------------------- MODULE CalibrationFit ----------------------------
(***************************************************************************)
(* Fitting a calibrator: FitCalibrator's choice between Platt scaling and  *)
(* isotonic regression, both fits, and HandleCalibrationFit, which splits  *)
(* the labelled scores, fits one part and keeps the other to measure on.   *)
(*                                                                         *)
(* A label is a score, in units, with whether the pair is a match.  What   *)
(* the code computes in floats is a fraction [num, den] here.              *)
(***************************************************************************)
EXTENDS Integers, Sequences, FiniteSets, SequencesExt, FiniteSetsExt, Sorting

CONSTANTS
  FitThresholdObservations,    \* from here on the fit is isotonic
  MinCalibrationObservations,
  HoldoutEvery                 \* one label of so many is held out

ASSUME FitAssumption ==
  /\ FitThresholdObservations \in Nat /\ MinCalibrationObservations \in Nat
  /\ HoldoutEvery \in Nat \ {0}

----------------------------------------------------------------------------
(* Fractions with a positive denominator. *)

Frac(n, d)       == [num |-> n, den |-> d]
Exceeds(p, q)    == p.num * q.den > q.num * p.den
SameFrac(p, q)   == p.num * q.den = q.num * p.den

Matches(labels)    == {i \in DOMAIN labels : labels[i].match}
NonMatches(labels) == DOMAIN labels \ Matches(labels)
Sum(labels, S, value(_)) == MapThenSumSet(LAMBDA i : value(labels[i]), S)

----------------------------------------------------------------------------
(* fitIsotonic: the labels are grouped by score, and adjacent groups whose *)
(* shares of matches fall are pooled.                                      *)

Scores(labels) ==
  LET scores == {labels[i].score : i \in DOMAIN labels} IN InOrder(scores, Rising(scores))

\* A block is known by its last score.
PointOf(labels, s) ==
  [score |-> s,
   pos |-> Cardinality({i \in Matches(labels) : labels[i].score = s}),
   neg |-> Cardinality({i \in NonMatches(labels) : labels[i].score = s})]
Points(labels) == [i \in DOMAIN Scores(labels) |-> PointOf(labels, Scores(labels)[i])]

Share(b)     == Frac(b.pos, b.pos + b.neg)
Pooled(b, c) == [score |-> c.score, pos |-> b.pos + c.pos, neg |-> b.neg + c.neg]

\* One pass: a block that was just pooled is compared with its next neighbour
\* at once, and never with the one before it.
Take(blocks, c) ==
  IF blocks # << >> /\ Exceeds(Share(Last(blocks)), Share(c))
    THEN Append(Front(blocks), Pooled(Last(blocks), c))
    ELSE Append(blocks, c)
Pass(blocks) ==
  LET taken[n \in 0 .. Len(blocks)] ==
        IF n = 0 THEN << >> ELSE Take(taken[n - 1], blocks[n])
  IN taken[Len(blocks)]

\* A fit that pools in a single pass.
PassOnce(blocks) == Pass(blocks)

\* Passes are repeated until one pools nothing; each pools a block at least.
PassUntilNoneMerges(blocks) ==
  LET after[n \in 0 .. Len(blocks)] == IF n = 0 THEN blocks ELSE Pass(after[n - 1])
  IN after[Len(blocks)]

FitIsotonic(labels) == PassUntilNoneMerges(Points(labels))

\* IsotonicCalibrator.Calibrate: linear between the blocks' last scores, flat outside.
Between(b, c, s) ==
  LET width == c.score - b.score  up == s - b.score
      p == Share(b)  q == Share(c)
  IN Frac(p.num * q.den * width + (q.num * p.den - p.num * q.den) * up, p.den * q.den * width)

CalibrateIsotonic(blocks, s) ==
  IF s <= blocks[1].score THEN Share(blocks[1])
  ELSE IF s >= Last(blocks).score THEN Share(Last(blocks))
  ELSE LET i == CHOOSE j \in 1 .. Len(blocks) - 1 :
                  blocks[j].score <= s /\ s < blocks[j + 1].score
       IN Between(blocks[i], blocks[i + 1], s)

----------------------------------------------------------------------------
(* fitPlatt, from its start at a = b = 0, where every p is a half and every *)
(* weight a quarter.  The step solves hessian * delta = gradient; the line  *)
(* search halves it until the loss on the labels does not grow.  The loss   *)
(* is convex, so a step is taken if and only if the loss falls along it     *)
(* (its gradient times delta is positive, a step being minus delta), and a  *)
(* fit whose first step is not taken stays where it is in every iteration.  *)

Each(label)    == 1
ScoreOf(label) == label.score
SquareOf(label) == label.score * label.score

\* 4 times the Hessian.
HessAA(labels) == Sum(labels, DOMAIN labels, SquareOf)
HessAB(labels) == Sum(labels, DOMAIN labels, ScoreOf)
HessBB(labels) == Len(labels)
Det(labels)    == HessAA(labels) * HessBB(labels) - HessAB(labels) * HessAB(labels)

\* The sum of p - target, times 2 (nPos + 2)(nNeg + 2); the targets are
\* (nPos + 1) / (nPos + 2) and 1 / (nNeg + 2).
SumOfDiffs(labels, value(_)) ==
  LET nPos == Cardinality(Matches(labels))  nNeg == Cardinality(NonMatches(labels)) IN
  nNeg * (nPos + 2) * Sum(labels, NonMatches(labels), value)
    - nPos * (nNeg + 2) * Sum(labels, Matches(labels), value)

GradA(labels) == SumOfDiffs(labels, ScoreOf)
GradB(labels) == SumOfDiffs(labels, Each)

DeltaA(labels) == HessBB(labels) * GradA(labels) - HessAB(labels) * GradB(labels)
DeltaB(labels) == HessAA(labels) * GradB(labels) - HessAB(labels) * GradA(labels)

\* Twice the gradient of the loss: label - p for every label.
LossA(labels) == Sum(labels, Matches(labels), ScoreOf) - Sum(labels, NonMatches(labels), ScoreOf)
LossB(labels) == Cardinality(Matches(labels)) - Cardinality(NonMatches(labels))

StepIsTaken(labels) ==
  /\ Det(labels) # 0
  /\ LossA(labels) * DeltaA(labels) + LossB(labels) * DeltaB(labels) > 0

\* moved: a and b are no longer zero, where every score is calibrated to a half.
FitPlatt(labels) == [type |-> "platt", moved |-> StepIsTaken(labels)]

----------------------------------------------------------------------------
(* FitCalibrator. *)

NoModel == [type |-> "none"]

FitCalibrator(labels) ==
  IF Matches(labels) = {} \/ NonMatches(labels) = {} THEN NoModel
  ELSE IF Len(labels) < FitThresholdObservations THEN FitPlatt(labels)
  ELSE [type |-> "isotonic", blocks |-> FitIsotonic(labels)]

----------------------------------------------------------------------------
(* HandleCalibrationFit. *)

IsHeldOut(i) == i % HoldoutEvery = 0
SplitObservations(labels) ==
  [train   |-> Picked(labels, {i \in DOMAIN labels : ~IsHeldOut(i)}),
   holdout |-> Picked(labels, {i \in DOMAIN labels : IsHeldOut(i)})]

FitAnswer(status, model) == [status |-> status, model |-> model]

HandleCalibrationFit(labels) ==
  IF Len(labels) < MinCalibrationObservations THEN FitAnswer(400, NoModel)
  ELSE LET model == FitCalibrator(SplitObservations(labels).train)
       IN IF model = NoModel THEN FitAnswer(400, NoModel) ELSE FitAnswer(200, model)

----------------------------------------------------------------------------
(* What a fit promises. *)

MostOf(fracs)  == CHOOSE p \in fracs : \A q \in fracs : ~Exceeds(q, p)
LeastOf(fracs) == CHOOSE p \in fracs : \A q \in fracs : ~Exceeds(p, q)

\* How many matches, and how many labels, the first k points stand for.
Cumulated(points) ==
  LET upto[k \in 0 .. Len(points)] ==
        IF k = 0 THEN Frac(0, 0)
        ELSE Frac(upto[k - 1].num + points[k].pos,
                  upto[k - 1].den + points[k].pos + points[k].neg)
  IN upto

\* The share of matches from the j-th score to the k-th.
ShareFrom(points, j, k) ==
  LET upto == Cumulated(points)
  IN Frac(upto[k].num - upto[j - 1].num, upto[k].den - upto[j - 1].den)

\* The closed form of isotonic regression.
MinMax(points, i) ==
  MostOf({LeastOf({ShareFrom(points, j, k) : k \in i .. Len(points)}) : j \in 1 .. i})

\* The regression at the score that each block is known by, never above it
\* elsewhere, and calibrating never swaps two scores.
IsRegressionOf(blocks, points) ==
  /\ \A i \in DOMAIN points :
       LET fitted == CalibrateIsotonic(blocks, points[i].score) IN
       /\ ~Exceeds(fitted, MinMax(points, i))
       /\ (\E b \in DOMAIN blocks : blocks[b].score = points[i].score) =>
            SameFrac(fitted, MinMax(points, i))
  /\ \A s, t \in points[1].score - 1 .. Last(points).score + 1 :
       s <= t => ~Exceeds(CalibrateIsotonic(blocks, s), CalibrateIsotonic(blocks, t))

\* An isotonic model that is installed is the regression of the labels it was
\* trained on, and of no others.
IsotonicIsRegression(labels) ==
  LET fit == HandleCalibrationFit(labels) IN
  fit.status = 200 /\ fit.model.type = "isotonic" =>
    IsRegressionOf(fit.model.blocks, Points(SplitObservations(labels).train))

\* Matches and non-matches do not score the same on average.
Separated(labels) ==
  LET pos == Matches(labels)  neg == NonMatches(labels) IN
  /\ pos # {} /\ neg # {}
  /\ Sum(labels, pos, ScoreOf) * Cardinality(neg) # Sum(labels, neg, ScoreOf) * Cardinality(pos)

\* A Platt model that is installed has learned something from labels that tell
\* the classes apart.
PlattLearns(labels) ==
  LET fit == HandleCalibrationFit(labels) IN
  fit.status = 200 /\ fit.model.type = "platt" /\ Separated(SplitObservations(labels).train)
    => fit.model.moved
=============================================================================
