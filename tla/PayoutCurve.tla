----------------------------- MODULE PayoutCurve -----------------------------
(***************************************************************************)
(* From a payout function to ranges of outcomes with one payout            *)
(* (ddk-manager/src/payout_curve.rs, contract/numerical_descriptor.rs).    *)
(*                                                                         *)
(* The code computes with doubles; here values are exact fractions, what   *)
(* the double rounds away is left out.                                     *)
(*                                                                         *)
(* A piece is [kind, points] or, for a hyperbola, [kind, points, positive, *)
(* x, y, a, b, c, d] with its two end points and whole parameters.  Points *)
(* are [outcome, payout]; a curve is [pieces, rounding, total], rounding a *)
(* sequence of [begin, mod].                                               *)
(***************************************************************************)
EXTENDS Integers, Sequences, FiniteSets, FiniteSetsExt, SequencesExt

Frac(num, den) == IF den < 0 THEN [num |-> -num, den |-> -den]
                             ELSE [num |-> num, den |-> den]
NotANumber == [num |-> 0, den |-> 0]
Error == -1     \* the payout of an outcome that has none

Plus(a, b) == Frac(a.num * b.den + b.num * a.den, a.den * b.den)
Times(a, b) == Frac(a.num * b.num, a.den * b.den)

FirstOutcome(piece) == piece.points[1].outcome
LastOutcome(piece) == Last(piece.points).outcome

-----------------------------------------------------------------------------
(* Validation.                                                             *)

(* PolynomialPayoutCurvePiece::new, HyperbolaPayoutCurvePiece::new         *)
PieceIsValid(piece) ==
    /\ Len(piece.points) > 1
    /\ \A i \in 1..(Len(piece.points) - 1) :
          piece.points[i].outcome < piece.points[i + 1].outcome
    /\ piece.kind = "hyperbola" => piece.a * piece.d # piece.b * piece.c

IsContinuous(pieces) ==
    \A i \in 1..(Len(pieces) - 1) : Last(pieces[i].points) = pieces[i + 1].points[1]

(* NumericalDescriptor::validate: the function covers [0, max_value], the  *)
(* rounding intervals start at 0 and grow.                                 *)
CurveIsValid(curve, max_value) ==
    /\ curve.pieces # <<>> /\ IsContinuous(curve.pieces)
    /\ \A piece \in ToSet(curve.pieces) : PieceIsValid(piece)
    /\ FirstOutcome(curve.pieces[1]) = 0
    /\ LastOutcome(Last(curve.pieces)) = max_value
    /\ curve.rounding # <<>> /\ curve.rounding[1].begin = 0
    /\ \A i \in 1..(Len(curve.rounding) - 1) :
          curve.rounding[i].begin < curve.rounding[i + 1].begin

-----------------------------------------------------------------------------
(* Evaluation.                                                             *)

(* Lagrange interpolation; a line is the case of two points.               *)
EvaluatePolynomial(points, outcome) ==
    LET factor(i, j) == IF i = j THEN Frac(1, 1)
                        ELSE Frac(outcome - points[j].outcome,
                                  points[i].outcome - points[j].outcome)
        basis(i) == FoldLeft(LAMBDA l, j : Times(l, factor(i, j)),
                             Frac(points[i].payout, 1), [j \in DOMAIN points |-> j])
    IN  FoldLeft(LAMBDA sum, i : Plus(sum, basis(i)), Frac(0, 1),
                 [i \in DOMAIN points |-> i])

(* HyperbolaPayoutCurvePiece::evaluate where the square root is whole: of  *)
(* other parameters the model has none.                                    *)
EvaluateHyperbola(piece, outcome) ==
    LET x == outcome - piece.x
        square == x * x - 4 * piece.a * piece.b
        roots == {r \in 0..square : r * r = square}
        t == x + (IF piece.positive THEN 1 ELSE -1) * Max(roots)
    IN  IF square < 0 \/ piece.a = 0 THEN NotANumber
        ELSE IF t = 0 THEN NotANumber
        ELSE Plus(Plus(Frac(piece.c * t, 2 * piece.a), Frac(2 * piece.a * piece.d, t)),
                  Frac(piece.y, 1))

Evaluate(piece, outcome) ==
    IF piece.kind = "hyperbola" THEN EvaluateHyperbola(piece, outcome)
    ELSE EvaluatePolynomial(piece.points, outcome)

(* The interval that begins at or before the outcome.                      *)
RoundingMod(rounding, outcome) ==
    rounding[Max({i \in DOMAIN rounding : rounding[i].begin <= outcome})].mod

(* RoundingIntervals::round: the nearest multiple, halves up.  The rest of *)
(* a division by 0 is no number, which becomes 0.                          *)
RoundTo(mod, v) ==
    IF mod = 0 THEN 0
    ELSE ((2 * v.num + mod * v.den) \div (2 * mod * v.den)) * mod

(* get_rounded_payout: an error for no number, one below 0 or above the    *)
(* total collateral.                                                       *)
GetRoundedPayout(piece, outcome, curve) ==
    LET v == Evaluate(piece, outcome)
    IN  IF v = NotANumber THEN Error
        ELSE IF v.num < 0 \/ RoundTo(1, v) > curve.total THEN Error
        ELSE Min({RoundTo(RoundingMod(curve.rounding, outcome), v), curve.total})

-----------------------------------------------------------------------------
(* Ranges: [start, count, offer].                                          *)

(* The range that a payout extends or that it starts.                      *)
Extended(ranges, outcome, payout) ==
    IF ranges # <<>> /\ Last(ranges).offer = payout
    THEN [ranges EXCEPT ![Len(ranges)].count = @ + 1]
    ELSE Append(ranges, [start |-> outcome, count |-> 1, offer |-> payout])

IsConstant(piece) ==
    /\ piece.kind = "polynomial" /\ Len(piece.points) = 2
    /\ piece.points[1].payout = piece.points[2].payout

(* get_cur_range: the last range so far, which ends where the piece        *)
(* begins; for the first piece a range of its first outcome.               *)
CurRanges(piece, curve, ranges) ==
    IF ranges # <<>> THEN ranges
    ELSE <<[start |-> FirstOutcome(piece), count |-> 1,
            offer |-> GetRoundedPayout(piece, FirstOutcome(piece), curve)]>>

(* to_range_payouts of a piece: of a constant one all outcomes but the     *)
(* first, which the piece before ends with, extend the last range;         *)
(* compute_range_payouts takes the others one by one.                      *)
PieceRanges(piece, curve, ranges) ==
    LET cur == CurRanges(piece, curve, ranges)
        rest == LastOutcome(piece) - FirstOutcome(piece)
    IN  IF IsConstant(piece)
        THEN [cur EXCEPT ![Len(cur)].count = @ + rest]
        ELSE FoldLeft(LAMBDA all, outcome :
                         Extended(all, outcome, GetRoundedPayout(piece, outcome, curve)),
                      cur, [i \in 1..rest |-> FirstOutcome(piece) + i])

(* PayoutFunction::to_range_payouts; none when a payout is an error.       *)
ToRangePayouts(curve) ==
    LET ranges == FoldLeft(LAMBDA all, piece : PieceRanges(piece, curve, all),
                           <<>>, curve.pieces)
    IN  IF \E r \in ToSet(ranges) : r.offer = Error THEN <<>> ELSE ranges

=============================================================================
