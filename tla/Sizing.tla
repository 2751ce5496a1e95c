------------------------------- MODULE Sizing -------------------------------
(***************************************************************************)
(* How large a Client's position is: bridge/engine/sizing.py, steps 3 to 8   *)
(* of compute_client_volume, and the share of it that is closed when the     *)
(* Master closes a part (_close_pair_partially in closing.py).               *)
(*                                                                          *)
(* The code computes with Python's Decimal, which keeps 28 significant       *)
(* digits and rounds half to even. Here a decimal is [m, e], m / 10^e, with  *)
(* Digits significant ones. A volume is an integer number of hundredths of a *)
(* lot, a multiplier one of hundredths.                                      *)
(***************************************************************************)
EXTENDS Integers

CONSTANTS
    Digits,     \* the precision of the Decimal context
    NoLimit     \* a limit that is NULL

ASSUME SizingAssumption == Digits \in Nat \ {0}

(* Decimal arithmetic.                                                       *)

\* 10 to the k.
Ten[k \in Nat] == IF k = 0 THEN 1 ELSE 10 * Ten[k - 1]

HalfEven(n, d) ==
    LET q == n \div d
        r == 2 * (n % d)
    IN IF r > d \/ (r = d /\ q % 2 = 1) THEN q + 1 ELSE q

\* m / 10^e to the digits that are kept, of which those before the point are fewer.
Fit(m, e) ==
    LET j == CHOOSE i \in 0 .. e :
                 m < Ten[Digits + i] /\ (i = 0 \/ m >= Ten[Digits + i - 1])
    IN [m |-> HalfEven(m, Ten[j]), e |-> e - j]

Times(x, y) == Fit(x.m * y.m, x.e + y.e)

\* x divided by a positive integer: the exact quotient where it has one within
\* Digits digits, and otherwise those digits.
Exact(m, n, i) == (m * Ten[i]) % n = 0
Full(m, n, i) == m * Ten[i + 1] >= n * Ten[Digits]
Quot(x, n) ==
    LET Enough(i) == Exact(x.m, n, i) \/ Full(x.m, n, i)
        k == CHOOSE i \in 0 .. Digits + n : Enough(i) /\ \A j \in 0 .. i - 1 : ~Enough(j)
    IN [m |-> HalfEven(x.m * Ten[k], n), e |-> x.e + k]

Whole(n) == [m |-> n, e |-> 0]
FloorOf(x) == x.m \div Ten[x.e]
NearestOf(x) == (2 * x.m + Ten[x.e]) \div (2 * Ten[x.e])

-----------------------------------------------------------------------------
(* The volume of an open.                                                    *)

RoundToStep(x, step, mode) ==
    LET steps == Quot(x, step)
    IN step * IF mode = "NEAREST" THEN NearestOf(steps) ELSE FloorOf(steps)

\* Steps 3 and 4. Contract sizes are converted when both are known and differ.
Converts(in) == in.masterSize # 0 /\ in.clientSize # 0 /\ in.masterSize # in.clientSize
\* Mutant of Raw: contract sizes are not converted.
RawUnconverted(in) == [m |-> in.master * in.multiplier, e |-> 2]
Raw(in) ==
    LET v == [m |-> in.master * in.multiplier, e |-> 2]
    IN IF Converts(in) THEN Times(v, Quot(Whole(in.masterSize), in.clientSize)) ELSE v

\* Step 5: a multiple of the step, pulled back to volume_max.
Rounded(in) == RoundToStep(Raw(in), in.step, in.rounding)
Normalised(in) ==
    IF Rounded(in) > in.max THEN RoundToStep(Whole(in.max), in.step, "DOWN") ELSE Rounded(in)

\* Step 6.
BelowMin(in) == Normalised(in) < in.min
Sized(in) ==
    IF BelowMin(in) THEN RoundToStep(Whole(in.min), in.step, "NEAREST") ELSE Normalised(in)

\* Step 7: the limits of the account, in the order they are looked at.
Exceeds(v, limit) == limit # NoLimit /\ v > limit
\* Mutant of LimitHit: the new order is not counted in the total and the pairs.
LimitHitBefore(v, acct) ==
    IF Exceeds(v, acct.perOrder) THEN "MAX_VOLUME_PER_ORDER"
    ELSE IF Exceeds(acct.total, acct.maxTotal) THEN "MAX_TOTAL_VOLUME"
    ELSE IF Exceeds(acct.pairs, acct.maxPairs) THEN "MAX_OPEN_PAIRS"
    ELSE "none"
LimitHit(v, acct) ==
    IF Exceeds(v, acct.perOrder) THEN "MAX_VOLUME_PER_ORDER"
    ELSE IF Exceeds(acct.total + v, acct.maxTotal) THEN "MAX_TOTAL_VOLUME"
    ELSE IF Exceeds(acct.pairs + 1, acct.maxPairs) THEN "MAX_OPEN_PAIRS"
    ELSE "none"

Notes(in) == {l \in {"WARNING", "INFO"} :
    CASE l = "WARNING" -> Rounded(in) > in.max
      [] l = "INFO" -> BelowMin(in) /\ in.belowMin = "USE_MIN"}
Skip(why, notes) == [volume |-> 0, skip |-> why, alerts |-> notes \cup {"ERROR"}]

\* compute_client_volume.
ClientVolume(in, acct) ==
    IF in.master <= 0 \/ in.step <= 0 \/ in.min <= 0 THEN Skip("BAD_SPEC", {})
    ELSE IF BelowMin(in) /\ in.belowMin # "USE_MIN"
    THEN Skip(IF Normalised(in) <= 0 THEN "ZERO_AFTER_ROUNDING" ELSE "BELOW_MIN", Notes(in))
    ELSE IF LimitHit(Sized(in), acct) # "none" THEN Skip(LimitHit(Sized(in), acct), Notes(in))
    ELSE [volume |-> Sized(in), skip |-> "none", alerts |-> Notes(in)]

-----------------------------------------------------------------------------
(* The share of a partial close.                                             *)

\* delta of the Master's `before` is closed; `held` is the Client's volume.
\* Mutants of CloseShare: rounded to the nearest step; the share of what is left.
CloseShareNearest(held, delta, before, step) ==
    RoundToStep(Times(Whole(held), Quot(Whole(delta), before)), step, "NEAREST")
CloseShareOfRest(held, delta, before, step) ==
    RoundToStep(Times(Whole(held), Quot(Whole(delta), before - delta)), step, "DOWN")
CloseShare(held, delta, before, step) ==
    RoundToStep(Times(Whole(held), Quot(Whole(delta), before)), step, "DOWN")
=============================================================================
