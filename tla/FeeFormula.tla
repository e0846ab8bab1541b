---------------------------- MODULE FeeFormula ----------------------------
(***************************************************************************)
(* How the tool computes the fee of a system contract from the excess the  *)
(* contract stores, and how it inverts that computation to estimate the    *)
(* number of blocks until a fee has dropped far enough.                    *)
(***************************************************************************)
EXTENDS Integers

UpdateFraction == 17

\* calculateContractFee: the integer exponential of EIP-7251, term by term.
Terms == [i : Nat \ {0}, accum : Nat, output : Nat]

NextTerm(x, t) ==
  [i |-> t.i + 1,
   accum |-> (t.accum * x) \div (UpdateFraction * t.i),
   output |-> t.output + t.accum]

TermsFrom(x) ==
  LET loop[t \in Terms] ==
        IF t.accum = 0 THEN t.output \div UpdateFraction ELSE loop[NextTerm(x, t)]
  IN loop

FirstTerm == [i |-> 1, accum |-> UpdateFraction, output |-> 0]

Fee(x) == TermsFrom(x)[FirstTerm]

\* Slips: how a small mistake in the code below would read.  They are here to
\* measure the properties; no specification uses them.
CoversMoreThan(f, x) == Fee(x) < f
RoundedDown(delta, t) == delta \div t

Covers(f, x) == Fee(x) <= f

\* binarySearchMaxExcess: double the upper end, then halve the interval.
Doubling(f) ==
  LET grow[high \in Nat] == IF Covers(f, high) THEN grow[2 * high] ELSE high
  IN grow

Intervals == [low : Nat, high : Nat]

Halve(f, w) ==
  LET mid == (w.low + w.high) \div 2
  IN IF Covers(f, mid) THEN [w EXCEPT !.low = mid] ELSE [w EXCEPT !.high = mid]

Halving(f) ==
  LET search[w \in Intervals] ==
        IF w.low >= w.high - 1 THEN w.low ELSE search[Halve(f, w)]
  IN search

BinarySearchMaxExcess(f) == Halving(f)[[low |-> 0, high |-> Doubling(f)[1]]]

RoundedUp(delta, t) == (delta + t - 1) \div t

\* estimateBlocksUntilFeeDrops
EstimateBlocks(x, f, t) ==
  IF f <= 0 THEN x \div t + 1
  ELSE LET goal == BinarySearchMaxExcess(f)
       IN IF x <= goal THEN 0 ELSE RoundedUp(x - goal, t)

\* External: the contract at the end of a block with n requests, of which it
\* takes t off its queue.
ExcessAfter(x, n, t) == IF x + n > t THEN x + n - t ELSE 0
=============================================================================
