------------------------- MODULE ContractFeeProofs -------------------------
(***************************************************************************)
(* The fee of a system contract, the search that inverts it and the wait   *)
(* that rests on both, for every excess, offer and bound.  The three loops *)
(* are recursive functions; what they compute is shown from the least      *)
(* number that could be a counterexample.                                  *)
(***************************************************************************)
EXTENDS PartsInvariant, WellFoundedInduction, TLAPS
-----------------------------------------------------------------------------
(* Loops that end as they recur.                                           *)

\* A walk from p along the steps of a loop until it may stop, n steps later.
Walk(D, S, step, p, n, w) ==
  /\ w \in [0..n -> D] /\ w[0] = p /\ w[n] \in S
  /\ \A k \in 0 .. n - 1 : w[k] \notin S /\ w[k + 1] = step[w[k]]

Yields(D, S, step, val, p, v) ==
  \E n \in Nat : \E w \in [0..n -> D] : Walk(D, S, step, p, n, w) /\ v = val[w[n]]

LEMMA YieldsAtEnd ==
  ASSUME NEW D, NEW S, NEW step, NEW val, NEW p \in D, p \in S, NEW v
  PROVE  Yields(D, S, step, val, p, v) <=> v = val[p]
<1>1. ASSUME v = val[p] PROVE Yields(D, S, step, val, p, v)
  <2>. DEFINE w == [k \in 0..0 |-> p]
  <2>1. w \in [0..0 -> D] /\ w[0] = p
    OBVIOUS
  <2>2. Walk(D, S, step, p, 0, w)
    BY <2>1 DEF Walk
  <2>. QED
    BY <1>1, <2>1, <2>2 DEF Yields
<1>2. ASSUME Yields(D, S, step, val, p, v) PROVE v = val[p]
  <2>0. PICK n \in Nat : \E w \in [0..n -> D] : Walk(D, S, step, p, n, w) /\ v = val[w[n]]
    BY <1>2 DEF Yields
  <2>1. PICK w \in [0..n -> D] : Walk(D, S, step, p, n, w) /\ v = val[w[n]]
    BY <2>0
  <2>2. n = 0
    BY <2>1 DEF Walk
  <2>. QED
    BY <2>1, <2>2 DEF Walk
<1>. QED
  BY <1>1, <1>2

LEMMA YieldsOfNext ==
  ASSUME NEW D, NEW S, NEW step, NEW val, NEW p \in D, p \notin S, step[p] \in D, NEW v
  PROVE  Yields(D, S, step, val, p, v) <=> Yields(D, S, step, val, step[p], v)
<1>1. ASSUME Yields(D, S, step, val, step[p], v) PROVE Yields(D, S, step, val, p, v)
  <2>0. PICK n \in Nat : \E w \in [0..n -> D] : Walk(D, S, step, step[p], n, w) /\ v = val[w[n]]
    BY <1>1 DEF Yields
  <2>1. PICK w \in [0..n -> D] : Walk(D, S, step, step[p], n, w) /\ v = val[w[n]]
    BY <2>0
  <2>. DEFINE u == [k \in 0 .. n + 1 |-> IF k = 0 THEN p ELSE w[k - 1]]
  <2>2. u \in [0 .. n + 1 -> D] /\ u[0] = p /\ u[n + 1] = w[n]
    OBVIOUS
  <2>3. ASSUME NEW k \in 0 .. (n + 1) - 1 PROVE u[k] \notin S /\ u[k + 1] = step[u[k]]
    <3>1. CASE k = 0
      <4>1. u[k] = p /\ u[k + 1] = w[0]
        BY <3>1
      <4>. QED
        BY <4>1, <2>1 DEF Walk
    <3>2. CASE k # 0
      <4>1. k - 1 \in 0 .. n - 1 /\ u[k] = w[k - 1] /\ u[k + 1] = w[(k - 1) + 1]
        BY <3>2
      <4>. HIDE DEF u
      <4>. QED
        BY <4>1, <2>1 DEF Walk
    <3>. QED
      BY <3>1, <3>2
  <2>. HIDE DEF u
  <2>4. Walk(D, S, step, p, n + 1, u)
    BY <2>1, <2>2, <2>3 DEF Walk
  <2>5. n + 1 \in Nat /\ v = val[u[n + 1]]
    BY <2>1, <2>2
  <2>. QED
    BY <2>2, <2>4, <2>5 DEF Yields
<1>2. ASSUME Yields(D, S, step, val, p, v) PROVE Yields(D, S, step, val, step[p], v)
  <2>0. PICK n \in Nat : \E w \in [0..n -> D] : Walk(D, S, step, p, n, w) /\ v = val[w[n]]
    BY <1>2 DEF Yields
  <2>1. PICK w \in [0..n -> D] : Walk(D, S, step, p, n, w) /\ v = val[w[n]]
    BY <2>0
  <2>2. n # 0
    BY <2>1 DEF Walk
  <2>. DEFINE u == [k \in 0 .. n - 1 |-> w[k + 1]]
  <2>3. u \in [0 .. n - 1 -> D] /\ u[0] = w[0 + 1] /\ u[n - 1] = w[n]
    BY <2>2
  <2>4. u[0] = step[p]
    BY <2>1, <2>2, <2>3 DEF Walk
  <2>5. ASSUME NEW k \in 0 .. (n - 1) - 1 PROVE u[k] \notin S /\ u[k + 1] = step[u[k]]
    <3>1. k + 1 \in 0 .. n - 1 /\ u[k] = w[k + 1] /\ u[k + 1] = w[(k + 1) + 1]
      OBVIOUS
    <3>. HIDE DEF u
    <3>. QED
      BY <3>1, <2>1 DEF Walk
  <2>. HIDE DEF u
  <2>6. Walk(D, S, step, step[p], n - 1, u)
    BY <2>1, <2>3, <2>4, <2>5 DEF Walk
  <2>7. n - 1 \in Nat /\ v = val[u[n - 1]]
    BY <2>1, <2>2, <2>3
  <2>. QED
    BY <2>3, <2>6, <2>7 DEF Yields
<1>. QED
  BY <1>1, <1>2

MapsOn(D, f) == f = [p \in D |-> f[p]]

HasFunction(D, S, step, val) ==
  \E f : /\ MapsOn(D, f)
         /\ \A p \in D : f[p] = IF p \in S THEN val[p] ELSE f[step[p]]

\* Whatever its steps, a loop that returns the result of its next turn has a
\* function that computes it.
LEMMA TailRecursion ==
  ASSUME NEW D, NEW S, NEW step, \A p \in D \ S : step[p] \in D, NEW val
  PROVE  HasFunction(D, S, step, val)
<1>. DEFINE f == [p \in D |-> CHOOSE v : Yields(D, S, step, val, p, v)]
<1>1. ASSUME NEW p \in D, p \in S PROVE f[p] = val[p]
  <2>1. f[p] = CHOOSE v : Yields(D, S, step, val, p, v)
    OBVIOUS
  <2>2. \A v : Yields(D, S, step, val, p, v) <=> v = val[p]
    BY <1>1, YieldsAtEnd
  <2>. QED
    BY <2>1, <2>2
<1>2. ASSUME NEW p \in D, p \notin S PROVE f[p] = f[step[p]]
  <2>1. step[p] \in D
    BY <1>2
  <2>2. \A v : Yields(D, S, step, val, p, v) <=> Yields(D, S, step, val, step[p], v)
    BY <1>2, <2>1, YieldsOfNext
  <2>3. (CHOOSE v : Yields(D, S, step, val, p, v))
          = (CHOOSE v : Yields(D, S, step, val, step[p], v))
    BY <2>2
  <2>4. \A q \in D : f[q] = CHOOSE v : Yields(D, S, step, val, q, v)
    OBVIOUS
  <2>. HIDE DEF f
  <2>. QED
    BY <1>2, <2>1, <2>3, <2>4, Zenon
<1>3. \A p \in D : f[p] = IF p \in S THEN val[p] ELSE f[step[p]]
  BY <1>1, <1>2
<1>4. MapsOn(D, f)
  BY DEF MapsOn
<1>. QED
  <2>. HIDE DEF f
  <2>. QED
    BY <1>3, <1>4 DEF HasFunction

-----------------------------------------------------------------------------
(* The fee.                                                                *)

\* A set of naturals that holds a number has a least one.
LEMMA LeastOf ==
  ASSUME NEW S \in SUBSET Nat, S # {}
  PROVE  \E m \in S : \A n \in S : m <= n
<1>1. IsWellFoundedOn(OpToRel(<, Nat), Nat)
  BY NatLessThanWellFounded
<1>2. PICK m \in S : \A n \in S : <<n, m>> \notin OpToRel(<, Nat)
  BY <1>1, WFMin
<1>3. \A n \in S : ~(n < m)
  BY <1>2 DEF OpToRel
<1>. QED
  BY <1>3

\* Integer division by a positive number.
LEMMA Division ==
  ASSUME NEW n \in Nat, NEW d \in Nat \ {0}
  PROVE  /\ n \div d \in Nat
         /\ d * (n \div d) <= n /\ n < d * (n \div d) + d
OBVIOUS

LEMMA ProductGrows ==
  ASSUME NEW a \in Nat, NEW b \in Nat, NEW c \in Nat, a <= b
  PROVE  c * a \in Nat /\ c * b \in Nat /\ c * a <= c * b
OBVIOUS

LEMMA ProductsInOrder ==
  ASSUME NEW a \in Nat, NEW b \in Nat, NEW c \in Nat, NEW d \in Nat, a <= b, c <= d
  PROVE  a * c \in Nat /\ b * d \in Nat /\ a * c <= b * d
<1>1. a * c <= b * c /\ b * c <= b * d
  BY ProductGrows
<1>. QED
  BY <1>1

\* A larger dividend has no smaller quotient.
LEMMA QuotientGrows ==
  ASSUME NEW m \in Nat, NEW n \in Nat, m <= n, NEW d \in Nat \ {0}
  PROVE  m \div d <= n \div d
<1>. DEFINE p == m \div d
            q == n \div d
<1>1. p \in Nat /\ q \in Nat /\ d * p <= m /\ n < d * q + d
  BY Division
<1>2. d * p < d * q + d
  <2>1. d * p \in Nat /\ d * q \in Nat
    BY <1>1
  <2>. HIDE DEF p, q
  <2>. QED
    BY <1>1, <2>1
<1>3. ASSUME p > q PROVE FALSE
  <2>. HIDE DEF p, q
  <2>1. q + 1 \in Nat /\ q + 1 <= p
    BY <1>1, <1>3
  <2>2. d * (q + 1) <= d * p
    BY <1>1, <2>1, ProductGrows
  <2>3. d * (q + 1) = d * q + d
    BY <1>1
  <2>4. d * p \in Nat /\ d * q \in Nat
    BY <1>1
  <2>. QED
    BY <1>2, <2>2, <2>3, <2>4
<1>. QED
  BY <1>1, <1>3

\* The next turn of the loop.
LEMMA NextTermType ==
  ASSUME NEW x \in Nat, NEW t \in Terms
  PROVE  /\ t.i \in Nat \ {0} /\ t.accum \in Nat /\ t.output \in Nat
         /\ NextTerm(x, t) \in Terms
         /\ NextTerm(x, t).i = t.i + 1
         /\ NextTerm(x, t).accum = (t.accum * x) \div (UpdateFraction * t.i)
         /\ NextTerm(x, t).output = t.output + t.accum
<1>1. t.i \in Nat \ {0} /\ t.accum \in Nat /\ t.output \in Nat
  BY DEF Terms
<1>2. t.accum * x \in Nat /\ UpdateFraction * t.i \in Nat \ {0}
  BY <1>1 DEF UpdateFraction
<1>3. (t.accum * x) \div (UpdateFraction * t.i) \in Nat
  BY <1>2, Division
<1>. QED
  BY <1>1, <1>3 DEF NextTerm, Terms

\* The loop of the fee does what its turns say.
LEMMA FeeLoop ==
  ASSUME NEW x \in Nat, NEW t \in Terms
  PROVE  TermsFrom(x)[t] =
           IF t.accum = 0 THEN t.output \div UpdateFraction ELSE TermsFrom(x)[NextTerm(x, t)]
<1>. DEFINE S == {p \in Terms : p.accum = 0}
            step == [p \in Terms |-> NextTerm(x, p)]
            val == [p \in Terms |-> p.output \div UpdateFraction]
            Loop(g) == [p \in Terms |->
                          IF p.accum = 0 THEN p.output \div UpdateFraction ELSE g[NextTerm(x, p)]]
<1>1. HasFunction(Terms, S, step, val)
  <2>1. \A p \in Terms \ S : step[p] \in Terms
    BY NextTermType
  <2>. HIDE DEF S, step, val
  <2>. QED
    BY <2>1, TailRecursion
<1>2. PICK f : /\ MapsOn(Terms, f)
               /\ \A p \in Terms : f[p] = IF p \in S THEN val[p] ELSE f[step[p]]
  BY <1>1 DEF HasFunction
<1>3. f = Loop(f)
  BY <1>2 DEF MapsOn
<1>4. TermsFrom(x) = CHOOSE g : g = Loop(g)
  BY DEF TermsFrom
<1>5. TermsFrom(x) = Loop(TermsFrom(x))
  <2>. HIDE DEF Loop
  <2>. QED
    BY <1>3, <1>4
<1>. QED
  BY <1>5

\* Behind x turns, a term is smaller than the one before.
LEMMA TermsShrink ==
  ASSUME NEW x \in Nat, NEW t \in Terms, t.i > x, t.accum # 0
  PROVE  NextTerm(x, t).accum < t.accum
<1>. DEFINE a == t.accum
            d == UpdateFraction * t.i
            q == (a * x) \div d
<1>1. a \in Nat /\ a > 0 /\ t.i \in Nat \ {0} /\ NextTerm(x, t).accum = q
  BY NextTermType
<1>2. a * x \in Nat /\ a * t.i \in Nat /\ a * x <= a * t.i
  BY <1>1, ProductGrows
<1>3. d \in Nat \ {0} /\ a * d = 17 * (a * t.i) /\ a * t.i > 0
  BY <1>1, <1>2 DEF UpdateFraction
<1>4. q \in Nat /\ d * q <= a * x
  BY <1>2, <1>3, Division
<1>5. ASSUME q >= a PROVE FALSE
  <2>. HIDE DEF q, d, a
  <2>1. d * a <= d * q
    BY <1>1, <1>3, <1>4, <1>5, ProductGrows
  <2>2. d * a = a * d /\ d * a \in Nat /\ d * q \in Nat
    BY <1>1, <1>3, <1>4
  <2>. QED
    BY <2>1, <2>2, <1>2, <1>3, <1>4
<1>. QED
  BY <1>1, <1>4, <1>5

\* What holds at the last term, and before every term for which it holds, holds for
\* all terms: the loop ends.
LEMMA TermInduction ==
  ASSUME NEW x \in Nat, NEW P \in SUBSET Terms,
         \A t \in Terms : t.accum = 0 \/ NextTerm(x, t) \in P => t \in P
  PROVE  P = Terms
<1>. DEFINE Q == Terms \ P
<1>1. ASSUME NEW t \in Q PROVE t.accum # 0 /\ NextTerm(x, t) \in Q
  BY NextTermType
<1>2. ASSUME Q # {} PROVE FALSE
  <2>. DEFINE Left(t) == IF t.i > x THEN 0 ELSE x + 1 - t.i
              M == {Left(t) : t \in Q}
              A == {t.accum : t \in {u \in Q : u.i > x}}
  <2>1. \A t \in Q : Left(t) \in Nat /\ t.accum \in Nat /\ t.i \in Nat
    BY NextTermType
  <2>2. M \in SUBSET Nat /\ M # {}
    BY <1>2, <2>1
  <2>3. PICK m \in M : \A n \in M : m <= n
    <3>. HIDE DEF M
    <3>. QED
      BY <2>2, LeastOf
  <2>4. PICK t \in Q : m = Left(t)
    BY <2>3
  <2>5. t.i > x
    <3>1. SUFFICES ASSUME ~(t.i > x) PROVE FALSE
      OBVIOUS
    <3>2. NextTerm(x, t) \in Q /\ NextTerm(x, t).i = t.i + 1
      BY <1>1, NextTermType
    <3>3. Left(NextTerm(x, t)) \in M /\ Left(NextTerm(x, t)) < Left(t)
      BY <3>1, <3>2, <2>1
    <3>. QED
      BY <3>3, <2>1, <2>3, <2>4
  <2>6. A \in SUBSET Nat /\ A # {}
    BY <2>1, <2>5
  <2>7. PICK a \in A : \A n \in A : a <= n
    <3>. HIDE DEF A
    <3>. QED
      BY <2>6, LeastOf
  <2>8. PICK u \in Q : u.i > x /\ a = u.accum
    BY <2>7
  <2>9. NextTerm(x, u) \in Q /\ NextTerm(x, u).i = u.i + 1 /\ NextTerm(x, u).accum < u.accum
    BY <1>1, <2>8, NextTermType, TermsShrink
  <2>10. NextTerm(x, u).accum \in A
    BY <2>1, <2>8, <2>9
  <2>11. u.accum <= NextTerm(x, u).accum
    BY <2>7, <2>8, <2>10
  <2>12. u.accum \in Nat /\ NextTerm(x, u).accum \in Nat
    BY <2>1, <2>9
  <2>. QED
    BY <2>9, <2>11, <2>12
<1>. QED
  BY <1>2

\* The loop returns a natural number, at least what it has added up so far.
LEMMA TermsAddUp ==
  ASSUME NEW x \in Nat, NEW t \in Terms
  PROVE  TermsFrom(x)[t] \in Nat /\ t.output \div UpdateFraction <= TermsFrom(x)[t]
<1>. DEFINE P == {u \in Terms : /\ TermsFrom(x)[u] \in Nat
                                /\ u.output \div UpdateFraction <= TermsFrom(x)[u]}
<1>1. ASSUME NEW u \in Terms, u.accum = 0 \/ NextTerm(x, u) \in P PROVE u \in P
  <2>1. u.output \in Nat /\ u.accum \in Nat /\ UpdateFraction \in Nat \ {0}
    BY NextTermType DEF UpdateFraction
  <2>2. u.output \div UpdateFraction \in Nat
    BY <2>1, Division
  <2>3. CASE u.accum = 0
    BY <2>2, <2>3, FeeLoop
  <2>4. CASE u.accum # 0
    <3>1. NextTerm(x, u) \in P /\ TermsFrom(x)[u] = TermsFrom(x)[NextTerm(x, u)]
      BY <1>1, <2>4, FeeLoop
    <3>2. NextTerm(x, u).output = u.output + u.accum
      BY NextTermType
    <3>3. u.output \div UpdateFraction <= (u.output + u.accum) \div UpdateFraction
      <4>1. u.output + u.accum \in Nat /\ u.output <= u.output + u.accum
        BY <2>1
      <4>. QED
        BY <2>1, <4>1, QuotientGrows
    <3>4. (u.output + u.accum) \div UpdateFraction \in Nat
      BY <2>1, Division
    <3>. QED
      BY <2>2, <3>1, <3>2, <3>3, <3>4
  <2>. QED
    BY <2>3, <2>4
<1>2. P = Terms
  <2>1. P \in SUBSET Terms
    OBVIOUS
  <2>. HIDE DEF P
  <2>. QED
    BY <1>1, <2>1, TermInduction
<1>. QED
  BY <1>2

\* Fees are natural numbers.
LEMMA FeeType ==
  ASSUME NEW x \in Nat
  PROVE  Fee(x) \in Nat
<1>1. FirstTerm \in Terms
  BY DEF FirstTerm, Terms, UpdateFraction
<1>. QED
  BY <1>1, TermsAddUp DEF Fee

\* With a larger excess every term is at least as large.
LEMMA TermsInOrder ==
  ASSUME NEW x \in Nat, NEW y \in Nat, x <= y, NEW t \in Terms, NEW u \in Terms,
         u.i = t.i, t.accum <= u.accum, t.output <= u.output
  PROVE  /\ NextTerm(y, u).i = NextTerm(x, t).i
         /\ NextTerm(x, t).accum <= NextTerm(y, u).accum
         /\ NextTerm(x, t).output <= NextTerm(y, u).output
<1>1. /\ t.i \in Nat \ {0} /\ t.accum \in Nat /\ t.output \in Nat
      /\ u.accum \in Nat /\ u.output \in Nat
  BY NextTermType
<1>2. t.accum * x \in Nat /\ u.accum * y \in Nat /\ t.accum * x <= u.accum * y
  BY <1>1, ProductsInOrder
<1>3. UpdateFraction * t.i \in Nat \ {0}
  BY <1>1 DEF UpdateFraction
<1>4. (t.accum * x) \div (UpdateFraction * t.i) <= (u.accum * y) \div (UpdateFraction * t.i)
  BY <1>2, <1>3, QuotientGrows
<1>5. /\ NextTerm(x, t).accum = (t.accum * x) \div (UpdateFraction * t.i)
      /\ NextTerm(x, t).i = t.i + 1 /\ NextTerm(x, t).output = t.output + t.accum
  BY NextTermType
<1>6. /\ NextTerm(y, u).accum = (u.accum * y) \div (UpdateFraction * u.i)
      /\ NextTerm(y, u).i = u.i + 1 /\ NextTerm(y, u).output = u.output + u.accum
  BY NextTermType
<1>7. NextTerm(x, t).accum <= NextTerm(y, u).accum
  BY <1>4, <1>5, <1>6
<1>. QED
  BY <1>1, <1>5, <1>6, <1>7

\* The fee never falls as the excess grows, which the comment of the binary search
\* takes for granted: term by term, the loops for two excesses stay in order.
THEOREM FeeGrows ==
  ASSUME NEW x \in Nat, NEW y \in Nat, x <= y
  PROVE  Fee(x) <= Fee(y)
<1>. DEFINE Above(t) == {u \in Terms : u.i = t.i /\ t.accum <= u.accum /\ t.output <= u.output}
            P == {t \in Terms : \A u \in Above(t) : TermsFrom(x)[t] <= TermsFrom(y)[u]}
<1>1. ASSUME NEW t \in Terms, t.accum = 0 \/ NextTerm(x, t) \in P,
             NEW u \in Above(t)
      PROVE  TermsFrom(x)[t] <= TermsFrom(y)[u]
  <2>1. /\ t.output \in Nat /\ u.output \in Nat /\ t.accum \in Nat /\ u.accum \in Nat
        /\ UpdateFraction \in Nat \ {0} /\ u \in Terms
    BY NextTermType DEF UpdateFraction
  <2>2. CASE t.accum = 0
    <3>1. TermsFrom(x)[t] = t.output \div UpdateFraction
      BY <2>2, FeeLoop
    <3>2. t.output \div UpdateFraction <= u.output \div UpdateFraction
      BY <2>1, QuotientGrows
    <3>3. u.output \div UpdateFraction <= TermsFrom(y)[u]
      BY <2>1, TermsAddUp
    <3>4. /\ t.output \div UpdateFraction \in Nat /\ u.output \div UpdateFraction \in Nat
          /\ TermsFrom(y)[u] \in Nat
      BY <2>1, Division, TermsAddUp
    <3>. QED
      BY <3>1, <3>2, <3>3, <3>4
  <2>3. CASE t.accum # 0
    <3>1. NextTerm(x, t) \in P /\ NextTerm(y, u) \in Terms
      BY <1>1, <2>1, <2>3, NextTermType
    <3>2. NextTerm(y, u) \in Above(NextTerm(x, t))
      BY <2>1, <3>1, TermsInOrder
    <3>3. TermsFrom(x)[NextTerm(x, t)] <= TermsFrom(y)[NextTerm(y, u)]
      BY <3>1, <3>2
    <3>4. u.accum # 0
      BY <2>1, <2>3
    <3>. QED
      BY <2>1, <2>3, <3>3, <3>4, FeeLoop
  <2>. QED
    BY <2>2, <2>3
<1>2. \A t \in Terms : t.accum = 0 \/ NextTerm(x, t) \in P => t \in P
  BY <1>1
<1>3. P = Terms
  <2>1. P \in SUBSET Terms
    OBVIOUS
  <2>. HIDE DEF P
  <2>. QED
    BY <1>2, <2>1, TermInduction
<1>4. FirstTerm \in Terms /\ FirstTerm \in Above(FirstTerm)
  BY DEF FirstTerm, Terms, UpdateFraction
<1>. QED
  BY <1>3, <1>4 DEF Fee

\* The fee starts at 1 and follows the excess: it is x / 17 at least.
LEMMA FeeFollowsExcess ==
  ASSUME NEW x \in Nat
  PROVE  x <= 17 * Fee(x) /\ (x = 0 => Fee(x) = 1)
<1>. DEFINE second == NextTerm(x, FirstTerm)
            third == NextTerm(x, second)
<1>1. /\ FirstTerm \in Terms /\ FirstTerm.i = 1 /\ FirstTerm.accum = 17 /\ FirstTerm.output = 0
  BY DEF FirstTerm, Terms, UpdateFraction
<1>2. (17 * x) \div (17 * 1) = x
  OBVIOUS
<1>3. second \in Terms /\ second.accum = x /\ second.output = 17
  <2>1. second.accum = (FirstTerm.accum * x) \div (UpdateFraction * FirstTerm.i)
    BY <1>1, NextTermType
  <2>2. second.accum = (17 * x) \div (17 * 1)
    BY <1>1, <2>1 DEF UpdateFraction
  <2>3. second \in Terms /\ second.output = 0 + 17
    BY <1>1, NextTermType
  <2>. QED
    BY <1>2, <2>2, <2>3
<1>4. Fee(x) = TermsFrom(x)[second]
  BY <1>1, FeeLoop DEF Fee
<1>. HIDE DEF second
<1>5. CASE x = 0
  <2>1. Fee(x) = 17 \div 17
    BY <1>3, <1>4, <1>5, FeeLoop DEF UpdateFraction
  <2>. QED
    BY <2>1, <1>5
<1>6. CASE x # 0
  <2>1. third \in Terms /\ third.output = 17 + x /\ Fee(x) = TermsFrom(x)[third]
    BY <1>3, <1>4, <1>6, NextTermType, FeeLoop
  <2>. HIDE DEF third
  <2>2. (17 + x) \div 17 <= Fee(x) /\ Fee(x) \in Nat
    BY <2>1, TermsAddUp DEF UpdateFraction
  <2>. QED
    BY <2>2, <1>6
<1>. QED
  BY <1>5, <1>6

-----------------------------------------------------------------------------
(* The search for the largest excess whose fee is covered.                 *)

\* Each of the two loops does what its turns say.
LEMMA DoublingLoop ==
  ASSUME NEW f, NEW h \in Nat
  PROVE  Doubling(f)[h] = IF Covers(f, h) THEN Doubling(f)[2 * h] ELSE h
<1>. DEFINE S == {p \in Nat : ~Covers(f, p)}
            step == [p \in Nat |-> 2 * p]
            val == [p \in Nat |-> p]
            Loop(g) == [p \in Nat |-> IF Covers(f, p) THEN g[2 * p] ELSE p]
<1>1. HasFunction(Nat, S, step, val)
  <2>1. \A p \in Nat \ S : step[p] \in Nat
    OBVIOUS
  <2>. HIDE DEF S, step, val
  <2>. QED
    BY <2>1, TailRecursion
<1>2. PICK g : /\ MapsOn(Nat, g)
               /\ \A p \in Nat : g[p] = IF p \in S THEN val[p] ELSE g[step[p]]
  BY <1>1 DEF HasFunction
<1>3. g = Loop(g)
  BY <1>2 DEF MapsOn
<1>4. Doubling(f) = CHOOSE grow : grow = Loop(grow)
  BY DEF Doubling
<1>5. Doubling(f) = Loop(Doubling(f))
  <2>. HIDE DEF Loop
  <2>. QED
    BY <1>3, <1>4
<1>. QED
  BY <1>5

LEMMA HalvedInterval ==
  ASSUME NEW f, NEW w \in Intervals
  PROVE  /\ w.low \in Nat /\ w.high \in Nat /\ Halve(f, w) \in Intervals
         /\ LET mid == (w.low + w.high) \div 2
            IN /\ Covers(f, mid) => Halve(f, w).low = mid /\ Halve(f, w).high = w.high
               /\ ~Covers(f, mid) => Halve(f, w).low = w.low /\ Halve(f, w).high = mid
BY DEF Intervals, Halve

LEMMA HalvingLoop ==
  ASSUME NEW f, NEW w \in Intervals
  PROVE  Halving(f)[w] = IF w.low >= w.high - 1 THEN w.low ELSE Halving(f)[Halve(f, w)]
<1>. DEFINE S == {p \in Intervals : p.low >= p.high - 1}
            step == [p \in Intervals |-> Halve(f, p)]
            val == [p \in Intervals |-> p.low]
            Loop(g) == [p \in Intervals |-> IF p.low >= p.high - 1 THEN p.low ELSE g[Halve(f, p)]]
<1>1. HasFunction(Intervals, S, step, val)
  <2>1. \A p \in Intervals \ S : step[p] \in Intervals
    BY HalvedInterval
  <2>. HIDE DEF S, step, val
  <2>. QED
    BY <2>1, TailRecursion
<1>2. PICK g : /\ MapsOn(Intervals, g)
               /\ \A p \in Intervals : g[p] = IF p \in S THEN val[p] ELSE g[step[p]]
  BY <1>1 DEF HasFunction
<1>3. g = Loop(g)
  BY <1>2 DEF MapsOn
<1>4. Halving(f) = CHOOSE search : search = Loop(search)
  BY DEF Halving
<1>5. Halving(f) = Loop(Halving(f))
  <2>. HIDE DEF Loop
  <2>. QED
    BY <1>3, <1>4
<1>. QED
  BY <1>5

\* Doubling ends above every excess that is covered: the fee has no bound.
LEMMA DoublingEnds ==
  ASSUME NEW f \in Nat, NEW h \in Nat \ {0}
  PROVE  Doubling(f)[h] \in Nat /\ Fee(Doubling(f)[h]) > f
<1>. DEFINE Good(p) == Doubling(f)[p] \in Nat /\ Fee(Doubling(f)[p]) > f
            Q == {p \in Nat \ {0} : ~Good(p)}
            M == {17 * f - p : p \in Q}
<1>1. ASSUME NEW p \in Q PROVE 2 * p \in Q /\ p <= 17 * f
  <2>1. Fee(p) \in Nat /\ p <= 17 * Fee(p)
    BY FeeType, FeeFollowsExcess
  <2>2. Covers(f, p)
    BY <1>1, <2>1, DoublingLoop DEF Covers
  <2>3. Doubling(f)[p] = Doubling(f)[2 * p]
    BY <2>2, DoublingLoop
  <2>. QED
    BY <2>1, <2>2, <2>3 DEF Covers
<1>2. ASSUME Q # {} PROVE FALSE
  <2>1. M \in SUBSET Nat /\ M # {}
    BY <1>1, <1>2
  <2>2. PICK m \in M : \A n \in M : m <= n
    <3>. HIDE DEF M
    <3>. QED
      BY <2>1, LeastOf
  <2>3. PICK p \in Q : m = 17 * f - p
    BY <2>2
  <2>4. 2 * p \in Q
    BY <1>1
  <2>5. 17 * f - 2 * p \in M
    BY <2>4
  <2>. HIDE DEF M
  <2>. QED
    BY <2>2, <2>3, <2>5
<1>3. Good(h)
  BY <1>2
<1>. QED
  BY <1>3

\* Halving keeps what is covered below and what is not above, until they meet.
Encloses(f, w) == w.low < w.high /\ Covers(f, w.low) /\ ~Covers(f, w.high)

LEMMA HalvingEnds ==
  ASSUME NEW f \in Nat, NEW w \in Intervals, Encloses(f, w)
  PROVE  LET goal == Halving(f)[w] IN goal \in Nat /\ Covers(f, goal) /\ ~Covers(f, goal + 1)
<1>. DEFINE Good(p) == Halving(f)[p] \in Nat /\ Covers(f, Halving(f)[p]) /\ ~Covers(f, Halving(f)[p] + 1)
            Q == {p \in Intervals : Encloses(f, p) /\ ~Good(p)}
            M == {p.high - p.low : p \in Q}
<1>1. ASSUME NEW p \in Q
      PROVE  /\ p.low \in Nat /\ p.high \in Nat /\ p.low < p.high
             /\ Halve(f, p) \in Q /\ Halve(f, p).high - Halve(f, p).low < p.high - p.low
  <2>1. p.low \in Nat /\ p.high \in Nat /\ p.low < p.high
    BY HalvedInterval DEF Encloses
  <2>2. p.low < p.high - 1
    <3>1. SUFFICES ASSUME p.low >= p.high - 1 PROVE FALSE
      BY <2>1
    <3>2. Halving(f)[p] = p.low /\ p.low + 1 = p.high
      BY <2>1, <3>1, HalvingLoop
    <3>. QED
      BY <2>1, <3>2 DEF Encloses
  <2>. DEFINE mid == (p.low + p.high) \div 2
  <2>3. mid \in Nat /\ p.low < mid /\ mid < p.high
    BY <2>1, <2>2
  <2>4. Halving(f)[p] = Halving(f)[Halve(f, p)]
    BY <2>1, <2>2, HalvingLoop
  <2>5. /\ Halve(f, p) \in Intervals
        /\ Covers(f, mid) => Halve(f, p).low = mid /\ Halve(f, p).high = p.high
        /\ ~Covers(f, mid) => Halve(f, p).low = p.low /\ Halve(f, p).high = mid
    BY HalvedInterval
  <2>. HIDE DEF mid
  <2>6. Encloses(f, Halve(f, p))
    BY <2>3, <2>5 DEF Encloses
  <2>. QED
    BY <2>1, <2>3, <2>4, <2>5, <2>6
<1>2. ASSUME Q # {} PROVE FALSE
  <2>1. M \in SUBSET Nat /\ M # {}
    BY <1>1, <1>2
  <2>2. PICK m \in M : \A n \in M : m <= n
    <3>. HIDE DEF M
    <3>. QED
      BY <2>1, LeastOf
  <2>3. PICK p \in Q : m = p.high - p.low
    BY <2>2
  <2>4. Halve(f, p).high - Halve(f, p).low \in M
    BY <1>1
  <2>5. m \in Nat /\ Halve(f, p).high - Halve(f, p).low \in Nat
    BY <2>1, <2>2, <2>4
  <2>. HIDE DEF M, Q
  <2>. QED
    BY <1>1, <2>2, <2>3, <2>4, <2>5
<1>3. Good(w)
  BY <1>2
<1>. QED
  BY <1>3

\* What the code's comment claims of the search, for every fee: it finds the largest
\* excess whose fee is covered.
THEOREM SearchFindsLargest ==
  ASSUME NEW f \in Nat \ {0}
  PROVE  LET goal == BinarySearchMaxExcess(f)
         IN goal \in Nat /\ \A x \in Nat : Covers(f, x) <=> x <= goal
<1>. DEFINE high == Doubling(f)[1]
            whole == [low |-> 0, high |-> high]
            goal == BinarySearchMaxExcess(f)
<1>1. high \in Nat /\ Fee(high) > f
  BY DoublingEnds
<1>2. Fee(0) = 1 /\ Covers(f, 0) /\ high # 0
  BY <1>1, FeeFollowsExcess DEF Covers
<1>3. whole \in Intervals /\ Encloses(f, whole)
  BY <1>1, <1>2, FeeType DEF Intervals, Encloses, Covers
<1>4. goal \in Nat /\ Covers(f, goal) /\ ~Covers(f, goal + 1)
  BY <1>3, HalvingEnds DEF BinarySearchMaxExcess
<1>5. ASSUME NEW x \in Nat, x <= goal PROVE Covers(f, x)
  <2>1. Fee(x) \in Nat /\ Fee(goal) \in Nat /\ Fee(x) <= Fee(goal)
    BY <1>4, <1>5, FeeType, FeeGrows
  <2>. QED
    BY <1>4, <2>1 DEF Covers
<1>6. ASSUME NEW x \in Nat, ~(x <= goal) PROVE ~Covers(f, x)
  <2>1. goal + 1 \in Nat /\ goal + 1 <= x
    BY <1>4, <1>6
  <2>2. Fee(x) \in Nat /\ Fee(goal + 1) \in Nat /\ Fee(goal + 1) <= Fee(x)
    BY <2>1, FeeType, FeeGrows
  <2>. QED
    BY <1>4, <2>2 DEF Covers
<1>. QED
  BY <1>4, <1>5, <1>6

-----------------------------------------------------------------------------
(* The wait.                                                               *)

\* A fee is too high exactly above the goal of the search.
LEMMA StaleAboveGoal ==
  ASSUME NEW x \in Nat, offer \in Nat \ {0}
  PROVE  LET goal == BinarySearchMaxExcess(offer)
         IN goal \in Nat /\ (StaleAt(x) <=> x > goal)
<1>1. BinarySearchMaxExcess(offer) \in Nat /\ (Covers(offer, x) <=> x <= BinarySearchMaxExcess(offer))
  BY SearchFindsLargest
<1>2. Fee(x) \in Nat
  BY FeeType
<1>. QED
  BY <1>1, <1>2 DEF StaleAt, Covers

\* What the estimate says, at the moment it is made.
LEMMA EstimateEffect ==
  ASSUME NEW x \in Nat, offer \in Nat \ {0}, NEW t \in {1, 2}, StaleAt(x)
  PROVE  LET goal == BinarySearchMaxExcess(offer)
             blocks == EstimateBlocks(x, offer, t)
         IN /\ blocks \in Nat \ {0}
            /\ x <= goal + t * blocks
            /\ goal + t * (blocks - 1) < x
<1>. DEFINE goal == BinarySearchMaxExcess(offer)
            blocks == EstimateBlocks(x, offer, t)
<1>1. goal \in Nat /\ x > goal
  BY StaleAboveGoal
<1>2. blocks = (x - goal + t - 1) \div t
  BY <1>1 DEF EstimateBlocks, RoundedUp
<1>. HIDE DEF goal, blocks
<1>3. CASE t = 1
  <2>1. blocks = (x - goal + 1 - 1) \div 1
    BY <1>2, <1>3
  <2>2. blocks = x - goal
    BY <1>1, <2>1
  <2>. QED
    BY <1>1, <1>3, <2>2 DEF goal, blocks
<1>4. CASE t = 2
  <2>1. blocks = (x - goal + 2 - 1) \div 2
    BY <1>2, <1>4
  <2>2. blocks \in Nat \ {0} /\ x <= goal + 2 * blocks /\ goal + 2 * (blocks - 1) < x
    BY <1>1, <2>1
  <2>. QED
    BY <1>4, <2>2 DEF goal, blocks
<1>. QED
  BY <1>3, <1>4

LEMMA CheckStep ==
  ASSUME WaitInv, Check
  PROVE  WaitInv'
<1>1. /\ excess \in Nat /\ offer \in Nat \ {0} /\ target \in {1, 2} /\ estimate = 0 /\ waited = 0
      /\ quiet /\ TypeOK /\ MaxFeeWait \in Nat /\ MaxExcess \in Nat /\ MaxOffer \in Nat
  BY ContractFeeAssumption DEF WaitInv, TypeOK, WaitAllowed, Check
<1>2. UNCHANGED <<excess, target, offer, waited, quiet>>
  BY DEF Check
<1>3. CASE pc' = "proceed" /\ UNCHANGED estimate
  BY <1>1, <1>2, <1>3 DEF WaitInv, TypeOK, LeftAsEstimated, WaitAllowed, QuietWaitSucceeds
<1>4. CASE /\ StaleAt(excess)
           /\ estimate' = EstimateBlocks(excess, offer, target)
           /\ pc' \in IF estimate' > MaxFeeWait THEN {"abort"} ELSE {"abort", "wait"}
  <2>. DEFINE goal == BinarySearchMaxExcess(offer)
  <2>1. /\ estimate' \in Nat \ {0} /\ goal \in Nat
        /\ excess <= goal + target * estimate' /\ goal + target * (estimate' - 1) < excess
    BY <1>1, <1>4, EstimateEffect, StaleAboveGoal
  <2>. HIDE DEF goal
  <2>2. pc' \in {"abort", "wait"} /\ (pc' = "wait" => estimate' <= MaxFeeWait)
    BY <1>1, <1>4, <2>1
  <2>3. TypeOK'
    BY <1>1, <1>2, <2>1, <2>2 DEF TypeOK
  <2>4. LeftAsEstimated'
    <3>1. goal' = goal
      BY <1>2 DEF goal
    <3>2. waited' = 0
      BY <1>1, <1>2
    <3>3. estimate' - waited' = estimate'
      <4>1. estimate' \in Nat
        BY <2>1
      <4>2. \A n \in Nat : n - 0 = n
        OBVIOUS
      <4>. QED
        BY <3>2, <4>1, <4>2
    <3>. QED
      BY <1>2, <2>1, <3>1, <3>3 DEF LeftAsEstimated, goal
  <2>5. WaitAllowed' /\ QuietWaitSucceeds'
    BY <1>1, <1>2, <2>1, <2>2 DEF WaitAllowed, QuietWaitSucceeds
  <2>. QED
    BY <2>3, <2>4, <2>5 DEF WaitInv
<1>. QED
  BY <1>3, <1>4 DEF Check

\* A turn of the wait; in a quiet one the excess falls by the target, or to nothing.
LEMMA PollStep ==
  ASSUME WaitInv, NEW x \in 0..MaxExcess, PollOnce(x), quiet' \in BOOLEAN,
         quiet' => quiet /\ x = ExcessAfter(excess, 0, target)
  PROVE  WaitInv'
<1>. DEFINE goal == BinarySearchMaxExcess(offer)
<1>1. /\ excess \in Nat /\ offer \in Nat \ {0} /\ target \in {1, 2} /\ x \in Nat
      /\ estimate \in 1..MaxFeeWait /\ waited \in Nat /\ waited < MaxFeeWait
      /\ quiet => waited < estimate
      /\ TypeOK /\ MaxFeeWait \in Nat /\ MaxExcess \in Nat /\ MaxOffer \in Nat
  BY ContractFeeAssumption DEF WaitInv, TypeOK, WaitAllowed, PollOnce
<1>2. excess' = x /\ waited' = waited + 1 /\ UNCHANGED <<target, offer, estimate>>
  BY DEF PollOnce
<1>3. pc' = "proceed" \/ (StaleAt(x) /\ pc' = IF waited + 1 < MaxFeeWait THEN "wait" ELSE "exhausted")
  BY DEF PollOnce, MayWaitOn
<1>4. goal \in Nat /\ (StaleAt(x) <=> x > goal)
  BY <1>1, StaleAboveGoal
<1>5. TypeOK'
  BY <1>1, <1>2, <1>3 DEF TypeOK
<1>6. ASSUME quiet'
      PROVE  LET left == estimate - (waited + 1)
             IN /\ left \in Nat
                /\ x <= goal + target * left
                /\ left > 0 => goal + target * (left - 1) < x
  <2>1. /\ excess <= goal + target * (estimate - waited)
        /\ goal + target * ((estimate - waited) - 1) < excess
    BY <1>1, <1>6 DEF WaitInv, LeftAsEstimated
  <2>2. x = IF excess > target THEN excess - target ELSE 0
    BY <1>1, <1>6 DEF ExcessAfter
  <2>. HIDE DEF goal
  <2>3. CASE target = 1
    BY <1>1, <1>4, <1>6, <2>1, <2>2, <2>3
  <2>4. CASE target = 2
    BY <1>1, <1>4, <1>6, <2>1, <2>2, <2>4
  <2>. QED
    BY <1>1, <2>3, <2>4
<1>7. LeftAsEstimated'
  <2>1. goal' = goal
    BY <1>2
  <2>. HIDE DEF goal
  <2>. QED
    BY <1>2, <1>6, <2>1 DEF LeftAsEstimated, goal
<1>8. ASSUME quiet', pc' # "proceed" PROVE waited + 1 < estimate
  <2>. HIDE DEF goal
  <2>1. x > goal
    BY <1>3, <1>4, <1>8
  <2>. QED
    BY <1>1, <1>4, <1>6, <1>8, <2>1
<1>9. WaitAllowed' /\ QuietWaitSucceeds'
  BY <1>1, <1>2, <1>3, <1>8 DEF WaitAllowed, QuietWaitSucceeds
<1>. QED
  BY <1>5, <1>7, <1>9 DEF WaitInv

\* The inductive invariant of the wait, for every bound on excess, offer, wait and
\* requests of others.
THEOREM WaitInvariant == Spec => []WaitInv
<1>1. Init => WaitInv
  BY ContractFeeAssumption
     DEF Init, WaitInv, TypeOK, LeftAsEstimated, WaitAllowed, QuietWaitSucceeds
<1>2. WaitInv /\ [Next]_vars => WaitInv'
  <2>1. SUFFICES ASSUME WaitInv, [Next]_vars PROVE WaitInv'
    OBVIOUS
  <2>2. CASE Check
    BY <2>1, <2>2, CheckStep
  <2>3. CASE SlotWithBlock
    <3>1. PICK n \in 0..MaxRequests :
            /\ ExcessAfter(excess, n, target) <= MaxExcess
            /\ quiet' = (quiet /\ n = 0)
            /\ PollOnce(ExcessAfter(excess, n, target))
      BY <2>3 DEF SlotWithBlock
    <3>2. ExcessAfter(excess, n, target) \in 0..MaxExcess
      BY <2>1, <3>1, ContractFeeAssumption DEF WaitInv, TypeOK, ExcessAfter
    <3>3. quiet' \in BOOLEAN /\ (quiet' => quiet /\ n = 0)
      BY <3>1
    <3>. QED
      BY <2>1, <3>1, <3>2, <3>3, PollStep
  <2>4. CASE MissedSlot
    <3>1. excess \in 0..MaxExcess /\ quiet' = FALSE /\ PollOnce(excess)
      BY <2>1, <2>4 DEF WaitInv, TypeOK, MissedSlot
    <3>. QED
      BY <2>1, <3>1, PollStep
  <2>5. CASE UNCHANGED vars
    BY <2>1, <2>5 DEF vars, WaitInv, TypeOK, LeftAsEstimated, WaitAllowed, QuietWaitSucceeds, StaleAt
  <2>. QED
    BY <2>1, <2>2, <2>3, <2>4, <2>5 DEF Next
<1>. QED
  BY <1>1, <1>2, PTL DEF Spec

\* In every state of a wait the estimate rests on the largest excess that the offer
\* covers.
THEOREM SearchStaysExact == Spec => []SearchIsExact
<1>1. WaitInv => SearchIsExact
  <2>1. SUFFICES ASSUME WaitInv PROVE SearchIsExact
    OBVIOUS
  <2>. DEFINE goal == BinarySearchMaxExcess(offer)
  <2>2. offer \in Nat \ {0} /\ MaxExcess \in Nat
    BY <2>1, ContractFeeAssumption DEF WaitInv, TypeOK
  <2>3. goal \in Nat /\ \A x \in Nat : Covers(offer, x) <=> x <= goal
    BY <2>2, SearchFindsLargest
  <2>4. Fee(goal) <= offer
    BY <2>3 DEF Covers
  <2>5. ASSUME NEW x \in goal + 1 .. goal + MaxExcess PROVE Fee(x) > offer
    <3>. HIDE DEF goal
    <3>1. x \in Nat /\ ~(x <= goal)
      BY <2>2, <2>3
    <3>2. Fee(x) \in Nat /\ ~(Fee(x) <= offer)
      BY <2>3, <3>1, FeeType DEF Covers
    <3>. QED
      BY <2>2, <3>2
  <2>. QED
    BY <2>4, <2>5 DEF SearchIsExact
<1>. QED
  BY <1>1, WaitInvariant, PTL

\* In quiet blocks the fee drops to the offer at the estimated block, not earlier and
\* not later.
THEOREM EstimateStaysExact == Spec => []EstimateIsExact
<1>1. WaitInv => EstimateIsExact
  <2>1. SUFFICES ASSUME WaitInv, quiet, estimate > 0
                 PROVE  /\ waited < estimate => StaleAt(excess)
                        /\ waited = estimate => ~StaleAt(excess)
    BY DEF EstimateIsExact
  <2>. DEFINE goal == BinarySearchMaxExcess(offer)
  <2>2. /\ offer \in Nat \ {0} /\ excess \in Nat /\ target \in {1, 2} /\ estimate \in Nat
        /\ waited \in Nat
    BY <2>1, ContractFeeAssumption DEF WaitInv, TypeOK
  <2>3. goal \in Nat /\ (StaleAt(excess) <=> excess > goal)
    BY <2>2, StaleAboveGoal
  <2>4. waited <= estimate =>
          /\ excess <= goal + target * (estimate - waited)
          /\ estimate - waited > 0 => goal + target * ((estimate - waited) - 1) < excess
    BY <2>1 DEF WaitInv, LeftAsEstimated
  <2>. HIDE DEF goal
  <2>5. CASE target = 1
    BY <2>2, <2>3, <2>4, <2>5
  <2>6. CASE target = 2
    BY <2>2, <2>3, <2>4, <2>6
  <2>. QED
    BY <2>2, <2>5, <2>6
<1>. QED
  BY <1>1, WaitInvariant, PTL

\* A wait that was allowed to begin runs into its bound only because of others.
THEOREM QuietWaitsSucceed == Spec => []QuietWaitSucceeds
<1>1. WaitInv => QuietWaitSucceeds
  BY DEF WaitInv
<1>. QED
  BY <1>1, WaitInvariant, PTL
=============================================================================
