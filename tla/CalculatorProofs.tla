-------------------------- MODULE CalculatorProofs --------------------------
(***************************************************************************)
(* calc returns the meaning of every expression.                           *)
(***************************************************************************)
EXTENDS Calculator, WellFoundedInduction, TLAPS

Text == Seq(Bytes)

----------------------------------------------------------------------------
(* Least and greatest numbers.  DataLemmas has the same facts together with *)
(* sums and counting, which this proof has no use for.                      *)

\* A set of naturals with an element has a least one.
LEMMA LeastExists ==
  ASSUME NEW S \in SUBSET Nat, S # {}
  PROVE  \E x \in S : \A y \in S : x <= y
<1> DEFINE R == {ss \in Nat \X Nat : ss[1] < ss[2]}
<1>1. IsWellFoundedOn(R, Nat)
  BY NatLessThanWellFounded DEF OpToRel
<1>2. \A x, y \in Nat : y < x => <<y, x>> \in R
  OBVIOUS
<1> HIDE DEF R
<1>3. PICK x \in S : \A y \in S : ~(<<y, x>> \in R)
  BY <1>1, WFMin, Zenon
<1>4. x \in Nat /\ \A y \in S : y \in Nat /\ ~(y < x)
  BY <1>2, <1>3, Zenon
<1> QED BY <1>4

\* Min of the numbers in a set.
LEMMA MinIsLeast ==
  ASSUME NEW S \in SUBSET Nat, S # {}
  PROVE  Min(S) \in S /\ \A y \in S : Min(S) <= y
BY LeastExists, Zenon DEF Min

\* Max of numbers up to n: the least distance from n.
LEMMA MaxIsGreatest ==
  ASSUME NEW n \in Nat, NEW S \in SUBSET (0 .. n), S # {}
  PROVE  Max(S) \in S /\ \A y \in S : y <= Max(S)
<1> DEFINE Gaps == {k \in Nat : n - k \in S}
<1>1. \A y \in S : n - y \in Gaps /\ y \in Nat
  <2> TAKE y \in S
  <2>1. y \in 0 .. n /\ n - y \in Nat /\ n - (n - y) = y
    OBVIOUS
  <2> QED BY <2>1
<1>2. \A k \in Gaps : n - k \in S
  OBVIOUS
<1>3. Gaps \in SUBSET Nat /\ Gaps # {}
  BY <1>1, Zenon
<1> HIDE DEF Gaps
<1>4. PICK g \in Gaps : \A h \in Gaps : g <= h
  BY <1>3, LeastExists
<1>5. g \in Nat /\ \A y \in S : n - g >= y
  BY <1>1, <1>3, <1>4
<1>6. \E z \in S : \A y \in S : z >= y
  BY <1>2, <1>4, <1>5
<1>7. Max(S) \in S /\ \A y \in S : Max(S) >= y
  BY <1>6, Zenon DEF Max
<1> QED BY <1>1, <1>7

\* Where the first byte a and the last byte b of what lies between lo and hi are,
\* in a text of length n.
Between(n, lo, hi, a, b) ==
  /\ hi \in lo .. n /\ a \in 0 .. n /\ b \in lo .. hi
  /\ a - 1 \in 0 .. n /\ a - 1 \in lo .. n /\ a - 1 \in lo .. a - 1
  /\ a - 1 + 1 = a /\ a - 1 < n /\ a - 1 # n
  /\ b \in a - 1 .. n /\ a \in a - 1 + 1 .. b
  /\ b - 1 \in 0 .. n /\ b - 1 + 1 = b /\ b - 1 < n
  /\ hi - a < hi - lo /\ b - 1 - a < hi - lo
  /\ b # hi => b + 1 \in b + 1 .. hi
  /\ \A q \in a .. hi : q \in lo .. hi
  /\ \A q \in a .. b - 1 : q \in 0 .. n /\ b - 1 \in q .. n

\* That is arithmetic.
LEMMA Places ==
  ASSUME NEW n \in Nat, NEW lo \in 0 .. n, NEW hi \in 0 .. n,
         NEW a \in lo + 1 .. hi, NEW b \in a .. hi
  PROVE  Between(n, lo, hi, a, b)
BY DEF Between

----------------------------------------------------------------------------
(* Blanks *)

\* skip_ws stops at the first byte that is not blank, or at the end.
LEMMA SkipBlanks ==
  ASSUME NEW s \in Text, NEW pos \in 0 .. Len(s)
  PROVE  /\ skip_ws(s, pos) \in pos .. Len(s)
         /\ Blank(s, pos, skip_ws(s, pos))
         /\ skip_ws(s, pos) < Len(s) => ~is_ascii_whitespace(s[skip_ws(s, pos) + 1])
<1> DEFINE n == Len(s)
           S == {p \in pos .. n : p < n => ~is_ascii_whitespace(s[p + 1])}
           w == skip_ws(s, pos)
<1>0. n \in Nat /\ pos \in 0 .. n
  BY DEF Text
<1> HIDE DEF n
<1>1. w = Min(S)
  BY Zenon DEF skip_ws, n
<1>2. n \in S /\ \A p \in S : p \in Nat
  BY <1>0
<1>3. w \in S /\ \A p \in S : w <= p
  BY <1>1, <1>2, MinIsLeast, Zenon
<1>4. Blank(s, pos, w)
  <2> SUFFICES ASSUME NEW i \in pos + 1 .. w, ~is_ascii_whitespace(s[i])
               PROVE  FALSE
    BY DEF Blank
  <2>1. i - 1 \in S /\ i - 1 < w
    BY <1>0, <1>3
  <2> QED BY <2>1, <1>3, <1>0
<1> QED BY <1>3, <1>4 DEF n

\* The place where skip_ws stops is the only one of its kind.
LEMMA SkipTo ==
  ASSUME NEW s \in Text, NEW pos \in 0 .. Len(s), NEW q \in pos .. Len(s),
         Blank(s, pos, q), q < Len(s) => ~is_ascii_whitespace(s[q + 1])
  PROVE  skip_ws(s, pos) = q
<1> DEFINE w == skip_ws(s, pos)
<1>0. Len(s) \in Nat
  BY DEF Text
<1>1. /\ w \in pos .. Len(s)
      /\ \A i \in pos + 1 .. w : is_ascii_whitespace(s[i])
      /\ w < Len(s) => ~is_ascii_whitespace(s[w + 1])
  BY SkipBlanks DEF Blank
<1>2. \A i \in pos + 1 .. q : is_ascii_whitespace(s[i])
  BY DEF Blank
<1> HIDE DEF w
<1>3. ~(w < q)
  BY <1>0, <1>1, <1>2
<1>4. ~(q < w)
  BY <1>0, <1>1
<1> QED BY <1>0, <1>1, <1>3, <1>4 DEF w

----------------------------------------------------------------------------
(* Outcomes *)

\* Ok and Err are outcomes, and their fields are their arguments.
LEMMA Outcomes ==
  ASSUME NEW s \in Text, NEW v \in Int, NEW pos \in 0 .. Len(s),
         NEW e \in {"overflow", "zero", "paren", "number", "trailing"}
  PROVE  /\ Ok(v, pos) \in Outcome(s) /\ Ok(v, pos).err = "none"
         /\ Ok(v, pos).value = v /\ Ok(v, pos).pos = pos
         /\ Err(e, pos) \in Outcome(s) /\ Err(e, pos).err # "none" /\ Err(e, pos).pos = pos
BY DEF Ok, Err, Outcome

\* An outcome has the fields of its type.
LEMMA OutcomeFields ==
  ASSUME NEW s \in Text, NEW r \in Outcome(s)
  PROVE  /\ r.value \in Int /\ r.pos \in 0 .. Len(s)
         /\ r.err = "none" => r = Ok(r.value, r.pos)
BY DEF Ok, Outcome

\* A loop starts with an outcome.
LEMMA StartOutcome ==
  ASSUME NEW s \in Text, NEW pos \in 0 .. Len(s)
  PROVE  Ok(0, pos) \in Outcome(s)
BY DEF Ok, Outcome

\* What parse_factor makes of a minus when the rest succeeds.
LEMMA MinusFactor ==
  ASSUME NEW s, NEW calls, NEW pos,
         ~consumes(s, pos, "+"), consumes(s, pos, "-"),
         factor(calls, after(s, pos)).err = "none"
  PROVE  parse_factor(s, calls, pos)
           = Checked(-factor(calls, after(s, pos)).value, factor(calls, after(s, pos)).pos)
BY Zenon DEF parse_factor

\* And of a parenthesis.
LEMMA ParenFactor ==
  ASSUME NEW s, NEW calls, NEW pos,
         ~consumes(s, pos, "+"), ~consumes(s, pos, "-"), consumes(s, pos, "("),
         parse_expr(calls, after(s, pos)).err = "none",
         consumes(s, parse_expr(calls, after(s, pos)).pos, ")")
  PROVE  parse_factor(s, calls, pos)
           = Ok(parse_expr(calls, after(s, pos)).value, after(s, parse_expr(calls, after(s, pos)).pos))
BY Zenon DEF parse_factor

\* What a result holds.
LEMMA OkParts ==
  ASSUME NEW v, NEW pos
  PROVE  Ok(v, pos).err = "none" /\ Ok(v, pos).value = v /\ Ok(v, pos).pos = pos
BY DEF Ok

\* Division and remainder of integers are integers.
LEMMA QuotientInt ==
  ASSUME NEW a \in Int, NEW b \in Int, b # 0
  PROVE  Quotient(a, b) \in Int /\ Remainder(a, b) \in Int
<1>1. Sign(a) \in Int /\ Sign(b) \in Int /\ Abs(a) \in Int /\ Abs(b) \in Nat \ {0}
  BY DEF Sign, Abs
<1>2. Abs(a) \div Abs(b) \in Int
  BY <1>1
<1>3. Sign(a) * Sign(b) \in Int
  BY <1>1
<1>4. Quotient(a, b) \in Int
  BY <1>2, <1>3 DEF Quotient
<1> QED BY <1>4 DEF Remainder

\* The checked operations leave the position alone.
LEMMA CheckedOutcome ==
  ASSUME NEW s \in Text, NEW a \in Int, NEW b \in Int, NEW pos \in 0 .. Len(s)
  PROVE  /\ Checked(a, pos) \in Outcome(s) /\ Checked(a, pos).pos = pos
         /\ checked_div(a, b, pos) \in Outcome(s) /\ checked_div(a, b, pos).pos = pos
         /\ checked_rem(a, b, pos) \in Outcome(s) /\ checked_rem(a, b, pos).pos = pos
<1>1. \A v \in Int : Checked(v, pos) \in Outcome(s) /\ Checked(v, pos).pos = pos
  BY Outcomes DEF Checked
<1>2. CASE b = 0
  <2>1. checked_div(a, b, pos) = Err("zero", pos) /\ checked_rem(a, b, pos) = Err("zero", pos)
    BY <1>2 DEF checked_div, checked_rem
  <2> QED BY <2>1, <1>1, Outcomes
<1>3. CASE b # 0
  <2>1. Quotient(a, b) \in Int /\ Remainder(a, b) \in Int
    BY <1>3, QuotientInt
  <2>2. checked_div(a, b, pos) = Checked(Quotient(a, b), pos)
    BY <1>3 DEF checked_div
  <2>3. \/ checked_rem(a, b, pos) = Ok(Remainder(a, b), pos)
        \/ checked_rem(a, b, pos) = Err("overflow", pos)
    BY <1>3 DEF checked_rem
  <2> QED BY <2>1, <2>2, <2>3, <1>1, Outcomes
<1> QED BY <1>2, <1>3

----------------------------------------------------------------------------
(* The calls of the parser exist: each looks only at calls further on.      *)

Call(s) == {"factor", "digits", "term_loop", "expr_loop"} \X Outcome(s)

\* What call c returns when the other calls return what f says.
Returned(s, f, c) ==
  CASE c[1] = "factor" -> parse_factor(s, f, c[2].pos)
    [] c[1] = "digits" -> digits(s, f, c[2])
    [] c[1] = "term_loop" -> term_loop(s, f, c[2])
    [] c[1] = "expr_loop" -> expr_loop(s, f, c[2])

\* f and h say the same of the calls after pos, and no call goes back.
Further(s, f, h, pos) ==
  \A c \in Call(s) :
    c[2].pos > pos => f[c] = h[c] /\ f[c] \in Outcome(s) /\ f[c].pos >= c[2].pos

\* consume succeeds only before the end, and goes on.
LEMMA ConsumeGoesOn ==
  ASSUME NEW s \in Text, NEW pos \in 0 .. Len(s), NEW ch, consumes(s, pos, ch)
  PROVE  /\ after(s, pos) \in pos + 1 .. Len(s)
         /\ s[after(s, pos)] = ch
         /\ Blank(s, pos, after(s, pos) - 1)
<1>0. Len(s) \in Nat
  BY DEF Text
<1>1. skip_ws(s, pos) \in pos .. Len(s) /\ Blank(s, pos, skip_ws(s, pos))
  BY SkipBlanks
<1> QED BY <1>0, <1>1 DEF consumes, after

\* Two tables that agree on the calls past pos give a parse function the same
\* result wherever it starts past pos.
LEMMA FurtherCalls ==
  ASSUME NEW s \in Text, NEW f, NEW h, NEW pos \in 0 .. Len(s), Further(s, f, h, pos),
         NEW p \in pos + 1 .. Len(s)
  PROVE  /\ factor(f, p) = factor(h, p)
         /\ factor(f, p) \in Outcome(s) /\ factor(f, p).pos >= p
         /\ parse_term(f, p) = parse_term(h, p)
         /\ parse_term(f, p) \in Outcome(s) /\ parse_term(f, p).pos >= p
         /\ parse_expr(f, p) = parse_expr(h, p)
         /\ parse_expr(f, p) \in Outcome(s) /\ parse_expr(f, p).pos >= p
<1>0. Len(s) \in Nat
  BY DEF Text
<1>1. \A fn \in {"factor", "digits", "term_loop", "expr_loop"}, r \in Outcome(s) :
        r.pos >= p => /\ f[<<fn, r>>] = h[<<fn, r>>]
                      /\ f[<<fn, r>>] \in Outcome(s)
                      /\ f[<<fn, r>>].pos >= p
  <2> TAKE fn \in {"factor", "digits", "term_loop", "expr_loop"}, r \in Outcome(s)
  <2> HAVE r.pos >= p
  <2> DEFINE c == <<fn, r>>
  <2>1. c \in Call(s) /\ c[2] = r
    BY DEF Call
  <2>2. r.pos \in Int /\ r.pos > pos
    BY <1>0, OutcomeFields
  <2>3. f[c] = h[c] /\ f[c] \in Outcome(s) /\ f[c].pos >= r.pos
    BY <2>1, <2>2 DEF Further
  <2>4. f[c].pos \in Int
    BY <2>3, OutcomeFields, <1>0
  <2> QED BY <2>2, <2>3, <2>4
<1>2. Ok(0, p) \in Outcome(s) /\ Ok(0, p).pos = p
  BY <1>0, Outcomes
<1>3. /\ factor(f, p) = factor(h, p)
      /\ factor(f, p) \in Outcome(s) /\ factor(f, p).pos >= p
  BY <1>0, <1>1, <1>2 DEF factor
<1>4. /\ parse_term(f, p) = parse_term(h, p)
      /\ parse_term(f, p) \in Outcome(s) /\ parse_term(f, p).pos >= p
  BY <1>1, <1>3 DEF parse_term
<1>5. /\ parse_expr(f, p) = parse_expr(h, p)
      /\ parse_expr(f, p) \in Outcome(s) /\ parse_expr(f, p).pos >= p
  BY <1>1, <1>4 DEF parse_expr
<1> QED BY <1>3, <1>4, <1>5

\* One call, from what the calls after it return.
LEMMA ReturnedAgrees ==
  ASSUME NEW s \in Text, NEW f, NEW h, NEW c \in Call(s), Further(s, f, h, c[2].pos)
  PROVE  /\ Returned(s, f, c) = Returned(s, h, c)
         /\ Returned(s, f, c) \in Outcome(s)
         /\ Returned(s, f, c).pos >= c[2].pos
<1> DEFINE left == c[2]
           pos == c[2].pos
           Fine(r) == r \in Outcome(s) /\ r.pos >= pos
<1>0. Len(s) \in Nat
  BY DEF Text
<1>1. left \in Outcome(s) /\ left.value \in Int /\ pos \in 0 .. Len(s) /\ Fine(left)
  <2>1. left \in Outcome(s)
    BY DEF Call
  <2> QED BY <2>1, <1>0, OutcomeFields
<1> HIDE DEF left, pos
<1>2. Further(s, f, h, pos)
  BY DEF pos
<1>3. \A p \in pos + 1 .. Len(s) :
        /\ factor(f, p) = factor(h, p)
        /\ factor(f, p) \in Outcome(s) /\ factor(f, p).pos >= p
        /\ parse_term(f, p) = parse_term(h, p)
        /\ parse_term(f, p) \in Outcome(s) /\ parse_term(f, p).pos >= p
        /\ parse_expr(f, p) = parse_expr(h, p)
        /\ parse_expr(f, p) \in Outcome(s) /\ parse_expr(f, p).pos >= p
  BY <1>1, <1>2, FurtherCalls
<1>4. \A fn \in {"factor", "digits", "term_loop", "expr_loop"}, r \in Outcome(s) :
        r.pos > pos => f[<<fn, r>>] = h[<<fn, r>>] /\ Fine(f[<<fn, r>>])
  <2> TAKE fn \in {"factor", "digits", "term_loop", "expr_loop"}, r \in Outcome(s)
  <2> HAVE r.pos > pos
  <2> DEFINE d == <<fn, r>>
  <2>1. d \in Call(s) /\ d[2] = r
    BY DEF Call
  <2>2. f[d] = h[d] /\ f[d] \in Outcome(s) /\ f[d].pos >= r.pos
    BY <1>2, <2>1 DEF Further
  <2>3. r.pos \in Int /\ f[d].pos \in Int
    BY <2>2, OutcomeFields, <1>0
  <2> QED BY <1>1, <2>2, <2>3
<1>5. \A v \in Int, p \in 0 .. Len(s) :
        /\ Ok(v, p) \in Outcome(s) /\ Ok(v, p).pos = p
        /\ Checked(v, p) \in Outcome(s) /\ Checked(v, p).pos = p
  BY Outcomes, CheckedOutcome
<1>6. \A e \in {"overflow", "zero", "paren", "number", "trailing"}, p \in 0 .. Len(s) :
        Err(e, p) \in Outcome(s) /\ Err(e, p).pos = p
  BY Outcomes
<1>7. \A ch : consumes(s, pos, ch) => after(s, pos) \in pos + 1 .. Len(s)
  BY <1>1, ConsumeGoesOn
<1>8. \A l \in Outcome(s) :
        l.pos \in pos .. Len(s) =>
          digits(s, f, l) = digits(s, h, l) /\ Fine(digits(s, f, l))
  <2> TAKE l \in Outcome(s)
  <2> HAVE l.pos \in pos .. Len(s)
  <2> DEFINE value == l.value * 10 + Digit[s[l.pos + 1]]
             r == Ok(value, l.pos + 1)
  <2>1. CASE l.pos = Len(s) \/ ~is_ascii_digit(s[l.pos + 1])
    <3>1. digits(s, f, l) = l /\ digits(s, h, l) = l
      BY <2>1 DEF digits
    <3> QED BY <3>1, <1>1
  <2>2. CASE ~(l.pos = Len(s) \/ ~is_ascii_digit(s[l.pos + 1]))
    <3>1. CASE ~InRange(l.value * 10) \/ ~InRange(value)
      <4>1. digits(s, f, l) = Err("overflow", l.pos) /\ digits(s, h, l) = Err("overflow", l.pos)
        BY <2>2, <3>1 DEF digits
      <4> QED BY <4>1, <1>1, <1>6
    <3>2. CASE ~(~InRange(l.value * 10) \/ ~InRange(value))
      <4>1. digits(s, f, l) = f[<<"digits", r>>] /\ digits(s, h, l) = h[<<"digits", r>>]
        BY <2>2, <3>2 DEF digits
      <4>2. value \in Int
        BY <3>2, RangeAssumption DEF InRange, MIN
      <4>3. l.pos + 1 \in 0 .. Len(s) /\ l.pos + 1 > pos
        BY <2>2, <1>0, <1>1
      <4> HIDE DEF value
      <4>4. r \in Outcome(s) /\ r.pos > pos
        BY <4>2, <4>3, <1>5
      <4> QED BY <4>1, <4>4, <1>4
    <3> QED BY <3>1, <3>2
  <2> QED BY <2>1, <2>2
<1>9. parse_number(s, f, pos) = parse_number(s, h, pos) /\ Fine(parse_number(s, f, pos))
  <2> DEFINE start == skip_ws(s, pos)
  <2>1. start \in pos .. Len(s)
    BY <1>1, SkipBlanks
  <2> HIDE DEF start
  <2>2. CASE start = Len(s) \/ ~is_ascii_digit(s[start + 1])
    <3>1. /\ parse_number(s, f, pos) = Err("number", start)
          /\ parse_number(s, h, pos) = Err("number", start)
      BY <2>2 DEF parse_number, start
    <3> QED BY <3>1, <2>1, <1>0, <1>1, <1>6
  <2>3. CASE ~(start = Len(s) \/ ~is_ascii_digit(s[start + 1]))
    <3>1. /\ parse_number(s, f, pos) = digits(s, f, Ok(0, start))
          /\ parse_number(s, h, pos) = digits(s, h, Ok(0, start))
      BY <2>3 DEF parse_number, start
    <3>2. Ok(0, start) \in Outcome(s) /\ Ok(0, start).pos = start
      BY <2>1, <1>0, <1>1, <1>5
    <3> QED BY <3>1, <3>2, <2>1, <1>8
  <2> QED BY <2>2, <2>3
<1>10. parse_factor(s, f, pos) = parse_factor(s, h, pos) /\ Fine(parse_factor(s, f, pos))
  <2> DEFINE p == after(s, pos)
  <2>1. CASE consumes(s, pos, "+")
    <3>1. parse_factor(s, f, pos) = factor(f, p) /\ parse_factor(s, h, pos) = factor(h, p)
      BY <2>1 DEF parse_factor
    <3>2. p \in pos + 1 .. Len(s)
      BY <2>1, <1>7
    <3>3. factor(f, p).pos \in Int
      BY <3>2, <1>3, <1>0, OutcomeFields
    <3> QED BY <3>1, <3>2, <3>3, <1>0, <1>1, <1>3
  <2>2. CASE ~consumes(s, pos, "+") /\ consumes(s, pos, "-")
    <3> DEFINE v == factor(f, p)
    <3>1. p \in pos + 1 .. Len(s)
      BY <2>2, <1>7
    <3>2. v = factor(h, p) /\ v \in Outcome(s) /\ v.pos >= p
      BY <3>1, <1>3
    <3>3. v.value \in Int /\ v.pos \in 0 .. Len(s) /\ v.pos >= pos
      BY <3>1, <3>2, <1>0, <1>1, OutcomeFields
    <3>4. /\ parse_factor(s, f, pos) = IF v.err # "none" THEN v ELSE Checked(-v.value, v.pos)
          /\ parse_factor(s, h, pos) = IF v.err # "none" THEN v ELSE Checked(-v.value, v.pos)
      BY <2>2, <3>2 DEF parse_factor
    <3> HIDE DEF v
    <3>5. Fine(Checked(-v.value, v.pos))
      BY <3>3, <1>5
    <3> QED BY <3>2, <3>3, <3>4, <3>5
  <2>3. CASE ~consumes(s, pos, "+") /\ ~consumes(s, pos, "-") /\ consumes(s, pos, "(")
    <3> DEFINE v == parse_expr(f, p)
    <3>1. p \in pos + 1 .. Len(s)
      BY <2>3, <1>7
    <3>2. v = parse_expr(h, p) /\ v \in Outcome(s) /\ v.pos >= p
      BY <3>1, <1>3
    <3>3. v.value \in Int /\ v.pos \in 0 .. Len(s) /\ v.pos >= pos
      BY <3>1, <3>2, <1>0, <1>1, OutcomeFields
    <3> DEFINE w == IF v.err # "none" THEN v
                    ELSE IF consumes(s, v.pos, ")") THEN Ok(v.value, after(s, v.pos))
                    ELSE Err("paren", skip_ws(s, v.pos))
    <3>4. parse_factor(s, f, pos) = w /\ parse_factor(s, h, pos) = w
      BY <2>3, <3>2 DEF parse_factor
    <3> HIDE DEF v
    <3>5. consumes(s, v.pos, ")") => Fine(Ok(v.value, after(s, v.pos)))
      <4> HAVE consumes(s, v.pos, ")")
      <4>1. after(s, v.pos) \in v.pos + 1 .. Len(s)
        BY <3>3, ConsumeGoesOn
      <4> QED BY <4>1, <3>3, <1>0, <1>1, <1>5
    <3>6. Fine(Err("paren", skip_ws(s, v.pos)))
      <4>1. skip_ws(s, v.pos) \in v.pos .. Len(s)
        BY <3>3, SkipBlanks
      <4> QED BY <4>1, <3>3, <1>0, <1>1, <1>6
    <3> QED BY <3>2, <3>3, <3>4, <3>5, <3>6
  <2>4. CASE ~consumes(s, pos, "+") /\ ~consumes(s, pos, "-") /\ ~consumes(s, pos, "(")
    <3>1. /\ parse_factor(s, f, pos) = parse_number(s, f, pos)
          /\ parse_factor(s, h, pos) = parse_number(s, h, pos)
      BY <2>4 DEF parse_factor
    <3> QED BY <3>1, <1>9
  <2> QED BY <2>1, <2>2, <2>3, <2>4
<1>11. term_loop(s, f, left) = term_loop(s, h, left) /\ Fine(term_loop(s, f, left))
  <2>0. left.pos = pos
    BY DEF left, pos
  <2> DEFINE Stops == left.err # "none" \/ \A op \in {"*", "/", "%"} : ~consumes(s, pos, op)
             p == after(s, pos)
             right == factor(f, p)
             next == IF right.err # "none" THEN right
                     ELSE IF consumes(s, pos, "*") THEN Checked(left.value * right.value, right.pos)
                     ELSE IF consumes(s, pos, "/") THEN checked_div(left.value, right.value, right.pos)
                     ELSE checked_rem(left.value, right.value, right.pos)
  <2>1. CASE Stops
    <3>1. term_loop(s, f, left) = left /\ term_loop(s, h, left) = left
      BY <2>0, <2>1 DEF term_loop
    <3> QED BY <3>1, <1>1
  <2>2. CASE ~Stops
    <3>1. p \in pos + 1 .. Len(s)
      BY <2>2, <1>7
    <3>2. right = factor(h, p) /\ right \in Outcome(s) /\ right.pos >= p
      BY <3>1, <1>3
    <3>3. /\ term_loop(s, f, left) = f[<<"term_loop", next>>]
          /\ term_loop(s, h, left) = h[<<"term_loop", next>>]
      BY <2>0, <2>2, <3>2 DEF term_loop
    <3>4. right.value \in Int /\ right.pos \in 0 .. Len(s) /\ right.pos > pos
      BY <3>1, <3>2, <1>0, <1>1, OutcomeFields
    <3> HIDE DEF right
    <3>5. left.value * right.value \in Int
      BY <3>4, <1>1
    <3>6. next \in Outcome(s) /\ next.pos = right.pos
      BY <3>2, <3>4, <3>5, <1>1, CheckedOutcome, ZenonT(30)
    <3> HIDE DEF next
    <3> QED BY <3>3, <3>4, <3>6, <1>4
  <2> QED BY <2>1, <2>2
<1>12. expr_loop(s, f, left) = expr_loop(s, h, left) /\ Fine(expr_loop(s, f, left))
  <2>0. left.pos = pos
    BY DEF left, pos
  <2> DEFINE Stops == left.err # "none" \/ \A op \in {"+", "-"} : ~consumes(s, pos, op)
             p == after(s, pos)
             right == parse_term(f, p)
             next == IF right.err # "none" THEN right
                     ELSE IF consumes(s, pos, "+") THEN Checked(left.value + right.value, right.pos)
                     ELSE Checked(left.value - right.value, right.pos)
  <2>1. CASE Stops
    <3>1. expr_loop(s, f, left) = left /\ expr_loop(s, h, left) = left
      BY <2>0, <2>1 DEF expr_loop
    <3> QED BY <3>1, <1>1
  <2>2. CASE ~Stops
    <3>1. p \in pos + 1 .. Len(s)
      BY <2>2, <1>7
    <3>2. right = parse_term(h, p) /\ right \in Outcome(s) /\ right.pos >= p
      BY <3>1, <1>3
    <3>3. /\ expr_loop(s, f, left) = f[<<"expr_loop", next>>]
          /\ expr_loop(s, h, left) = h[<<"expr_loop", next>>]
      BY <2>0, <2>2, <3>2 DEF expr_loop
    <3>4. right.value \in Int /\ right.pos \in 0 .. Len(s) /\ right.pos > pos
      BY <3>1, <3>2, <1>0, <1>1, OutcomeFields
    <3> HIDE DEF right
    <3>5. left.value + right.value \in Int /\ left.value - right.value \in Int
      BY <3>4, <1>1
    <3>6. next \in Outcome(s) /\ next.pos = right.pos
      BY <3>2, <3>4, <3>5, <1>5
    <3> HIDE DEF next
    <3> QED BY <3>3, <3>4, <3>6, <1>4
  <2> QED BY <2>1, <2>2
<1>13. digits(s, f, left) = digits(s, h, left) /\ Fine(digits(s, f, left))
  BY <1>0, <1>1, <1>8 DEF left, pos
<1>14. c[1] \in {"factor", "digits", "term_loop", "expr_loop"}
  BY DEF Call
<1> QED BY <1>10, <1>11, <1>12, <1>13, <1>14 DEF Returned, left, pos

\* calls satisfies the equation of CalcParser from position m on.
CallsFrom(s, m) == {c \in Call(s) : c[2].pos >= m}
ReturnsFrom(s, f, m) ==
  /\ f = [c \in CallsFrom(s, m) |-> Returned(s, f, c)]
  /\ \A c \in CallsFrom(s, m) : f[c] \in Outcome(s) /\ f[c].pos >= c[2].pos

\* One position further back.
LEMMA CallsExtend ==
  ASSUME NEW s \in Text, NEW m \in 0 .. Len(s), NEW f, ReturnsFrom(s, f, m + 1)
  PROVE  \E h : ReturnsFrom(s, h, m)
<1> DEFINE h == [c \in CallsFrom(s, m) |->
                   IF c \in CallsFrom(s, m + 1) THEN f[c] ELSE Returned(s, f, c)]
<1>0. Len(s) \in Nat
  BY DEF Text
<1>1. \A c \in Call(s) : c[2].pos \in 0 .. Len(s)
  BY OutcomeFields DEF Call
<1>2. ASSUME NEW c \in CallsFrom(s, m)
      PROVE  /\ Returned(s, f, c) = Returned(s, h, c)
             /\ Returned(s, f, c) \in Outcome(s)
             /\ Returned(s, f, c).pos >= c[2].pos
  <2>1. c \in Call(s) /\ c[2].pos >= m
    BY DEF CallsFrom
  <2>2. Further(s, f, h, c[2].pos)
    <3> SUFFICES ASSUME NEW d \in Call(s), d[2].pos > c[2].pos
                 PROVE  f[d] = h[d] /\ f[d] \in Outcome(s) /\ f[d].pos >= d[2].pos
      BY DEF Further
    <3>1. d[2].pos >= m + 1 /\ d[2].pos >= m
      BY <1>0, <1>1, <2>1
    <3>2. d \in CallsFrom(s, m + 1) /\ d \in CallsFrom(s, m)
      BY <3>1 DEF CallsFrom
    <3> QED BY <3>2 DEF ReturnsFrom
  <2> HIDE DEF h
  <2> QED BY <2>1, <2>2, ReturnedAgrees
<1>3. ASSUME NEW c \in CallsFrom(s, m)
      PROVE  h[c] = Returned(s, f, c)
  <2>1. c \in CallsFrom(s, m + 1) => f[c] = Returned(s, f, c)
    BY DEF ReturnsFrom
  <2> QED BY <2>1
<1>4. h = [c \in CallsFrom(s, m) |-> Returned(s, f, c)]
  BY <1>3
<1>5. h = [c \in CallsFrom(s, m) |-> Returned(s, h, c)]
  <2> HIDE DEF h
  <2> QED BY <1>2, <1>4
<1> HIDE DEF h
<1>6. \A c \in CallsFrom(s, m) : h[c] \in Outcome(s) /\ h[c].pos >= c[2].pos
  BY <1>2, <1>3
<1> QED BY <1>5, <1>6 DEF ReturnsFrom

\* CalcParser: every call returns what its function says, and does not go back.
LEMMA CallsReturn ==
  ASSUME NEW s \in Text
  PROVE  \A c \in Call(s) : /\ CalcParser(s)[c] = Returned(s, CalcParser(s), c)
                            /\ CalcParser(s)[c] \in Outcome(s)
                            /\ CalcParser(s)[c].pos >= c[2].pos
<1> DEFINE n == Len(s)
           Bad == {k \in 0 .. n + 1 : ~\E f : ReturnsFrom(s, f, n + 1 - k)}
<1>0. n \in Nat
  BY DEF Text
<1>1. \A c \in Call(s) : c[2].pos \in 0 .. n
  BY OutcomeFields DEF Call
<1>2. Bad = {}
  <2> SUFFICES ASSUME Bad # {}
               PROVE  FALSE
    OBVIOUS
  <2>1. \A j \in Bad : j \in Nat
    BY <1>0
  <2>2. PICK k \in Bad : \A j \in Bad : k <= j
    BY <2>1, LeastExists, Zenon
  <2>3. k # 0
    <3>1. CallsFrom(s, n + 1) = {}
      BY <1>0, <1>1 DEF CallsFrom
    <3> DEFINE f == [c \in CallsFrom(s, n + 1) |-> 0]
    <3>2. ReturnsFrom(s, f, n + 1)
      BY <3>1 DEF ReturnsFrom
    <3> QED BY <3>2, <1>0
  <2>4. k - 1 \in 0 .. n + 1 /\ k - 1 \notin Bad
    BY <2>2, <2>3, <1>0
  <2>5. PICK f : ReturnsFrom(s, f, n + 1 - (k - 1))
    BY <2>4
  <2>6. n + 1 - k \in 0 .. n /\ n + 1 - (k - 1) = n + 1 - k + 1
    BY <2>2, <2>3, <1>0
  <2>7. \E h : ReturnsFrom(s, h, n + 1 - k)
    BY <2>5, <2>6, CallsExtend
  <2> QED BY <2>7, <2>2
<1>3. PICK g : ReturnsFrom(s, g, 0)
  <2>1. n + 1 \in 0 .. n + 1 /\ n + 1 - (n + 1) = 0
    BY <1>0
  <2> QED BY <1>2, <2>1
<1>4. CallsFrom(s, 0) = Call(s)
  BY <1>1, <1>0 DEF CallsFrom
<1>5. g = [c \in Call(s) |-> Returned(s, g, c)]
  BY <1>3, <1>4 DEF ReturnsFrom
<1> DEFINE f == CalcParser(s)
<1>6. f = [c \in Call(s) |-> Returned(s, f, c)]
  BY <1>5, Zenon DEF CalcParser, Call, Returned
<1> HIDE DEF f
<1> DEFINE Late == {k \in 0 .. n :
                      \E c \in Call(s) : c[2].pos = n - k /\ ~(f[c] \in Outcome(s) /\ f[c].pos >= c[2].pos)}
<1>7. Late = {}
  <2> SUFFICES ASSUME Late # {}
               PROVE  FALSE
    OBVIOUS
  <2>1. \A j \in Late : j \in Nat
    BY <1>0
  <2>2. PICK k \in Late : \A j \in Late : k <= j
    BY <2>1, LeastExists, Zenon
  <2>3. PICK c \in Call(s) : c[2].pos = n - k /\ ~(f[c] \in Outcome(s) /\ f[c].pos >= c[2].pos)
    BY <2>2
  <2>4. Further(s, f, f, c[2].pos)
    <3> SUFFICES ASSUME NEW d \in Call(s), d[2].pos > c[2].pos
                 PROVE  f[d] \in Outcome(s) /\ f[d].pos >= d[2].pos
      BY DEF Further
    <3> DEFINE j == n - d[2].pos
    <3>1. j \in 0 .. n /\ d[2].pos = n - j /\ j < k
      BY <1>0, <1>1, <2>2, <2>3
    <3>2. j \notin Late
      BY <3>1, <2>2
    <3> QED BY <3>1, <3>2
  <2>5. f[c] = Returned(s, f, c)
    BY <1>6
  <2> QED BY <2>3, <2>4, <2>5, ReturnedAgrees
<1>8. ASSUME NEW c \in Call(s)
      PROVE  f[c] = Returned(s, f, c) /\ f[c] \in Outcome(s) /\ f[c].pos >= c[2].pos
  <2>1. f[c] = Returned(s, f, c)
    BY <1>6
  <2> DEFINE j == n - c[2].pos
  <2>2. j \in 0 .. n /\ c[2].pos = n - j
    BY <1>0, <1>1
  <2>3. j \notin Late
    BY <1>7
  <2> QED BY <2>1, <2>2, <2>3
<1> QED BY <1>8 DEF f

----------------------------------------------------------------------------
(* The recursive functions of the reference exist.                          *)

\* f[i] = c * f[i - 1] + w[i] after position lo.
Linear(f, lo, hi, c, w) ==
  f = [i \in lo .. hi |-> IF i = lo THEN 0 ELSE c * f[i - 1] + w[i]]

\* Such a function exists.
LEMMA LinearExists ==
  ASSUME NEW lo \in Int, NEW hi \in Int, NEW c, NEW w
  PROVE  \E f : Linear(f, lo, hi, c, w)
<1> DEFINE Is(f, m) == f = [i \in lo .. m |-> IF i = lo THEN 0 ELSE c * f[i - 1] + w[i]]
           Bad == {k \in Nat : ~\E f : Is(f, lo + k)}
<1>1. Bad = {}
  <2> SUFFICES ASSUME Bad # {}
               PROVE  FALSE
    OBVIOUS
  <2>1. PICK k \in Bad : \A j \in Bad : k <= j
    BY LeastExists, Zenon
  <2>2. k # 0
    <3> DEFINE f == [i \in lo .. lo |-> 0]
    <3>1. Is(f, lo)
      OBVIOUS
    <3>2. \E g : Is(g, lo)
      BY <3>1, Zenon
    <3>3. lo + 0 = lo
      OBVIOUS
    <3> QED BY <3>2, <3>3, Zenon
  <2>3. k - 1 \in Nat /\ k - 1 \notin Bad
    <3>1. k \in Nat
      BY <2>1
    <3> HIDE DEF Bad
    <3> QED BY <3>1, <2>1, <2>2
  <2>4. PICK f : Is(f, lo + (k - 1))
    BY <2>3
  <2> DEFINE m == lo + k
             h == [i \in lo .. m |->
                     IF i = m THEN c * f[m - 1] + w[m] ELSE f[i]]
  <2>5. m \in Int /\ m > lo /\ lo + (k - 1) = m - 1
    BY <2>1, <2>2
  <2>6. \A i \in lo .. m - 1 : h[i] = f[i] /\ f[i] = IF i = lo THEN 0 ELSE c * f[i - 1] + w[i]
    <3> HIDE DEF m
    <3> QED BY <2>4, <2>5
  <2>7. \A i \in lo .. m : h[i] = IF i = lo THEN 0 ELSE c * h[i - 1] + w[i]
    <3> TAKE i \in lo .. m
    <3> HIDE DEF m
    <3>1. CASE i = m
      <4>1. h[i] = c * f[m - 1] + w[m] /\ m - 1 \in lo .. m - 1
        BY <3>1, <2>5
      <4>2. h[m - 1] = f[m - 1]
        BY <4>1, <2>6
      <4> QED BY <4>1, <4>2, <3>1, <2>5
    <3>2. CASE i = lo
      <4>1. lo \in lo .. m - 1
        BY <2>5
      <4> HIDE DEF h
      <4> QED BY <3>2, <4>1, <2>6
    <3>3. CASE i # m /\ i # lo
      <4>1. i \in lo .. m - 1 /\ i - 1 \in lo .. m - 1
        BY <3>3, <2>5
      <4>2. h[i] = c * f[i - 1] + w[i] /\ h[i - 1] = f[i - 1]
        BY <4>1, <2>6, <3>3, Zenon
      <4> QED BY <4>2, <3>3
    <3> QED BY <3>1, <3>2, <3>3
  <2>8. Is(h, m)
    <3>1. h = [i \in lo .. m |-> h[i]]
      OBVIOUS
    <3> HIDE DEF h
    <3> QED BY <2>7, <3>1, Zenon
  <2> QED BY <2>8, <2>1, Zenon
<1> USE DEF Linear
<1>2. CASE hi >= lo
  <2>1. hi - lo \in Nat /\ lo + (hi - lo) = hi
    BY <1>2
  <2>2. hi - lo \notin Bad
    BY <1>1, Zenon
  <2>3. \E f : Is(f, lo + (hi - lo))
    BY <2>1, <2>2
  <2> QED BY <2>1, <2>3
<1>3. CASE hi < lo
  <2> DEFINE f == [i \in lo .. hi |-> 0]
  <2>1. lo .. hi = {}
    BY <1>3
  <2>2. Is(f, hi)
    BY <2>1
  <2> QED BY <2>2
<1> QED BY <1>2, <1>3

\* Depth counts one byte at a time.
LEMMA DepthStep ==
  ASSUME NEW s \in Text
  PROVE  /\ \A i \in 0 .. Len(s) : Depth(s)[i] \in Int
         /\ \A i \in 1 .. Len(s) :
              /\ s[i] = "(" => Depth(s)[i] = Depth(s)[i - 1] + 1
              /\ s[i] = ")" => Depth(s)[i] = Depth(s)[i - 1] - 1
              /\ s[i] # "(" /\ s[i] # ")" => Depth(s)[i] = Depth(s)[i - 1]
<1> DEFINE n == Len(s)
           Step(i) == CASE s[i] = "(" -> 1 [] s[i] = ")" -> -1 [] OTHER -> 0
           w == [i \in 1 .. n |-> Step(i)]
           Is(f) == f = [i \in 0 .. n |-> IF i = 0 THEN 0 ELSE f[i - 1] + Step(i)]
           IsInt(f) == \A i \in 0 .. n : f[i] \in Int
<1>0. n \in Nat
  BY DEF Text
<1>1. \A i : /\ Step(i) \in Int
             /\ s[i] = "(" => Step(i) = 1
             /\ s[i] = ")" => Step(i) = -1
             /\ s[i] # "(" /\ s[i] # ")" => Step(i) = 0
  OBVIOUS
<1> HIDE DEF Step
<1>w. \A i \in 1 .. n : w[i] = Step(i)
  OBVIOUS
<1> HIDE DEF w, n
<1>2. ASSUME NEW f, \A i \in 0 .. n : f[i] = IF i = 0 THEN 0 ELSE 1 * f[i - 1] + w[i]
      PROVE  IsInt(f)
  <2> DEFINE Bad == {i \in 0 .. n : f[i] \notin Int}
  <2> SUFFICES ASSUME Bad # {}
               PROVE  FALSE
    OBVIOUS
  <2>1. \A j \in Bad : j \in Nat
    BY <1>0
  <2>2. PICK k \in Bad : \A j \in Bad : k <= j
    BY <2>1, LeastExists, Zenon
  <2>3. k # 0
    BY <1>2, <1>0
  <2>4. k - 1 \in 0 .. n /\ k - 1 \notin Bad
    BY <1>0, <2>2, <2>3
  <2>5. f[k - 1] \in Int /\ f[k] = 1 * f[k - 1] + w[k] /\ w[k] \in Int
    BY <1>0, <1>1, <1>w, <1>2, <2>2, <2>3, <2>4
  <2> QED BY <2>5, <2>2
<1>3. PICK g : Linear(g, 0, n, 1, w)
  <2>1. 0 \in Int /\ n \in Int
    BY <1>0
  <2> QED BY <2>1, LinearExists
<1>4. \A i \in 0 .. n : g[i] = IF i = 0 THEN 0 ELSE 1 * g[i - 1] + w[i]
  BY <1>3, Zenon DEF Linear
<1>5. IsInt(g)
  BY <1>2, <1>4
<1>6. \A i \in 0 .. n : g[i] = IF i = 0 THEN 0 ELSE g[i - 1] + Step(i)
  <2> TAKE i \in 0 .. n
  <2>1. CASE i = 0
    BY <2>1, <1>4
  <2>2. CASE i # 0
    <3>1. i \in 1 .. n /\ i - 1 \in 0 .. n
      BY <2>2, <1>0
    <3>2. g[i - 1] \in Int /\ g[i] = 1 * g[i - 1] + w[i] /\ w[i] = Step(i)
      BY <3>1, <2>2, <1>4, <1>5, <1>w
    <3> QED BY <3>2, <2>2
  <2> QED BY <2>1, <2>2
<1>7. Is(g)
  BY <1>3, <1>6 DEF Linear
<1> DEFINE d == Depth(s)
<1>8. Is(d)
  BY <1>7, Zenon DEF Depth, Step, n
<1> HIDE DEF d
<1>9. \A i \in 0 .. n : d[i] = IF i = 0 THEN 0 ELSE d[i - 1] + Step(i)
  BY <1>8, Zenon
<1>10. IsInt(d)
  <2> DEFINE Bad == {i \in 0 .. n : d[i] \notin Int}
  <2> SUFFICES ASSUME Bad # {}
               PROVE  FALSE
    OBVIOUS
  <2>1. \A j \in Bad : j \in Nat
    BY <1>0
  <2>2. PICK k \in Bad : \A j \in Bad : k <= j
    BY <2>1, LeastExists, Zenon
  <2>3. k # 0
    BY <1>9, <1>0
  <2>4. k - 1 \in 0 .. n /\ k - 1 \notin Bad
    BY <1>0, <2>2, <2>3
  <2>5. d[k - 1] \in Int /\ d[k] = d[k - 1] + Step(k) /\ Step(k) \in Int
    BY <1>0, <1>1, <1>9, <2>2, <2>3, <2>4
  <2> QED BY <2>5, <2>2
<1>11. \A i \in 1 .. n : d[i] = d[i - 1] + Step(i) /\ d[i - 1] \in Int
  BY <1>0, <1>9, <1>10
<1> QED BY <1>0, <1>1, <1>10, <1>11 DEF d, n

\* Decimal reads one digit at a time.
LEMMA DecimalStep ==
  ASSUME NEW s \in Text, NEW lo \in 0 .. Len(s)
  PROVE  /\ Decimal(s, lo)[lo] = 0
         /\ \A i \in lo + 1 .. Len(s) :
              Decimal(s, lo)[i] = 10 * Decimal(s, lo)[i - 1] + Digit[s[i]]
<1> DEFINE n == Len(s)
           w == [i \in lo .. n |-> Digit[s[i]]]
           v == Decimal(s, lo)
<1>0. n \in Nat /\ lo \in 0 .. n
  BY DEF Text
<1>w. \A i \in lo .. n : w[i] = Digit[s[i]]
  OBVIOUS
<1> HIDE DEF w, n
<1>1. PICK g : Linear(g, lo, n, 10, w)
  <2>1. lo \in Int /\ n \in Int
    BY <1>0
  <2> QED BY <2>1, LinearExists, Zenon
<1>2. g = [i \in lo .. n |-> IF i = lo THEN 0 ELSE 10 * g[i - 1] + Digit[s[i]]]
  BY <1>1, <1>w, Zenon DEF Linear
<1>3. v = [i \in lo .. n |-> IF i = lo THEN 0 ELSE 10 * v[i - 1] + Digit[s[i]]]
  BY <1>2, Zenon DEF Decimal, n
<1> HIDE DEF v
<1>4. \A i \in lo .. n : v[i] = IF i = lo THEN 0 ELSE 10 * v[i - 1] + Digit[s[i]]
  BY <1>3, Zenon
<1> QED BY <1>0, <1>4 DEF v, n

\* What the digits make is a natural number that grows with each digit.
LEMMA DecimalGrows ==
  ASSUME NEW s \in Text, NEW lo \in 0 .. Len(s), NEW hi \in lo .. Len(s),
         Digits(s, lo, hi)
  PROVE  \A i \in lo .. hi : Decimal(s, lo)[i] \in Nat /\ Decimal(s, lo)[i] <= Decimal(s, lo)[hi]
<1> DEFINE n == Len(s)
           v == Decimal(s, lo)
<1>0. n \in Nat /\ lo \in 0 .. n /\ hi \in lo .. n
  BY DEF Text
<1>1. v[lo] = 0 /\ \A i \in lo + 1 .. n : v[i] = 10 * v[i - 1] + Digit[s[i]]
  BY DecimalStep
<1> HIDE DEF v, n
<1>2. \A i \in lo + 1 .. hi : Digit[s[i]] \in Nat
  BY DEF Digits, is_ascii_digit, Digit
<1>3. \A i \in lo .. hi : v[i] \in Nat
  <2> DEFINE Bad == {i \in lo .. hi : v[i] \notin Nat}
  <2> SUFFICES ASSUME Bad # {}
               PROVE  FALSE
    OBVIOUS
  <2>1. \A j \in Bad : j \in Nat
    BY <1>0
  <2>2. PICK k \in Bad : \A j \in Bad : k <= j
    BY <2>1, LeastExists, Zenon
  <2>3. k # lo
    BY <1>1, <1>0
  <2>4. k - 1 \in lo .. hi /\ k - 1 \notin Bad /\ k \in lo + 1 .. hi /\ k \in lo + 1 .. n
    BY <1>0, <2>2, <2>3
  <2>5. v[k - 1] \in Nat /\ v[k] = 10 * v[k - 1] + Digit[s[k]] /\ Digit[s[k]] \in Nat
    BY <1>1, <1>2, <2>4
  <2> QED BY <2>5, <2>2
<1>4. \A i \in lo + 1 .. hi : v[i - 1] <= v[i]
  <2> TAKE i \in lo + 1 .. hi
  <2>1. i - 1 \in lo .. hi /\ i \in lo + 1 .. n
    BY <1>0
  <2>2. v[i] = 10 * v[i - 1] + Digit[s[i]] /\ v[i - 1] \in Nat /\ Digit[s[i]] \in Nat
    BY <1>1, <1>2, <1>3, <2>1
  <2> QED BY <2>2
<1>5. \A i \in lo .. hi : v[i] <= v[hi]
  <2> DEFINE Bad == {k \in 0 .. hi - lo : ~(v[hi - k] <= v[hi])}
  <2>1. Bad = {}
    <3> SUFFICES ASSUME Bad # {}
                 PROVE  FALSE
      OBVIOUS
    <3>1. \A j \in Bad : j \in Nat
      BY <1>0
    <3>2. PICK k \in Bad : \A j \in Bad : k <= j
      BY <3>1, LeastExists, Zenon
    <3>3. k # 0
      BY <1>0, <1>3
    <3>4. k - 1 \in 0 .. hi - lo /\ k - 1 \notin Bad
      <4>1. k \in 0 .. hi - lo
        BY <3>2
      <4> HIDE DEF Bad
      <4> QED BY <4>1, <1>0, <3>2, <3>3
    <3> DEFINE i == hi - k + 1
    <3>5. i \in lo + 1 .. hi /\ hi - (k - 1) = i /\ hi - k = i - 1 /\ hi \in lo .. hi /\ i - 1 \in lo .. hi
      BY <1>0, <3>2, <3>3
    <3>6. v[i] <= v[hi] /\ v[i - 1] <= v[i]
      BY <3>4, <3>5, <1>4
    <3>7. v[i] \in Nat /\ v[hi] \in Nat /\ v[i - 1] \in Nat
      BY <3>5, <1>3, <1>0
    <3>8. v[hi - k] <= v[hi]
      BY <3>5, <3>6, <3>7
    <3> QED BY <3>8, <3>2
  <2> TAKE i \in lo .. hi
  <2>2. hi - i \in 0 .. hi - lo /\ hi - (hi - i) = i
    BY <1>0
  <2> QED BY <2>1, <2>2, Zenon
<1> QED BY <1>3, <1>5 DEF v

Sums(s, lo, hi) == Splits(s, lo, hi, {"+", "-"})
Products(s, lo, hi) == Splits(s, lo, hi, {"*", "/", "%"})
Ink(s, lo, hi) == {i \in lo + 1 .. hi : ~is_ascii_whitespace(s[i])}
Outermost(s, lo, hi) == IF Sums(s, lo, hi) # {} THEN Max(Sums(s, lo, hi)) ELSE Max(Products(s, lo, hi))

\* What the part r means when the parts of r mean what m says.
Means(s, m, r) ==
  IF Ink(s, r[1], r[2]) = {} \/ Depth(s)[r[1]] # Depth(s)[r[2]] THEN Undefined
  ELSE IF Sums(s, r[1], r[2]) \cup Products(s, r[1], r[2]) # {}
  THEN Apply(s[Outermost(s, r[1], r[2])],
             m[<<r[1], Outermost(s, r[1], r[2]) - 1>>], m[<<Outermost(s, r[1], r[2]), r[2]>>])
  ELSE IF s[Min(Ink(s, r[1], r[2]))] \in {"+", "-"}
  THEN Apply(s[Min(Ink(s, r[1], r[2]))], 0, m[<<Min(Ink(s, r[1], r[2])), r[2]>>])
  ELSE IF s[Min(Ink(s, r[1], r[2]))] = "(" /\ s[Max(Ink(s, r[1], r[2]))] = ")"
  THEN m[<<Min(Ink(s, r[1], r[2])), Max(Ink(s, r[1], r[2])) - 1>>]
  ELSE IF Digits(s, Min(Ink(s, r[1], r[2])) - 1, Max(Ink(s, r[1], r[2])))
  THEN Defined(Decimal(s, Min(Ink(s, r[1], r[2])) - 1)[Max(Ink(s, r[1], r[2]))])
  ELSE Undefined

Part(s) == (0 .. Len(s)) \X (0 .. Len(s))

\* The first and the last byte that is not blank.
LEMMA InkEnds ==
  ASSUME NEW s \in Text, NEW lo \in 0 .. Len(s), NEW hi \in 0 .. Len(s), Ink(s, lo, hi) # {}
  PROVE  /\ Min(Ink(s, lo, hi)) \in lo + 1 .. hi
         /\ Max(Ink(s, lo, hi)) \in Min(Ink(s, lo, hi)) .. hi
         /\ ~is_ascii_whitespace(s[Min(Ink(s, lo, hi))])
         /\ ~is_ascii_whitespace(s[Max(Ink(s, lo, hi))])
         /\ Blank(s, lo, Min(Ink(s, lo, hi)) - 1)
         /\ Blank(s, Max(Ink(s, lo, hi)), hi)
<1> DEFINE I == Ink(s, lo, hi)
           a == Min(I)
           b == Max(I)
<1>0. Len(s) \in Nat /\ lo \in Nat /\ hi \in Nat
  BY DEF Text
<1>1. \A i : i \in I <=> i \in lo + 1 .. hi /\ ~is_ascii_whitespace(s[i])
  BY DEF Ink
<1>2. I # {} /\ (\A i \in I : i \in Nat) /\ \A i \in I : i \in 0 .. hi
  BY <1>0, <1>1
<1> HIDE DEF I
<1>3. a \in I /\ \A i \in I : a <= i
  BY <1>2, MinIsLeast
<1>4. b \in I /\ \A i \in I : i <= b
  BY <1>0, <1>2, MaxIsGreatest, Zenon
<1> HIDE DEF a, b
<1>5. Blank(s, lo, a - 1)
  <2> SUFFICES ASSUME NEW i \in lo + 1 .. a - 1, ~is_ascii_whitespace(s[i])
               PROVE  FALSE
    BY DEF Blank
  <2>1. i \in I /\ i < a
    BY <1>0, <1>1, <1>3
  <2> QED BY <2>1, <1>0, <1>1, <1>3
<1>6. Blank(s, b, hi)
  <2> SUFFICES ASSUME NEW i \in b + 1 .. hi, ~is_ascii_whitespace(s[i])
               PROVE  FALSE
    BY DEF Blank
  <2>1. i \in I /\ i > b
    BY <1>0, <1>1, <1>4
  <2> QED BY <2>1, <1>0, <1>1, <1>4
<1>7. a \in lo + 1 .. hi /\ b \in a .. hi
  BY <1>0, <1>1, <1>3, <1>4
<1> QED BY <1>1, <1>3, <1>4, <1>5, <1>6, <1>7 DEF a, b, I

\* The outermost operator is the last of the lowest precedence.
LEMMA OutermostIs ==
  ASSUME NEW s \in Text, NEW lo \in 0 .. Len(s), NEW hi \in 0 .. Len(s),
         Sums(s, lo, hi) \cup Products(s, lo, hi) # {}
  PROVE  LET k == Outermost(s, lo, hi)
         IN  /\ k \in lo + 1 .. hi
             /\ Sums(s, lo, hi) # {} =>
                  k \in Sums(s, lo, hi) /\ \A i \in Sums(s, lo, hi) : i <= k
             /\ Sums(s, lo, hi) = {} =>
                  k \in Products(s, lo, hi) /\ \A i \in Products(s, lo, hi) : i <= k
<1> DEFINE A == Sums(s, lo, hi)
           B == Products(s, lo, hi)
<1>0. Len(s) \in Nat /\ lo \in Nat /\ hi \in Nat
  BY DEF Text
<1>1. /\ A # {} \/ B # {}
      /\ \A i \in A : i \in lo + 1 .. hi
      /\ \A i \in B : i \in lo + 1 .. hi
  BY DEF Sums, Products, Splits
<1>2. Outermost(s, lo, hi) = IF A # {} THEN Max(A) ELSE Max(B)
  BY DEF Outermost
<1> HIDE DEF A, B
<1>3. /\ \A i \in A : i \in 0 .. hi
      /\ \A i \in B : i \in 0 .. hi
  BY <1>0, <1>1
<1>4. A # {} => Max(A) \in A /\ \A i \in A : i <= Max(A)
  BY <1>0, <1>3, MaxIsGreatest, Zenon
<1>5. B # {} => Max(B) \in B /\ \A i \in B : i <= Max(B)
  BY <1>0, <1>3, MaxIsGreatest, Zenon
<1> QED BY <1>1, <1>2, <1>4, <1>5 DEF A, B

\* A part means something through smaller parts.
LEMMA MeansAgrees ==
  ASSUME NEW s \in Text, NEW r \in Part(s), NEW f, NEW h,
         \A p \in Part(s) : p[2] - p[1] < r[2] - r[1] => f[p] = h[p]
  PROVE  Means(s, f, r) = Means(s, h, r)
<1> DEFINE lo == r[1]
           hi == r[2]
           k == Outermost(s, lo, hi)
           a == Min(Ink(s, lo, hi))
           b == Max(Ink(s, lo, hi))
<1>0. Len(s) \in Nat /\ lo \in 0 .. Len(s) /\ hi \in 0 .. Len(s)
  BY DEF Text, Part
<1>1. \A x, y \in 0 .. Len(s) : y - x < hi - lo => f[<<x, y>>] = h[<<x, y>>]
  <2> TAKE x, y \in 0 .. Len(s)
  <2>1. <<x, y>> \in Part(s) /\ <<x, y>>[1] = x /\ <<x, y>>[2] = y
    BY SMTT(20) DEF Part
  <2> QED BY <2>1
<1> HIDE DEF lo, hi
<1>2. CASE Ink(s, lo, hi) = {} \/ Depth(s)[lo] # Depth(s)[hi]
  BY <1>2 DEF Means, lo, hi
<1>3. CASE /\ ~(Ink(s, lo, hi) = {} \/ Depth(s)[lo] # Depth(s)[hi])
           /\ Sums(s, lo, hi) \cup Products(s, lo, hi) # {}
  <2>1. k \in lo + 1 .. hi
    BY <1>0, <1>3, OutermostIs
  <2> HIDE DEF k
  <2>2. f[<<lo, k - 1>>] = h[<<lo, k - 1>>]
    <3>1. k - 1 \in 0 .. Len(s) /\ k - 1 - lo < hi - lo
      BY <1>0, <2>1
    <3> QED BY <3>1, <1>0, <1>1
  <2>3. f[<<k, hi>>] = h[<<k, hi>>]
    <3>1. k \in 0 .. Len(s) /\ hi - k < hi - lo
      BY <1>0, <2>1
    <3> QED BY <3>1, <1>0, <1>1
  <2> QED BY <1>3, <2>2, <2>3, Zenon DEF Means, lo, hi, k
<1>4. CASE /\ ~(Ink(s, lo, hi) = {} \/ Depth(s)[lo] # Depth(s)[hi])
           /\ ~(Sums(s, lo, hi) \cup Products(s, lo, hi) # {})
  <2>1. a \in lo + 1 .. hi /\ b \in a .. hi
    BY <1>0, <1>4, InkEnds
  <2> HIDE DEF a, b
  <2>2. f[<<a, hi>>] = h[<<a, hi>>]
    <3>1. a \in 0 .. Len(s) /\ hi - a < hi - lo
      BY <1>0, <2>1
    <3> QED BY <3>1, <1>0, <1>1
  <2>3. f[<<a, b - 1>>] = h[<<a, b - 1>>]
    <3>1. a \in 0 .. Len(s) /\ b - 1 \in 0 .. Len(s) /\ b - 1 - a < hi - lo
      BY <1>0, <2>1
    <3> QED BY <3>1, <1>0, <1>1
  <2> QED BY <1>4, <2>2, <2>3, Zenon DEF Means, lo, hi, a, b
<1> QED BY <1>2, <1>3, <1>4

PartsUpTo(s, m) == {r \in Part(s) : r[2] - r[1] < m}

\* Meanings satisfies its equation.
LEMMA MeaningsMean ==
  ASSUME NEW s \in Text
  PROVE  \A r \in Part(s) : Meanings(s)[r] = Means(s, Meanings(s), r)
<1> DEFINE n == Len(s)
           Is(f, m) == f = [r \in PartsUpTo(s, m) |-> Means(s, f, r)]
           Bad == {k \in Nat : ~\E f : Is(f, k - n)}
<1>0. n \in Nat
  BY DEF Text
<1>1. \A r \in Part(s) : r[1] \in 0 .. n /\ r[2] \in 0 .. n
  BY DEF Part
<1> HIDE DEF n
<1>2. Bad = {}
  <2> SUFFICES ASSUME Bad # {}
               PROVE  FALSE
    OBVIOUS
  <2>1. PICK k \in Bad : \A j \in Bad : k <= j
    BY LeastExists, Zenon
  <2>2. k \in Nat
    BY <2>1
  <2>3. k # 0
    <3>1. PartsUpTo(s, 0 - n) = {}
      BY <1>0, <1>1 DEF PartsUpTo
    <3> DEFINE f == [r \in PartsUpTo(s, 0 - n) |-> 0]
    <3>2. Is(f, 0 - n)
      BY <3>1
    <3>3. \E g : Is(g, 0 - n)
      BY <3>2
    <3> QED BY <3>3, <2>1
  <2>4. k - 1 \in Nat /\ k - 1 \notin Bad
    <3> HIDE DEF Bad
    <3> QED BY <2>1, <2>2, <2>3
  <2>5. PICK f : Is(f, k - 1 - n)
    BY <2>4
  <2> DEFINE m == k - n
             h == [r \in PartsUpTo(s, m) |-> IF r \in PartsUpTo(s, m - 1) THEN f[r] ELSE Means(s, f, r)]
  <2>6. m \in Int /\ k - 1 - n = m - 1
    BY <1>0, <2>2
  <2> HIDE DEF m
  <2>7. Is(f, m - 1)
    BY <2>5, <2>6
  <2>8. \A r \in PartsUpTo(s, m) : h[r] = Means(s, f, r)
    <3> TAKE r \in PartsUpTo(s, m)
    <3>1. r \in PartsUpTo(s, m - 1) => f[r] = Means(s, f, r)
      BY <2>7
    <3> QED BY <3>1
  <2>9. \A r \in PartsUpTo(s, m) : Means(s, f, r) = Means(s, h, r)
    <3> TAKE r \in PartsUpTo(s, m)
    <3>1. r \in Part(s) /\ r[2] - r[1] < m
      BY DEF PartsUpTo
    <3>2. \A p \in Part(s) : p[2] - p[1] < r[2] - r[1] => f[p] = h[p]
      <4> TAKE p \in Part(s)
      <4> HAVE p[2] - p[1] < r[2] - r[1]
      <4>1. p[2] - p[1] < m - 1 /\ p[2] - p[1] < m
        BY <1>0, <1>1, <2>6, <3>1
      <4>2. p \in PartsUpTo(s, m - 1) /\ p \in PartsUpTo(s, m)
        BY <4>1 DEF PartsUpTo
      <4> QED BY <4>2
    <3> HIDE DEF h
    <3> QED BY <3>1, <3>2, MeansAgrees
  <2>10. h = [r \in PartsUpTo(s, m) |-> h[r]]
    OBVIOUS
  <2>11. Is(h, m)
    <3> HIDE DEF h
    <3> QED BY <2>8, <2>9, <2>10
  <2>12. \E g : Is(g, k - n)
    BY <2>11, Zenon DEF m
  <2> QED BY <2>12, <2>1
<1>3. PICK g : Is(g, n + 1)
  <2> DEFINE k == 2 * n + 1
  <2>1. k \in Nat /\ k - n = n + 1
    BY <1>0
  <2> HIDE DEF k
  <2>2. k \notin Bad
    BY <1>2
  <2>3. \E f : Is(f, k - n)
    BY <2>1, <2>2
  <2> QED BY <2>1, <2>3
<1>4. PartsUpTo(s, n + 1) = Part(s)
  BY <1>0, <1>1 DEF PartsUpTo
<1>5. g = [r \in Part(s) |-> Means(s, g, r)]
  BY <1>3, <1>4
<1> DEFINE f == Meanings(s)
<1>6. f = [r \in Part(s) |-> Means(s, f, r)]
  BY <1>5, Zenon DEF Meanings, Part, Means, Sums, Products, Ink, Outermost
<1> HIDE DEF f
<1>7. \A r \in Part(s) : f[r] = Means(s, f, r)
  BY <1>6
<1> QED BY <1>7 DEF f

----------------------------------------------------------------------------
(* Where a text splits.                                                     *)

Operator == {"+", "-", "*", "/", "%"}

\* The bytes of the grammar are different.
LEMMA Bytewise ==
  ASSUME NEW c
  PROVE  /\ c \in Operator => /\ ~is_ascii_whitespace(c) /\ ~is_ascii_digit(c)
                              /\ c # "(" /\ c # ")"
         /\ c = "(" => ~is_ascii_whitespace(c) /\ ~is_ascii_digit(c) /\ c \notin Operator
         /\ c = ")" => ~is_ascii_whitespace(c) /\ ~is_ascii_digit(c) /\ c \notin Operator
         /\ is_ascii_digit(c) => /\ ~is_ascii_whitespace(c) /\ c \notin Operator
                                 /\ c # "(" /\ c # ")"
         /\ is_ascii_whitespace(c) => c \notin Operator /\ c # "(" /\ c # ")"
         /\ c \in {"+", "-"} => c \in Operator /\ c \notin {"*", "/", "%"}
         /\ c \in {"*", "/", "%"} => c \in Operator /\ c \notin {"+", "-"}
<1> DEFINE D == {"0", "1", "2", "3", "4", "5", "6", "7", "8", "9"}
<1>1. DOMAIN Digit = D
  BY DEF Digit
<1> QED BY <1>1, Zenon DEF is_ascii_digit, is_ascii_whitespace, Operator

\* Blanks keep the depth.
LEMMA BlankDepth ==
  ASSUME NEW s \in Text, NEW lo \in 0 .. Len(s), NEW hi \in lo .. Len(s), Blank(s, lo, hi)
  PROVE  \A i \in lo .. hi : Depth(s)[i] = Depth(s)[lo]
<1> DEFINE Bad == {i \in lo .. hi : Depth(s)[i] # Depth(s)[lo]}
<1>0. Len(s) \in Nat
  BY DEF Text
<1> SUFFICES ASSUME Bad # {}
             PROVE  FALSE
  OBVIOUS
<1>1. \A j \in Bad : j \in Nat
  BY <1>0
<1>2. PICK k \in Bad : \A j \in Bad : k <= j
  BY <1>1, LeastExists, Zenon
<1>3. k \in lo + 1 .. hi /\ k - 1 \in lo .. hi /\ k - 1 \notin Bad
  BY <1>0, <1>2
<1>4. is_ascii_whitespace(s[k])
  BY <1>3 DEF Blank
<1>5. Depth(s)[k] = Depth(s)[k - 1]
  BY <1>0, <1>3, <1>4, DepthStep, Bytewise
<1> QED BY <1>2, <1>3, <1>5

\* Blanks at the end add no operator.
LEMMA SplitsBlank ==
  ASSUME NEW s \in Text, NEW lo \in 0 .. Len(s), NEW q \in lo .. Len(s), NEW hi \in q .. Len(s),
         Blank(s, q, hi), NEW ops \in SUBSET Operator
  PROVE  Splits(s, lo, hi, ops) = Splits(s, lo, q, ops)
<1>0. Len(s) \in Nat
  BY DEF Text
<1>1. ASSUME NEW i \in q + 1 .. hi
      PROVE  s[i] \notin ops
  BY Bytewise DEF Blank
<1>2. \A i \in lo + 1 .. hi : i \in lo + 1 .. q \/ i \in q + 1 .. hi
  BY <1>0
<1>3. \A i \in lo + 1 .. q : i \in lo + 1 .. hi
  BY <1>0
<1> QED BY <1>1, <1>2, <1>3 DEF Splits

\* An operand ends before position i.
Ends(s, lo, i) ==
  \E e \in lo + 1 .. i - 1 : (is_ascii_digit(s[e]) \/ s[e] = ")") /\ Blank(s, e, i - 1)

\* After an operator outside parentheses the splits are those of what follows.
LEMMA SplitsAfter ==
  ASSUME NEW s \in Text, NEW lo \in 0 .. Len(s), NEW hi \in lo .. Len(s), NEW k \in lo + 1 .. hi,
         s[k] \in Operator, Depth(s)[k - 1] = Depth(s)[lo], NEW ops
  PROVE  \A i \in k + 1 .. hi : i \in Splits(s, lo, hi, ops) <=> i \in Splits(s, k, hi, ops)
<1>0. Len(s) \in Nat
  BY DEF Text
<1>1. Depth(s)[k] = Depth(s)[lo]
  BY <1>0, DepthStep, Bytewise
<1> TAKE i \in k + 1 .. hi
<1>2. Ends(s, lo, i) <=> Ends(s, k, i)
  <2>1. ASSUME Ends(s, k, i)
        PROVE  Ends(s, lo, i)
    <3>1. \A e \in k + 1 .. i - 1 : e \in lo + 1 .. i - 1
      BY <1>0
    <3> QED BY <2>1, <3>1 DEF Ends
  <2>2. ASSUME Ends(s, lo, i)
        PROVE  Ends(s, k, i)
    <3>1. PICK e \in lo + 1 .. i - 1 : (is_ascii_digit(s[e]) \/ s[e] = ")") /\ Blank(s, e, i - 1)
      BY <2>2 DEF Ends
    <3>2. e # k
      BY <3>1, Bytewise
    <3>3. ~(e < k)
      <4> SUFFICES ASSUME e < k
                   PROVE  FALSE
        OBVIOUS
      <4>1. k \in e + 1 .. i - 1
        BY <1>0
      <4>2. is_ascii_whitespace(s[k])
        BY <3>1, <4>1 DEF Blank
      <4> QED BY <4>2, Bytewise
    <3>4. e \in k + 1 .. i - 1
      BY <1>0, <3>2, <3>3
    <3> QED BY <3>1, <3>4 DEF Ends
  <2> QED BY <2>1, <2>2
<1>3. i \in lo + 1 .. hi
  BY <1>0
<1> QED BY <1>1, <1>2, <1>3 DEF Splits, Ends

\* Before it they are those of what precedes.
LEMMA SplitsBefore ==
  ASSUME NEW s \in Text, NEW lo \in 0 .. Len(s), NEW hi \in lo .. Len(s), NEW k \in lo .. hi, NEW ops
  PROVE  \A i \in lo + 1 .. k : i \in Splits(s, lo, hi, ops) <=> i \in Splits(s, lo, k, ops)
<1>0. Len(s) \in Nat
  BY DEF Text
<1> TAKE i \in lo + 1 .. k
<1>1. i \in lo + 1 .. hi
  BY <1>0
<1> QED BY <1>1 DEF Splits

\* Nothing splits at the first byte that is not blank, or before it.
LEMMA SplitsLead ==
  ASSUME NEW s \in Text, NEW lo \in 0 .. Len(s), NEW hi \in lo .. Len(s), NEW a \in lo + 1 .. hi,
         Blank(s, lo, a - 1), NEW ops \in SUBSET Operator
  PROVE  \A i \in lo + 1 .. a : i \notin Splits(s, lo, hi, ops)
<1>0. Len(s) \in Nat
  BY DEF Text
<1> SUFFICES ASSUME NEW i \in lo + 1 .. a, i \in Splits(s, lo, hi, ops)
             PROVE  FALSE
  OBVIOUS
<1>1. PICK e \in lo + 1 .. i - 1 : is_ascii_digit(s[e]) \/ s[e] = ")"
  BY DEF Splits
<1>2. e \in lo + 1 .. a - 1
  BY <1>0
<1>3. is_ascii_whitespace(s[e])
  BY <1>2 DEF Blank
<1> QED BY <1>1, <1>3, Bytewise

\* What a part means, in terms of its first and its last byte that is not blank.
LEMMA MeaningIs ==
  ASSUME NEW s \in Text, NEW lo \in 0 .. Len(s), NEW hi \in lo .. Len(s),
         NEW a \in lo + 1 .. hi, NEW b \in a .. hi,
         Blank(s, lo, a - 1), Blank(s, b, hi), ~is_ascii_whitespace(s[a]), ~is_ascii_whitespace(s[b])
  PROVE  Meanings(s)[<<lo, hi>>] =
           IF Depth(s)[lo] # Depth(s)[hi] THEN Undefined
           ELSE IF Sums(s, lo, hi) \cup Products(s, lo, hi) # {}
           THEN Apply(s[Outermost(s, lo, hi)], Meanings(s)[<<lo, Outermost(s, lo, hi) - 1>>],
                      Meanings(s)[<<Outermost(s, lo, hi), hi>>])
           ELSE IF s[a] \in {"+", "-"} THEN Apply(s[a], 0, Meanings(s)[<<a, hi>>])
           ELSE IF s[a] = "(" /\ s[b] = ")" THEN Meanings(s)[<<a, b - 1>>]
           ELSE IF Digits(s, a - 1, b) THEN Defined(Decimal(s, a - 1)[b])
           ELSE Undefined
<1> DEFINE I == Ink(s, lo, hi)
           r == <<lo, hi>>
<1>0. Len(s) \in Nat
  BY DEF Text
<1>1. a \in I
  BY DEF Ink
<1>2. /\ Min(I) \in lo + 1 .. hi /\ Max(I) \in Min(I) .. hi
      /\ ~is_ascii_whitespace(s[Min(I)]) /\ ~is_ascii_whitespace(s[Max(I)])
      /\ Blank(s, lo, Min(I) - 1) /\ Blank(s, Max(I), hi)
  BY <1>0, <1>1, InkEnds
<1>3. Min(I) = a
  <2> DEFINE x == Min(I)
  <2>1. x \in lo + 1 .. hi /\ ~is_ascii_whitespace(s[x])
    BY <1>2
  <2>2. \A i \in lo + 1 .. x - 1 : is_ascii_whitespace(s[i])
    BY <1>2 DEF Blank
  <2>3. \A i \in lo + 1 .. a - 1 : is_ascii_whitespace(s[i])
    BY DEF Blank
  <2> HIDE DEF x
  <2>4. ~(x < a) /\ ~(a < x)
    BY <1>0, <2>1, <2>2, <2>3
  <2>5. x = a
    BY <1>0, <2>1, <2>4
  <2> QED BY <2>5 DEF x
<1>4. Max(I) = b
  <2> DEFINE x == Max(I)
  <2>1. x \in lo + 1 .. hi /\ ~is_ascii_whitespace(s[x])
    BY <1>0, <1>2
  <2>2. \A i \in x + 1 .. hi : is_ascii_whitespace(s[i])
    BY <1>2 DEF Blank
  <2>3. \A i \in b + 1 .. hi : is_ascii_whitespace(s[i])
    BY DEF Blank
  <2> HIDE DEF x
  <2>4. ~(x < b) /\ ~(b < x)
    BY <1>0, <2>1, <2>2, <2>3
  <2>5. x = b
    BY <1>0, <2>1, <2>4
  <2> QED BY <2>5 DEF x
<1>5. r \in Part(s) /\ r[1] = lo /\ r[2] = hi
  BY <1>0 DEF Part
<1>6. Meanings(s)[r] = Means(s, Meanings(s), r)
  BY <1>5, MeaningsMean
<1> HIDE DEF r
<1>7. I # {}
  BY <1>1
<1> QED BY <1>3, <1>4, <1>5, <1>6, <1>7, Zenon DEF Means, r

\* A part that does not split is signed, in parentheses or a number.
LEMMA PlainMeaning ==
  ASSUME NEW s \in Text, NEW lo \in 0 .. Len(s), NEW hi \in lo .. Len(s),
         NEW a \in lo + 1 .. hi, NEW b \in a .. hi,
         Blank(s, lo, a - 1), Blank(s, b, hi), ~is_ascii_whitespace(s[a]), ~is_ascii_whitespace(s[b]),
         Sums(s, lo, hi) = {}, Products(s, lo, hi) = {}, Depth(s)[hi] = Depth(s)[lo]
  PROVE  /\ s[a] \in {"+", "-"} =>
              Meanings(s)[<<lo, hi>>] = Apply(s[a], 0, Meanings(s)[<<a, hi>>])
         /\ s[a] \notin {"+", "-"} /\ s[a] = "(" /\ s[b] = ")" =>
              Meanings(s)[<<lo, hi>>] = Meanings(s)[<<a, b - 1>>]
         /\ s[a] \notin {"+", "-"} /\ ~(s[a] = "(" /\ s[b] = ")") =>
              Meanings(s)[<<lo, hi>>] =
                IF Digits(s, a - 1, b) THEN Defined(Decimal(s, a - 1)[b])
                ELSE Undefined
<1>1. Sums(s, lo, hi) \cup Products(s, lo, hi) = {}
  OBVIOUS
<1> DEFINE m == Meanings(s)
           D == Defined(Decimal(s, a - 1)[b])
<1>2. m[<<lo, hi>>] =
        IF Depth(s)[lo] # Depth(s)[hi] THEN Undefined
        ELSE IF Sums(s, lo, hi) \cup Products(s, lo, hi) # {}
        THEN Apply(s[Outermost(s, lo, hi)], m[<<lo, Outermost(s, lo, hi) - 1>>],
                   m[<<Outermost(s, lo, hi), hi>>])
        ELSE IF s[a] \in {"+", "-"} THEN Apply(s[a], 0, m[<<a, hi>>])
        ELSE IF s[a] = "(" /\ s[b] = ")" THEN m[<<a, b - 1>>]
        ELSE IF Digits(s, a - 1, b) THEN D
        ELSE Undefined
  BY MeaningIs, ZenonT(30)
<1> HIDE DEF m, D
<1>3. m[<<lo, hi>>] =
        IF s[a] \in {"+", "-"} THEN Apply(s[a], 0, m[<<a, hi>>])
        ELSE IF s[a] = "(" /\ s[b] = ")" THEN m[<<a, b - 1>>]
        ELSE IF Digits(s, a - 1, b) THEN D
        ELSE Undefined
  BY <1>1, <1>2, Zenon
<1> QED BY <1>3, Zenon DEF m, D

----------------------------------------------------------------------------
(* What the parser has read so far means what it has computed.              *)

\* The text after lo up to q is an expression of value v, also with blanks after it.
Spans(s, lo, q, v) ==
  /\ q \in lo + 1 .. Len(s)
  /\ v \in Int /\ InRange(v)
  /\ is_ascii_digit(s[q]) \/ s[q] = ")"
  /\ Depth(s)[q] = Depth(s)[lo]
  /\ \A i \in lo .. q : Depth(s)[i] >= Depth(s)[lo]
  /\ \A hi \in q .. Len(s) : Blank(s, q, hi) => Meanings(s)[<<lo, hi>>] = v

Term(s, lo, q, v) == Spans(s, lo, q, v) /\ Sums(s, lo, q) = {}
Factor(s, lo, q, v) == Term(s, lo, q, v) /\ Products(s, lo, q) = {}

\* Two operands and an operator: k is the outermost operator of what follows lo.
LEMMA Joined ==
  ASSUME NEW s \in Text, NEW lo \in 0 .. Len(s), NEW q1, NEW v1, Spans(s, lo, q1, v1),
         NEW k \in q1 + 1 .. Len(s), Blank(s, q1, k - 1), s[k] \in Operator,
         NEW q, NEW v2, Spans(s, k, q, v2), Sums(s, k, q) = {},
         \/ s[k] \in {"+", "-"}
         \/ s[k] \in {"*", "/", "%"} /\ Sums(s, lo, q1) = {} /\ Products(s, k, q) = {},
         NEW v, v = Apply(s[k], v1, v2), v \in Int, InRange(v)
  PROVE  Spans(s, lo, q, v) /\ (s[k] \in {"*", "/", "%"} => Sums(s, lo, q) = {})
<1> DEFINE n == Len(s)
           d == Depth(s)
<1>0. n \in Nat /\ lo \in 0 .. n /\ q1 \in lo + 1 .. n /\ k \in q1 + 1 .. n /\ q \in k + 1 .. n
  BY SMTT(20) DEF Text, Spans
<1>1. \A i \in q1 .. k - 1 : d[i] = d[lo]
  BY <1>0, BlankDepth DEF Spans
<1>2. d[k - 1] = d[lo] /\ d[k] = d[lo]
  <2>1. k - 1 \in q1 .. k - 1 /\ k \in 1 .. n
    BY <1>0, SMTT(20)
  <2> QED BY <1>1, <2>1, DepthStep, Bytewise
<1>3. d[q] = d[lo] /\ \A i \in k .. q : d[i] >= d[lo]
  BY <1>2 DEF Spans
<1>4. Ends(s, lo, k)
  <2>1. q1 \in lo + 1 .. k - 1
    BY <1>0
  <2> QED BY <2>1 DEF Ends, Spans
<1>5. \A i \in lo .. q : d[i] >= d[lo]
  <2> TAKE i \in lo .. q
  <2>1. i \in lo .. q1 \/ i \in q1 .. k - 1 \/ i \in k .. q
    BY <1>0
  <2>2. d[i] \in Int /\ d[lo] \in Int
    BY <1>0, DepthStep
  <2>3. i \in lo .. q1 => d[i] >= d[lo]
    BY DEF Spans
  <2> QED BY <2>1, <2>2, <2>3, <1>1, <1>3
<1> HIDE DEF d
<1>6. ASSUME NEW hi \in q .. n, Blank(s, q, hi)
      PROVE  /\ Meanings(s)[<<lo, hi>>] = v
             /\ s[k] \in {"*", "/", "%"} => Sums(s, lo, hi) = {}
  <2>0. hi \in 0 .. n /\ hi \in lo .. n /\ k \in lo + 1 .. hi /\ hi \in k .. n
    BY <1>0
  <2>1. {"+", "-"} \in SUBSET Operator /\ {"*", "/", "%"} \in SUBSET Operator
    BY DEF Operator
  <2>2. \A i \in k + 1 .. hi : i \notin Sums(s, lo, hi)
    <3>1. Splits(s, k, hi, {"+", "-"}) = {}
      BY <1>0, <1>6, <2>1, SplitsBlank DEF Sums
    <3> QED BY <3>1, <2>0, <1>2, SplitsAfter DEF Sums, d
  <2>3. s[k] \in {"*", "/", "%"} => \A i \in k + 1 .. hi : i \notin Products(s, lo, hi)
    <3> HAVE s[k] \in {"*", "/", "%"}
    <3>1. Products(s, k, q) = {}
      BY Bytewise
    <3>2. Splits(s, k, hi, {"*", "/", "%"}) = {}
      BY <3>1, <1>0, <1>6, <2>1, SplitsBlank DEF Products
    <3> QED BY <3>2, <2>0, <1>2, SplitsAfter DEF Products, d
  <2>4. \A ops : s[k] \in ops => k \in Splits(s, lo, hi, ops)
    BY <2>0, <1>2, <1>4 DEF Splits, Ends, d
  <2>5. s[k] \in {"*", "/", "%"} => Sums(s, lo, hi) = {}
    <3> HAVE s[k] \in {"*", "/", "%"}
    <3>1. Sums(s, lo, q1) = {} /\ s[k] \notin {"+", "-"}
      BY Bytewise
    <3>2. q1 \in lo .. n /\ k - 1 \in q1 .. n /\ k - 1 \in lo .. hi
      BY <1>0
    <3>3. Splits(s, lo, k - 1, {"+", "-"}) = {}
      BY <3>1, <3>2, <2>1, SplitsBlank DEF Sums
    <3>4. \A i \in lo + 1 .. k - 1 : i \notin Sums(s, lo, hi)
      BY <3>2, <3>3, <2>0, SplitsBefore DEF Sums
    <3>5. k \notin Sums(s, lo, hi)
      BY <3>1 DEF Sums, Splits
    <3>6. \A i \in Sums(s, lo, hi) : i \in lo + 1 .. k - 1 \/ i = k \/ i \in k + 1 .. hi
      BY <1>0 DEF Sums, Splits
    <3> QED BY <3>4, <3>5, <3>6, <2>2
  <2>6. /\ Sums(s, lo, hi) \cup Products(s, lo, hi) # {}
        /\ Outermost(s, lo, hi) = k
    <3> DEFINE x == Outermost(s, lo, hi)
    <3>1. Sums(s, lo, hi) \cup Products(s, lo, hi) # {}
      BY <2>4, Bytewise DEF Sums, Products
    <3>2. /\ x \in lo + 1 .. hi
          /\ Sums(s, lo, hi) # {} => x \in Sums(s, lo, hi) /\ \A i \in Sums(s, lo, hi) : i <= x
          /\ Sums(s, lo, hi) = {} =>
               x \in Products(s, lo, hi) /\ \A i \in Products(s, lo, hi) : i <= x
      BY <3>1, <2>0, <1>0, OutermostIs
    <3> HIDE DEF x
    <3>3. CASE s[k] \in {"+", "-"}
      <4>1. k \in Sums(s, lo, hi)
        BY <3>3, <2>4 DEF Sums
      <4>2. k <= x /\ x \in Sums(s, lo, hi)
        BY <4>1, <3>2
      <4>3. x \notin k + 1 .. hi
        BY <4>2, <2>2
      <4>4. x = k
        BY <4>2, <4>3, <3>2, <1>0
      <4> QED BY <3>1, <4>4 DEF x
    <3>4. CASE s[k] \in {"*", "/", "%"}
      <4>1. k \in Products(s, lo, hi) /\ Sums(s, lo, hi) = {}
        BY <3>4, <2>4, <2>5 DEF Products
      <4>2. k <= x /\ x \in Products(s, lo, hi)
        BY <4>1, <3>2
      <4>3. x \notin k + 1 .. hi
        BY <3>4, <4>2, <2>3
      <4>4. x = k
        BY <4>2, <4>3, <3>2, <1>0
      <4> QED BY <3>1, <4>4 DEF x
    <3> QED BY <3>3, <3>4
  <2>7. Meanings(s)[<<lo, k - 1>>] = v1
    <3>1. k - 1 \in q1 .. n
      BY <1>0
    <3> QED BY <3>1 DEF Spans
  <2>8. Meanings(s)[<<k, hi>>] = v2
    BY <1>6 DEF Spans
  <2>9. Depth(s)[hi] = Depth(s)[lo]
    <3>1. \A i \in q .. hi : Depth(s)[i] = Depth(s)[q]
      BY <1>0, <1>6, BlankDepth
    <3>2. hi \in q .. hi
      BY <1>0
    <3> QED BY <3>1, <3>2, <1>3 DEF d
  <2>10. Meanings(s)[<<lo, hi>>] = Means(s, Meanings(s), <<lo, hi>>)
    <3>1. <<lo, hi>> \in Part(s)
      BY <1>0, <2>0 DEF Part
    <3> QED BY <3>1, MeaningsMean
  <2>11. Ink(s, lo, hi) # {}
    <3>1. k \in Ink(s, lo, hi)
      BY <2>0, Bytewise DEF Ink
    <3> QED BY <3>1
  <2>12. Meanings(s)[<<lo, hi>>] = Apply(s[k], v1, v2)
    <3> DEFINE r == <<lo, hi>>
    <3>1. r[1] = lo /\ r[2] = hi
      OBVIOUS
    <3> HIDE DEF r
    <3>2. Meanings(s)[r] = Means(s, Meanings(s), r)
      BY <2>10 DEF r
    <3>3. Meanings(s)[r] = Apply(s[k], v1, v2)
      BY <3>1, <3>2, <2>6, <2>7, <2>8, <2>9, <2>11, Zenon DEF Means
    <3> QED BY <3>3 DEF r
  <2> QED BY <2>5, <2>12
<1>7. s[k] \in {"*", "/", "%"} => Sums(s, lo, q) = {}
  <2>1. q \in q .. n /\ Blank(s, q, q)
    BY <1>0 DEF Blank
  <2> QED BY <2>1, <1>6, Zenon
<1>8. q \in lo + 1 .. n
  BY <1>0, SMTT(20)
<1>9. is_ascii_digit(s[q]) \/ s[q] = ")"
  BY DEF Spans
<1> QED BY <1>3, <1>5, <1>6, <1>7, <1>8, <1>9 DEF Spans, d

\* A sign before a factor.
LEMMA Signed ==
  ASSUME NEW s \in Text, NEW lo \in 0 .. Len(s), NEW a \in lo + 1 .. Len(s), Blank(s, lo, a - 1),
         s[a] \in {"+", "-"}, NEW q, NEW u, Factor(s, a, q, u),
         NEW v, v = Apply(s[a], 0, u), v \in Int, InRange(v)
  PROVE  Factor(s, lo, q, v)
<1> DEFINE n == Len(s)
<1>0. n \in Nat /\ lo \in 0 .. n /\ a \in lo + 1 .. n /\ q \in a + 1 .. n
  BY DEF Text, Factor, Term, Spans
<1>1. \A i \in lo .. a - 1 : Depth(s)[i] = Depth(s)[lo]
  BY <1>0, BlankDepth
<1>2. Depth(s)[a - 1] = Depth(s)[lo] /\ Depth(s)[a] = Depth(s)[lo]
  <2>1. a - 1 \in lo .. a - 1 /\ a \in 1 .. n
    BY <1>0
  <2> QED BY <1>1, <2>1, DepthStep, Bytewise
<1>3. Depth(s)[q] = Depth(s)[lo] /\ \A i \in a .. q : Depth(s)[i] >= Depth(s)[lo]
  BY <1>2 DEF Factor, Term, Spans
<1>4. \A i \in lo .. q : Depth(s)[i] >= Depth(s)[lo]
  <2> TAKE i \in lo .. q
  <2>1. i \in lo .. a - 1 \/ i \in a .. q
    BY <1>0
  <2>2. Depth(s)[i] \in Int /\ Depth(s)[lo] \in Int
    BY <1>0, DepthStep
  <2> QED BY <2>1, <2>2, <1>1, <1>3
<1>5. ASSUME NEW hi \in q .. n, Blank(s, q, hi)
      PROVE  /\ Meanings(s)[<<lo, hi>>] = v
             /\ Sums(s, lo, hi) = {} /\ Products(s, lo, hi) = {}
  <2>0. hi \in lo .. n /\ a \in lo + 1 .. hi /\ q \in a .. hi /\ hi \in a .. n /\ q \in a .. n
    BY <1>0
  <2>1. {"+", "-"} \in SUBSET Operator /\ {"*", "/", "%"} \in SUBSET Operator
    BY DEF Operator
  <2>2. ASSUME NEW ops \in SUBSET Operator, Splits(s, a, q, ops) = {}
        PROVE  Splits(s, lo, hi, ops) = {}
    <3>1. Splits(s, a, hi, ops) = {}
      BY <1>0, <1>5, <2>0, <2>2, SplitsBlank
    <3>2. \A i \in a + 1 .. hi : i \notin Splits(s, lo, hi, ops)
      BY <3>1, <2>0, <1>2, SplitsAfter, Bytewise
    <3>3. \A i \in lo + 1 .. a : i \notin Splits(s, lo, hi, ops)
      BY <2>0, SplitsLead
    <3>4. \A i \in Splits(s, lo, hi, ops) : i \in lo + 1 .. a \/ i \in a + 1 .. hi
      BY <1>0 DEF Splits
    <3> QED BY <3>2, <3>3, <3>4
  <2>3. Sums(s, lo, hi) = {} /\ Products(s, lo, hi) = {}
    BY <2>1, <2>2 DEF Factor, Term, Sums, Products
  <2>4. Depth(s)[hi] = Depth(s)[lo]
    <3>1. \A i \in q .. hi : Depth(s)[i] = Depth(s)[q]
      BY <1>0, <1>5, BlankDepth
    <3>2. hi \in q .. hi
      BY <1>0
    <3> QED BY <3>1, <3>2, <1>3
  <2>5. ~is_ascii_whitespace(s[a]) /\ ~is_ascii_whitespace(s[q])
    BY Bytewise DEF Factor, Term, Spans
  <2>6. Meanings(s)[<<a, hi>>] = u
    BY <1>5 DEF Factor, Term, Spans
  <2>7. Meanings(s)[<<lo, hi>>] = Apply(s[a], 0, Meanings(s)[<<a, hi>>])
    <3>1. Blank(s, lo, a - 1) /\ Blank(s, q, hi)
      BY <1>5
    <3> QED BY <3>1, <2>0, <2>3, <2>4, <2>5, PlainMeaning, Zenon
  <2> QED BY <2>3, <2>6, <2>7
<1>6. q \in q .. n /\ Blank(s, q, q)
  BY <1>0 DEF Blank
<1>7. q \in lo + 1 .. n /\ (is_ascii_digit(s[q]) \/ s[q] = ")")
  BY <1>0 DEF Factor, Term, Spans
<1> QED BY <1>3, <1>4, <1>5, <1>6, <1>7, Zenon DEF Factor, Term, Spans

\* An expression in parentheses.
LEMMA Parenthesized ==
  ASSUME NEW s \in Text, NEW lo \in 0 .. Len(s), NEW a \in lo + 1 .. Len(s), Blank(s, lo, a - 1),
         s[a] = "(", NEW q, NEW v, Spans(s, a, q, v),
         NEW b \in q + 1 .. Len(s), Blank(s, q, b - 1), s[b] = ")"
  PROVE  Factor(s, lo, b, v)
<1> DEFINE n == Len(s)
<1>0. n \in Nat /\ lo \in 0 .. n /\ a \in lo + 1 .. n /\ q \in a + 1 .. n /\ b \in q + 1 .. n
  BY DEF Text, Spans
<1>d. \A i \in 0 .. n : Depth(s)[i] \in Int
  BY DepthStep
<1>1. \A i \in lo .. a - 1 : Depth(s)[i] = Depth(s)[lo]
  BY <1>0, BlankDepth
<1>2. Depth(s)[a] = Depth(s)[lo] + 1
  <2>1. a - 1 \in lo .. a - 1 /\ a \in 1 .. n
    BY <1>0
  <2> QED BY <1>1, <2>1, DepthStep
<1>3. \A i \in a .. q : Depth(s)[i] >= Depth(s)[lo] + 1
  BY <1>2 DEF Spans
<1>4. \A i \in q .. b - 1 : Depth(s)[i] = Depth(s)[lo] + 1
  <2>1. b - 1 \in q .. n /\ q \in 0 .. n
    BY <1>0
  <2>2. \A i \in q .. b - 1 : Depth(s)[i] = Depth(s)[q]
    BY <2>1, BlankDepth
  <2> QED BY <2>2, <1>2 DEF Spans
<1>5. Depth(s)[b] = Depth(s)[lo]
  <2>1. b - 1 \in q .. b - 1 /\ b \in 1 .. n /\ lo \in 0 .. n
    BY <1>0
  <2>2. Depth(s)[b] = Depth(s)[b - 1] - 1 /\ Depth(s)[b - 1] = Depth(s)[lo] + 1
    BY <1>4, <2>1, DepthStep
  <2> QED BY <2>1, <2>2, <1>d
<1>6. \A i \in a .. b - 1 : Depth(s)[i] >= Depth(s)[lo] + 1
  <2> TAKE i \in a .. b - 1
  <2>1. i \in a .. q \/ i \in q .. b - 1
    BY <1>0
  <2>2. i \in 0 .. n /\ lo \in 0 .. n
    BY <1>0
  <2>3. Depth(s)[i] \in Int /\ Depth(s)[lo] \in Int
    BY <2>2, <1>d
  <2> QED BY <2>1, <2>3, <1>3, <1>4
<1>7. \A i \in lo .. b : Depth(s)[i] >= Depth(s)[lo]
  <2> TAKE i \in lo .. b
  <2>1. i \in lo .. a - 1 \/ i \in a .. b - 1 \/ i = b
    BY <1>0
  <2>2. i \in 0 .. n /\ lo \in 0 .. n
    BY <1>0
  <2>3. Depth(s)[i] \in Int /\ Depth(s)[lo] \in Int
    BY <2>2, <1>d
  <2> QED BY <2>1, <2>3, <1>1, <1>5, <1>6
<1>8. ASSUME NEW hi \in b .. n, Blank(s, b, hi)
      PROVE  /\ Meanings(s)[<<lo, hi>>] = v
             /\ Sums(s, lo, hi) = {} /\ Products(s, lo, hi) = {}
  <2>0. hi \in lo .. n /\ a \in lo + 1 .. hi /\ b \in a .. hi
    BY <1>0
  <2>1. {"+", "-"} \in SUBSET Operator /\ {"*", "/", "%"} \in SUBSET Operator
    BY DEF Operator
  <2>2. ASSUME NEW ops \in SUBSET Operator
        PROVE  Splits(s, lo, hi, ops) = {}
    <3> SUFFICES ASSUME NEW i \in Splits(s, lo, hi, ops)
                 PROVE  FALSE
      OBVIOUS
    <3>1. i \in lo + 1 .. hi /\ s[i] \in Operator /\ Depth(s)[i - 1] = Depth(s)[lo]
      BY DEF Splits
    <3>2. i \notin lo + 1 .. a
      BY <2>0, SplitsLead
    <3>3. i \notin a + 1 .. b
      <4> SUFFICES ASSUME i \in a + 1 .. b
                   PROVE  FALSE
        OBVIOUS
      <4>1. i - 1 \in a .. b - 1 /\ lo \in 0 .. n
        BY <1>0
      <4>2. Depth(s)[i - 1] >= Depth(s)[lo] + 1 /\ Depth(s)[lo] \in Int
        BY <4>1, <1>6, <1>d
      <4> QED BY <4>2, <3>1
    <3>4. i \notin b + 1 .. hi
      BY <1>8, <3>1, Bytewise DEF Blank
    <3> QED BY <3>1, <3>2, <3>3, <3>4, <1>0
  <2>3. Sums(s, lo, hi) = {} /\ Products(s, lo, hi) = {}
    BY <2>1, <2>2 DEF Sums, Products
  <2>4. Depth(s)[hi] = Depth(s)[lo]
    <3>1. \A i \in b .. hi : Depth(s)[i] = Depth(s)[b]
      BY <1>0, <1>8, BlankDepth
    <3>2. hi \in b .. hi
      BY <1>0
    <3> QED BY <3>1, <3>2, <1>5
  <2>5. ~is_ascii_whitespace(s[a]) /\ ~is_ascii_whitespace(s[b]) /\ s[a] \notin {"+", "-"}
    BY Bytewise
  <2>6. Meanings(s)[<<a, b - 1>>] = v
    <3>1. b - 1 \in q .. n
      BY <1>0
    <3> QED BY <3>1 DEF Spans
  <2>7. Meanings(s)[<<lo, hi>>] = Meanings(s)[<<a, b - 1>>]
    BY <2>0, <1>8, <2>3, <2>4, <2>5, PlainMeaning, Zenon
  <2> QED BY <2>3, <2>6, <2>7
<1>9. b \in b .. n /\ Blank(s, b, b)
  BY <1>0 DEF Blank
<1>10. b \in lo + 1 .. n /\ v \in Int /\ InRange(v)
  BY <1>0 DEF Spans
<1> QED BY <1>5, <1>7, <1>8, <1>9, <1>10, Zenon DEF Factor, Term, Spans

\* A number.
LEMMA Numeral ==
  ASSUME NEW s \in Text, NEW lo \in 0 .. Len(s), NEW a \in lo + 1 .. Len(s), Blank(s, lo, a - 1),
         NEW b \in a .. Len(s), Digits(s, a - 1, b),
         InRange(Decimal(s, a - 1)[b])
  PROVE  Factor(s, lo, b, Decimal(s, a - 1)[b])
<1> DEFINE n == Len(s)
           v == Decimal(s, a - 1)[b]
<1>0. n \in Nat /\ lo \in 0 .. n /\ a \in lo + 1 .. n /\ b \in a .. n
  BY DEF Text
<1>d. \A i \in 0 .. n : Depth(s)[i] \in Int
  BY DepthStep
<1>a. \A i \in a .. b : is_ascii_digit(s[i])
  BY <1>0 DEF Digits
<1>1. \A i \in lo .. b : Depth(s)[i] = Depth(s)[lo]
  <2> DEFINE Bad == {i \in lo .. b : Depth(s)[i] # Depth(s)[lo]}
  <2> SUFFICES ASSUME Bad # {}
               PROVE  FALSE
    OBVIOUS
  <2>1. \A j \in Bad : j \in Nat
    BY <1>0
  <2>2. PICK k \in Bad : \A j \in Bad : k <= j
    BY <2>1, LeastExists, Zenon
  <2>3. k \in lo + 1 .. b /\ k - 1 \in lo .. b /\ k - 1 \notin Bad
    BY <1>0, <2>2
  <2>4. is_ascii_whitespace(s[k]) \/ is_ascii_digit(s[k])
    <3>1. k \in lo + 1 .. a - 1 \/ k \in a .. b
      BY <1>0, <2>3
    <3> QED BY <3>1, <1>a DEF Blank
  <2>5. k \in 1 .. n
    BY <1>0, <2>3
  <2>6. Depth(s)[k] = Depth(s)[k - 1]
    BY <2>4, <2>5, DepthStep, Bytewise
  <2> QED BY <2>2, <2>3, <2>6
<1>2. \A i \in lo .. b : Depth(s)[i] >= Depth(s)[lo]
  <2> TAKE i \in lo .. b
  <2>1. lo \in 0 .. n
    BY <1>0
  <2> QED BY <2>1, <1>1, <1>d
<1>3. Depth(s)[b] = Depth(s)[lo]
  BY <1>0, <1>1
<1>4. ASSUME NEW hi \in b .. n, Blank(s, b, hi)
      PROVE  /\ Meanings(s)[<<lo, hi>>] = v
             /\ Sums(s, lo, hi) = {} /\ Products(s, lo, hi) = {}
  <2>0. hi \in lo .. n /\ a \in lo + 1 .. hi /\ b \in a .. hi
    BY <1>0
  <2>1. {"+", "-"} \in SUBSET Operator /\ {"*", "/", "%"} \in SUBSET Operator
    BY DEF Operator
  <2>2. ASSUME NEW ops \in SUBSET Operator
        PROVE  Splits(s, lo, hi, ops) = {}
    <3> SUFFICES ASSUME NEW i \in Splits(s, lo, hi, ops)
                 PROVE  FALSE
      OBVIOUS
    <3>1. i \in lo + 1 .. hi /\ s[i] \in Operator
      BY DEF Splits
    <3>2. i \in lo + 1 .. a - 1 \/ i \in a .. b \/ i \in b + 1 .. hi
      BY <3>1, <1>0
    <3> QED BY <1>4, <1>a, <3>1, <3>2, Bytewise DEF Blank
  <2>3. Sums(s, lo, hi) = {} /\ Products(s, lo, hi) = {}
    BY <2>1, <2>2 DEF Sums, Products
  <2>4. Depth(s)[hi] = Depth(s)[lo]
    <3>1. \A i \in b .. hi : Depth(s)[i] = Depth(s)[b]
      BY <1>0, <1>4, BlankDepth
    <3>2. hi \in b .. hi
      BY <1>0
    <3> QED BY <3>1, <3>2, <1>3
  <2>5. a \in a .. b /\ b \in a .. b
    BY <1>0
  <2>6. /\ ~is_ascii_whitespace(s[a]) /\ ~is_ascii_whitespace(s[b])
        /\ s[a] \notin {"+", "-"} /\ s[a] # "("
    BY <2>5, <1>a, Bytewise
  <2>7. Meanings(s)[<<lo, hi>>] = Defined(v)
    <3>1. Blank(s, lo, a - 1) /\ Blank(s, b, hi)
      BY <1>4
    <3> QED BY <3>1, <2>0, <2>3, <2>4, <2>6, PlainMeaning, Zenon
  <2> QED BY <2>3, <2>7 DEF Defined
<1>5. b \in b .. n /\ Blank(s, b, b)
  BY <1>0 DEF Blank
<1>6. b \in lo + 1 .. n /\ v \in Int
  BY <1>0, RangeAssumption DEF InRange, MIN
<1>7. is_ascii_digit(s[b])
  BY <1>0, <1>a
<1> QED BY <1>2, <1>3, <1>4, <1>5, <1>6, <1>7, Zenon DEF Factor, Term, Spans

----------------------------------------------------------------------------
(* The parser computes what the reference applies.                          *)

\* The remainder of a number in range is in range.
LEMMA RemainderInRange ==
  ASSUME NEW a \in Int, NEW b \in Int, InRange(a), InRange(b), b # 0
  PROVE  Remainder(a, b) \in Int /\ InRange(Remainder(a, b))
<1> DEFINE A == Abs(a)
           B == Abs(b)
           q == A \div B
           m == A % B
           t == B * q
<1>1. /\ A \in Nat /\ B \in Nat \ {0} /\ B <= MAX + 1
      /\ a < 0 => a = -A /\ Sign(a) = -1
      /\ a >= 0 => a = A /\ Sign(a) = 1
      /\ b < 0 => b = -B /\ Sign(b) = -1
      /\ b >= 0 => b = B /\ Sign(b) = 1
  BY RangeAssumption DEF Sign, Abs, InRange, MIN
<1>2. q \in Nat /\ m \in 0 .. B - 1 /\ A = B * q + m
  <2> HIDE DEF A, B
  <2> QED BY <1>1
<1>3. Quotient(a, b) = Sign(a) * Sign(b) * q
  BY DEF Quotient
<1> HIDE DEF A, B, q, m
<1>4. Quotient(a, b) = q \/ Quotient(a, b) = -q
  BY <1>1, <1>2, <1>3
<1>5. t \in Int /\ A = t + m /\ b * q \in {t, -t} /\ b * (-q) \in {t, -t}
  BY <1>1, <1>2
<1>6. b * Quotient(a, b) = IF a < 0 THEN -t ELSE t
  <2>1. CASE a < 0 /\ b < 0
    <3>1. Quotient(a, b) = q
      BY <2>1, <1>1, <1>2, <1>3
    <3> QED BY <2>1, <3>1, <1>1, <1>2
  <2>2. CASE a < 0 /\ b >= 0
    <3>1. Quotient(a, b) = -q
      BY <2>2, <1>1, <1>2, <1>3
    <3> QED BY <2>2, <3>1, <1>1, <1>2
  <2>3. CASE a >= 0 /\ b < 0
    <3>1. Quotient(a, b) = -q
      BY <2>3, <1>1, <1>2, <1>3
    <3> QED BY <2>3, <3>1, <1>1, <1>2
  <2>4. CASE a >= 0 /\ b >= 0
    <3>1. Quotient(a, b) = q
      BY <2>4, <1>1, <1>2, <1>3
    <3> QED BY <2>4, <3>1, <1>1, <1>2
  <2> QED BY <2>1, <2>2, <2>3, <2>4
<1>7. Remainder(a, b) = a - b * Quotient(a, b)
  BY DEF Remainder
<1> HIDE DEF t
<1>8. Remainder(a, b) = m \/ Remainder(a, b) = -m
  BY <1>1, <1>2, <1>5, <1>6, <1>7
<1> QED BY <1>1, <1>2, <1>8, RangeAssumption DEF InRange, MIN

\* The outcome r is v, or an error when v is undefined.
Yields(r, v, pos) ==
  /\ r.err = "none" <=> v # Undefined
  /\ v # Undefined => r = Ok(v, pos) /\ v \in Int /\ InRange(v)

\* A value in range is defined.
LEMMA RangeDefined ==
  ASSUME NEW v, InRange(v)
  PROVE  v \in Int /\ v # Undefined
BY RangeAssumption DEF InRange, MIN, Undefined

\* A checked operation yields what its exact result defines.
LEMMA CheckedYields ==
  ASSUME NEW v, NEW pos
  PROVE  Yields(Checked(v, pos), Defined(v), pos)
<1>1. CASE InRange(v)
  <2>1. Checked(v, pos) = Ok(v, pos) /\ Defined(v) = v /\ Ok(v, pos).err = "none"
    BY <1>1 DEF Checked, Defined, Ok
  <2> QED BY <1>1, <2>1, RangeDefined DEF Yields
<1>2. CASE ~InRange(v)
  <2>1. Checked(v, pos).err = "overflow" /\ Defined(v) = Undefined
    BY <1>2 DEF Checked, Defined, Err
  <2> QED BY <2>1 DEF Yields
<1> QED BY <1>1, <1>2

\* Each checked operation is the operator of the reference.
LEMMA Computes ==
  ASSUME NEW a, NEW b, InRange(a), InRange(b), NEW pos
  PROVE  /\ Yields(Checked(a + b, pos), Apply("+", a, b), pos)
         /\ Yields(Checked(a - b, pos), Apply("-", a, b), pos)
         /\ Yields(Checked(a * b, pos), Apply("*", a, b), pos)
         /\ Yields(checked_div(a, b, pos), Apply("/", a, b), pos)
         /\ Yields(checked_rem(a, b, pos), Apply("%", a, b), pos)
         /\ Yields(Checked(-b, pos), Apply("-", 0, b), pos)
         /\ Apply("+", 0, b) = b
<1>0. a \in Int /\ a # Undefined /\ b \in Int /\ b # Undefined
  BY RangeDefined
<1>z. 0 # Undefined /\ 0 - b = -b /\ 0 + b = b
  BY <1>0, RangeAssumption DEF Undefined
<1>1. Yields(Checked(a + b, pos), Apply("+", a, b), pos)
  <2>1. Apply("+", a, b) = Defined(a + b)
    BY <1>0 DEF Apply
  <2> QED BY <2>1, CheckedYields
<1>2. Yields(Checked(a - b, pos), Apply("-", a, b), pos)
  <2>1. Apply("-", a, b) = Defined(a - b)
    BY <1>0 DEF Apply
  <2> QED BY <2>1, CheckedYields
<1>3. Yields(Checked(a * b, pos), Apply("*", a, b), pos)
  <2>1. Apply("*", a, b) = Defined(a * b)
    BY <1>0 DEF Apply
  <2> QED BY <2>1, CheckedYields
<1>4. Yields(checked_div(a, b, pos), Apply("/", a, b), pos)
  <2>1. Apply("/", a, b) = IF b = 0 THEN Undefined ELSE Defined(Quotient(a, b))
    BY <1>0 DEF Apply
  <2>2. CASE b = 0
    <3>1. checked_div(a, b, pos).err = "zero"
      BY <2>2 DEF checked_div, Err
    <3> QED BY <3>1, <2>1, <2>2 DEF Yields
  <2>3. CASE b # 0
    BY <2>1, <2>3, CheckedYields DEF checked_div
  <2> QED BY <2>2, <2>3
<1>5. Yields(checked_rem(a, b, pos), Apply("%", a, b), pos)
  <2>1. Apply("%", a, b) = IF b = 0 \/ ~InRange(Quotient(a, b)) THEN Undefined ELSE Remainder(a, b)
    BY <1>0 DEF Apply
  <2>2. CASE b = 0 \/ ~InRange(Quotient(a, b))
    <3>1. checked_rem(a, b, pos).err \in {"zero", "overflow"}
      BY <2>2 DEF checked_rem, Err
    <3> QED BY <3>1, <2>1, <2>2 DEF Yields
  <2>3. CASE ~(b = 0 \/ ~InRange(Quotient(a, b)))
    <3>1. checked_rem(a, b, pos) = Ok(Remainder(a, b), pos) /\ Ok(Remainder(a, b), pos).err = "none"
      BY <2>3 DEF checked_rem, Ok
    <3>2. InRange(Remainder(a, b))
      BY <1>0, <2>3, RemainderInRange
    <3> QED BY <3>1, <3>2, <2>1, <2>3, RangeDefined DEF Yields
  <2> QED BY <2>2, <2>3
<1>6. Yields(Checked(-b, pos), Apply("-", 0, b), pos)
  <2>1. Apply("-", 0, b) = Defined(-b)
    BY <1>0, <1>z DEF Apply
  <2> QED BY <2>1, CheckedYields
<1>7. Apply("+", 0, b) = b
  BY <1>0, <1>z DEF Apply, Defined
<1> QED BY <1>1, <1>2, <1>3, <1>4, <1>5, <1>6, <1>7

\* The equations of the parser.
LEMMA Parses ==
  ASSUME NEW s \in Text
  PROVE  LET P == CalcParser(s)
         IN  /\ \A p \in 0 .. Len(s) :
                  /\ factor(P, p) = parse_factor(s, P, p)
                  /\ factor(P, p) \in Outcome(s) /\ factor(P, p).pos >= p
             /\ \A l \in Outcome(s) :
                  /\ P[<<"digits", l>>] = digits(s, P, l)
                  /\ P[<<"digits", l>>] \in Outcome(s)
                  /\ P[<<"term_loop", l>>] = term_loop(s, P, l)
                  /\ P[<<"term_loop", l>>] \in Outcome(s) /\ P[<<"term_loop", l>>].pos >= l.pos
                  /\ P[<<"expr_loop", l>>] = expr_loop(s, P, l)
                  /\ P[<<"expr_loop", l>>] \in Outcome(s) /\ P[<<"expr_loop", l>>].pos >= l.pos
             /\ \A l \in Outcome(s) :
                  l.err # "none" => P[<<"term_loop", l>>] = l /\ P[<<"expr_loop", l>>] = l
<1> DEFINE P == CalcParser(s)
<1>1. \A c \in Call(s) : P[c] = Returned(s, P, c) /\ P[c] \in Outcome(s) /\ P[c].pos >= c[2].pos
  BY CallsReturn
<1> HIDE DEF P
<1>2. ASSUME NEW l \in Outcome(s)
      PROVE  /\ P[<<"factor", l>>] = parse_factor(s, P, l.pos)
             /\ P[<<"factor", l>>] \in Outcome(s) /\ P[<<"factor", l>>].pos >= l.pos
             /\ P[<<"digits", l>>] = digits(s, P, l)
             /\ P[<<"digits", l>>] \in Outcome(s)
             /\ P[<<"term_loop", l>>] = term_loop(s, P, l)
             /\ P[<<"term_loop", l>>] \in Outcome(s) /\ P[<<"term_loop", l>>].pos >= l.pos
             /\ P[<<"expr_loop", l>>] = expr_loop(s, P, l)
             /\ P[<<"expr_loop", l>>] \in Outcome(s) /\ P[<<"expr_loop", l>>].pos >= l.pos
  <2>1. \A fn \in {"factor", "digits", "term_loop", "expr_loop"} :
          <<fn, l>> \in Call(s) /\ <<fn, l>>[1] = fn /\ <<fn, l>>[2] = l
    BY DEF Call
  <2>2. \A fn \in {"factor", "digits", "term_loop", "expr_loop"} :
          /\ P[<<fn, l>>] = Returned(s, P, <<fn, l>>)
          /\ P[<<fn, l>>] \in Outcome(s) /\ P[<<fn, l>>].pos >= l.pos
    BY <1>1, <2>1
  <2>3. /\ Returned(s, P, <<"factor", l>>) = parse_factor(s, P, l.pos)
        /\ Returned(s, P, <<"digits", l>>) = digits(s, P, l)
        /\ Returned(s, P, <<"term_loop", l>>) = term_loop(s, P, l)
        /\ Returned(s, P, <<"expr_loop", l>>) = expr_loop(s, P, l)
    BY DEF Returned
  <2> QED BY <2>2, <2>3
<1>3. \A p \in 0 .. Len(s) :
        /\ factor(P, p) = parse_factor(s, P, p)
        /\ factor(P, p) \in Outcome(s) /\ factor(P, p).pos >= p
  <2> TAKE p \in 0 .. Len(s)
  <2>1. Ok(0, p) \in Outcome(s) /\ Ok(0, p).pos = p
    BY Outcomes
  <2> QED BY <1>2, <2>1, Zenon DEF factor
<1>4. \A l \in Outcome(s) :
        l.err # "none" => P[<<"term_loop", l>>] = l /\ P[<<"expr_loop", l>>] = l
  BY <1>2, ZenonT(30) DEF term_loop, expr_loop
<1> QED BY <1>2, <1>3, <1>4, Zenon DEF P

\* What the loop of parse_number accepts are digits, and it returns their number.
LEMMA DigitsSound ==
  ASSUME NEW s \in Text, NEW lo \in 0 .. Len(s)
  PROVE  \A p \in lo .. Len(s) :
           Digits(s, lo, p) /\ InRange(Decimal(s, lo)[p]) =>
             LET r == CalcParser(s)[<<"digits", Ok(Decimal(s, lo)[p], p)>>]
             IN  r.err = "none" =>
                   /\ r.pos \in p .. Len(s) /\ Digits(s, lo, r.pos)
                   /\ r.value = Decimal(s, lo)[r.pos] /\ InRange(r.value)
                   /\ r.pos < Len(s) => ~is_ascii_digit(s[r.pos + 1])
<1> DEFINE n == Len(s)
           P == CalcParser(s)
           v == Decimal(s, lo)
           R(p) == P[<<"digits", Ok(v[p], p)>>]
           Claim(p) == Digits(s, lo, p) /\ InRange(v[p]) =>
                         (R(p).err = "none" =>
                            /\ R(p).pos \in p .. n /\ Digits(s, lo, R(p).pos)
                            /\ R(p).value = v[R(p).pos] /\ InRange(R(p).value)
                            /\ R(p).pos < n => ~is_ascii_digit(s[R(p).pos + 1]))
           Bad == {k \in 0 .. n - lo : ~Claim(n - k)}
<1>0. n \in Nat /\ lo \in 0 .. n
  BY DEF Text
<1>1. ASSUME NEW p \in lo .. n, p < n => Claim(p + 1)
      PROVE  Claim(p)
  <2> SUFFICES ASSUME Digits(s, lo, p), InRange(v[p]), R(p).err = "none"
               PROVE  /\ R(p).pos \in p .. n /\ Digits(s, lo, R(p).pos)
                      /\ R(p).value = v[R(p).pos] /\ InRange(R(p).value)
                      /\ R(p).pos < n => ~is_ascii_digit(s[R(p).pos + 1])
    BY Zenon
  <2> DEFINE l == Ok(v[p], p)
             value == v[p] * 10 + Digit[s[p + 1]]
  <2>1. v[p] \in Int /\ p \in 0 .. n
    <3>1. v[p] \in Int
      BY RangeDefined, Zenon
    <3>2. p \in 0 .. n
      BY <1>0, SMTT(20)
    <3> QED BY <3>1, <3>2, Zenon
  <2>2. l \in Outcome(s) /\ l.value = v[p] /\ l.pos = p /\ l.err = "none"
    BY <2>1, Outcomes
  <2>3. R(p) = digits(s, P, l)
    BY <2>2, Parses, Zenon
  <2> HIDE DEF P, v
  <2>4. CASE p = n \/ ~is_ascii_digit(s[p + 1])
    <3>1. R(p) = l
      BY <2>2, <2>3, <2>4, SMTT(20) DEF digits
    <3> QED BY <3>1, <2>2, <2>4, <1>0
  <2>5. CASE ~(p = n \/ ~is_ascii_digit(s[p + 1]))
    <3>1. p < n /\ p + 1 \in lo + 1 .. n /\ p + 1 - 1 = p
      BY <1>0, <2>5
    <3>2. Digits(s, lo, p + 1)
      <4>1. \A i \in lo + 1 .. p + 1 : i \in lo + 1 .. p \/ i = p + 1
        BY <1>0
      <4> QED BY <4>1, <2>5 DEF Digits
    <3>3. Digit[s[p + 1]] \in Int
      BY <2>5 DEF is_ascii_digit, Digit
    <3>4. v[p + 1] = value
      <4>1. v[p + 1] = 10 * v[p] + Digit[s[p + 1]]
        BY <3>1, DecimalStep DEF v
      <4> QED BY <4>1, <3>3, <2>1
    <3>5. CASE ~InRange(v[p] * 10) \/ ~InRange(value)
      <4>1. R(p) = Err("overflow", p)
        BY <2>2, <2>3, <2>5, <3>5 DEF digits
      <4> QED BY <4>1, SMTT(20) DEF Err
    <3>6. CASE ~(~InRange(v[p] * 10) \/ ~InRange(value))
      <4>1. R(p) = P[<<"digits", Ok(value, p + 1)>>]
        BY <2>2, <2>3, <2>5, <3>6 DEF digits
      <4>2. R(p) = R(p + 1)
        BY <4>1, <3>4
      <4>3. InRange(v[p + 1])
        BY <3>4, <3>6, SMTT(20)
      <4>4. Claim(p + 1)
        BY <1>1, <3>1
      <4> HIDE DEF R
      <4>5. /\ R(p).pos \in p + 1 .. n /\ Digits(s, lo, R(p).pos)
            /\ R(p).value = v[R(p).pos] /\ InRange(R(p).value)
            /\ R(p).pos < n => ~is_ascii_digit(s[R(p).pos + 1])
        BY <3>2, <4>2, <4>3, <4>4
      <4> QED BY <4>5, <1>0, SMTT(20)
    <3> QED BY <3>5, <3>6
  <2> QED BY <2>4, <2>5, Zenon
<1> HIDE DEF Claim
<1>2. Bad = {}
  <2> SUFFICES ASSUME Bad # {}
               PROVE  FALSE
    OBVIOUS
  <2>1. \A j \in Bad : j \in Nat
    BY <1>0
  <2>2. PICK k \in Bad : \A j \in Bad : k <= j
    BY <2>1, LeastExists, Zenon
  <2> DEFINE p == n - k
  <2>3. p \in lo .. n /\ k \in Nat
    BY <1>0, <2>2
  <2>4. p < n => Claim(p + 1)
    <3> HAVE p < n
    <3>1. k - 1 \in 0 .. n - lo /\ n - (k - 1) = p + 1 /\ k - 1 < k
      BY <1>0, <2>2, <2>3
    <3>2. k - 1 \notin Bad
      BY <2>2, <2>3, <3>1
    <3> QED BY <3>1, <3>2
  <2>5. Claim(p)
    BY <1>1, <2>3, <2>4
  <2> QED BY <2>5, <2>2
<1>3. \A p \in lo .. n : Claim(p)
  <2> TAKE p \in lo .. n
  <2>1. n - p \in 0 .. n - lo /\ n - (n - p) = p
    BY <1>0
  <2> QED BY <1>2, <2>1, Zenon
<1> QED BY <1>3 DEF Claim

\* What the functions return at position p is the meaning of what they have read.
FactorSound(s, p) ==
  LET r == factor(CalcParser(s), p)
  IN  r.err = "none" => Factor(s, p, r.pos, r.value)

TermSound(s, p) ==
  \A lo \in 0 .. Len(s), v \in Int :
    Term(s, lo, p, v) =>
      LET r == CalcParser(s)[<<"term_loop", Ok(v, p)>>]
      IN  r.err = "none" => Term(s, lo, r.pos, r.value)

ExprSound(s, p) ==
  \A lo \in 0 .. Len(s), v \in Int :
    Spans(s, lo, p, v) =>
      LET r == CalcParser(s)[<<"expr_loop", Ok(v, p)>>]
      IN  r.err = "none" => Spans(s, lo, r.pos, r.value)

Sound(s, p) == FactorSound(s, p) /\ TermSound(s, p) /\ ExprSound(s, p)

\* parse_term and parse_expr, from their loops.
LEMMA SoundCalls ==
  ASSUME NEW s \in Text, NEW p \in 0 .. Len(s), \A i \in p .. Len(s) : Sound(s, i)
  PROVE  /\ LET r == parse_term(CalcParser(s), p)
            IN  r \in Outcome(s) /\ (r.err = "none" => Term(s, p, r.pos, r.value))
         /\ LET r == parse_expr(CalcParser(s), p)
            IN  r \in Outcome(s) /\ (r.err = "none" => Spans(s, p, r.pos, r.value))
<1> DEFINE P == CalcParser(s)
           f == factor(P, p)
           t == parse_term(P, p)
           e == parse_expr(P, p)
<1>0. Len(s) \in Nat
  BY SMTT(20) DEF Text
<1>1. f \in Outcome(s) /\ f.pos >= p
  BY Parses
<1>2. t = P[<<"term_loop", f>>] /\ e = P[<<"expr_loop", t>>]
  BY DEF parse_term, parse_expr
<1>3. t \in Outcome(s) /\ t.pos >= f.pos /\ (f.err # "none" => t = f)
  BY <1>1, <1>2, Parses, Zenon
<1>4. e \in Outcome(s) /\ e.pos >= t.pos /\ (t.err # "none" => e = t)
  BY <1>2, <1>3, Parses, Zenon
<1>5. f.value \in Int /\ f.pos \in 0 .. Len(s) /\ (f.err = "none" => f = Ok(f.value, f.pos))
  BY <1>1, OutcomeFields
<1>6. t.value \in Int /\ t.pos \in 0 .. Len(s) /\ (t.err = "none" => t = Ok(t.value, t.pos))
  BY <1>3, OutcomeFields
<1> HIDE DEF f, t, e
<1>7. f.pos \in p .. Len(s) /\ t.pos \in p .. Len(s)
  BY <1>0, <1>1, <1>3, <1>5, <1>6
<1>8. f.err = "none" => Factor(s, p, f.pos, f.value)
  <2>1. p \in p .. Len(s)
    BY <1>0
  <2> QED BY <2>1 DEF Sound, FactorSound, f
<1>9. t.err = "none" => Term(s, p, t.pos, t.value)
  <2> HAVE t.err = "none"
  <2>1. f.err = "none" /\ f = Ok(f.value, f.pos)
    BY <1>3, <1>5
  <2>2. Term(s, p, f.pos, f.value)
    BY <1>8, <2>1 DEF Factor
  <2>3. TermSound(s, f.pos)
    BY <1>7 DEF Sound
  <2>4. t = P[<<"term_loop", Ok(f.value, f.pos)>>]
    BY <1>2, <2>1, SMTT(20)
  <2> QED BY <2>2, <2>3, <2>4, <1>5 DEF TermSound
<1>10. e.err = "none" => Spans(s, p, e.pos, e.value)
  <2> HAVE e.err = "none"
  <2>1. t.err = "none" /\ t = Ok(t.value, t.pos)
    BY <1>4, <1>6
  <2>2. Spans(s, p, t.pos, t.value)
    BY <1>9, <2>1 DEF Term
  <2>3. ExprSound(s, t.pos)
    BY <1>7 DEF Sound
  <2>4. e = P[<<"expr_loop", Ok(t.value, t.pos)>>]
    BY <1>2, <2>1
  <2> QED BY <2>2, <2>3, <2>4, <1>6 DEF ExprSound
<1> QED BY <1>3, <1>4, <1>9, <1>10 DEF t, e

\* parse_factor at p, from what is read after p.
LEMMA FactorIsSound ==
  ASSUME NEW s \in Text, NEW p \in 0 .. Len(s), \A i \in p + 1 .. Len(s) : Sound(s, i)
  PROVE  FactorSound(s, p)
<1> DEFINE P == CalcParser(s)
           r == factor(P, p)
           a == after(s, p)
<1>0. Len(s) \in Nat
  BY DEF Text
<1> SUFFICES ASSUME r.err = "none"
             PROVE  Factor(s, p, r.pos, r.value)
  BY SMTT(20) DEF FactorSound
<1>1. r = parse_factor(s, P, p)
  BY Parses
<1>2. \A ch : consumes(s, p, ch) => a \in p + 1 .. Len(s) /\ s[a] = ch /\ Blank(s, p, a - 1)
  BY ConsumeGoesOn
<1> HIDE DEF P, a
<1>3. ASSUME NEW ch \in {"+", "-"}, consumes(s, p, ch), factor(P, a).err = "none"
      PROVE  /\ factor(P, a) \in Outcome(s)
             /\ Factor(s, a, factor(P, a).pos, factor(P, a).value)
             /\ InRange(factor(P, a).value)
  <2>1. a \in p + 1 .. Len(s) /\ a \in 0 .. Len(s)
    BY <1>0, <1>2, <1>3
  <2>2. factor(P, a) \in Outcome(s)
    BY <2>1, Parses DEF P
  <2>3. Factor(s, a, factor(P, a).pos, factor(P, a).value)
    BY <1>3, <2>1 DEF Sound, FactorSound, P
  <2> QED BY <2>2, <2>3, Zenon DEF Factor, Term, Spans
<1>4. CASE consumes(s, p, "+")
  <2>1. r = factor(P, a)
    BY <1>1, <1>4 DEF parse_factor, a
  <2>2. Factor(s, a, r.pos, r.value) /\ InRange(r.value)
    BY <1>3, <1>4, <2>1
  <2>3. r.value = Apply("+", 0, r.value) /\ r.value \in Int
    BY <2>2, Computes, RangeDefined, Zenon
  <2>4. a \in p + 1 .. Len(s) /\ s[a] = "+" /\ Blank(s, p, a - 1)
    BY <1>2, <1>4
  <2> HIDE DEF r
  <2> QED BY <2>2, <2>3, <2>4, Signed
<1>5. CASE ~consumes(s, p, "+") /\ consumes(s, p, "-")
  <2> DEFINE u == factor(P, a)
  <2>1. r = IF u.err # "none" THEN u ELSE Checked(-u.value, u.pos)
    BY <1>1, <1>5 DEF parse_factor, a
  <2>2. u.err = "none" /\ r = Checked(-u.value, u.pos)
    BY <2>1
  <2>3. Factor(s, a, u.pos, u.value) /\ InRange(u.value)
    BY <1>3, <1>5, <2>2
  <2> HIDE DEF u, r
  <2>4. Yields(r, Apply("-", 0, u.value), u.pos)
    BY <2>2, <2>3, Computes
  <2> DEFINE v == Apply("-", 0, u.value)
  <2>5. r = Ok(v, u.pos) /\ v \in Int /\ InRange(v)
    BY <2>4 DEF Yields, r
  <2>6. a \in p + 1 .. Len(s) /\ s[a] = "-" /\ Blank(s, p, a - 1)
    BY <1>2, <1>5
  <2>7. v = Apply(s[a], 0, u.value)
    BY <2>6
  <2> HIDE DEF v
  <2>8. Factor(s, p, u.pos, v)
    BY <2>3, <2>5, <2>6, <2>7, Signed
  <2> QED BY <2>5, <2>8 DEF Ok
<1>6. CASE ~consumes(s, p, "+") /\ ~consumes(s, p, "-") /\ consumes(s, p, "(")
  <2> DEFINE u == parse_expr(P, a)
             b == after(s, u.pos)
  <2>1. r = IF u.err # "none" THEN u
            ELSE IF consumes(s, u.pos, ")") THEN Ok(u.value, b)
            ELSE Err("paren", skip_ws(s, u.pos))
    BY <1>1, <1>6 DEF parse_factor, a
  <2>2. u.err = "none" /\ consumes(s, u.pos, ")") /\ r = Ok(u.value, b)
    BY <2>1 DEF Err
  <2>3. a \in p + 1 .. Len(s) /\ s[a] = "(" /\ Blank(s, p, a - 1)
    BY <1>2, <1>6
  <2>4. a \in 0 .. Len(s) /\ \A i \in a .. Len(s) : Sound(s, i)
    BY <1>0, <2>3
  <2>5. u \in Outcome(s) /\ Spans(s, a, u.pos, u.value)
    BY <2>2, <2>4, SoundCalls DEF P
  <2>6. u.pos \in 0 .. Len(s)
    BY <2>5, OutcomeFields
  <2>7. b \in u.pos + 1 .. Len(s) /\ s[b] = ")" /\ Blank(s, u.pos, b - 1)
    BY <2>2, <2>6, ConsumeGoesOn
  <2> HIDE DEF u, b
  <2>8. Factor(s, p, b, u.value)
    BY <2>3, <2>5, <2>7, Parenthesized, SMTT(20)
  <2> QED BY <2>2, <2>8 DEF Ok
<1>7. CASE ~consumes(s, p, "+") /\ ~consumes(s, p, "-") /\ ~consumes(s, p, "(")
  <2> DEFINE w == skip_ws(s, p)
  <2>1. r = parse_number(s, P, p)
    BY <1>1, <1>7 DEF parse_factor
  <2>2. ~(w = Len(s) \/ ~is_ascii_digit(s[w + 1])) /\ r = digits(s, P, Ok(0, w))
    BY <2>1 DEF parse_number, Err
  <2>3. w \in p .. Len(s) /\ Blank(s, p, w)
    BY SkipBlanks
  <2> HIDE DEF w
  <2>4. w \in 0 .. Len(s) /\ w + 1 \in p + 1 .. Len(s) /\ w + 1 - 1 = w /\ w \in w .. Len(s)
    BY <1>0, <2>2, <2>3
  <2>5. Decimal(s, w)[w] = 0 /\ Digits(s, w, w) /\ InRange(0)
    BY <2>4, DecimalStep, RangeAssumption DEF Digits, InRange, MIN
  <2>6. r = P[<<"digits", Ok(0, w)>>]
    <3>1. Ok(0, w) \in Outcome(s)
      BY <2>4, Outcomes
    <3> QED BY <2>2, <3>1, Parses, Zenon DEF P
  <2> HIDE DEF r
  <2>7. /\ r.pos \in w .. Len(s) /\ Digits(s, w, r.pos)
        /\ r.value = Decimal(s, w)[r.pos] /\ InRange(r.value)
        /\ r.pos < Len(s) => ~is_ascii_digit(s[r.pos + 1])
    <3>1. CalcParser(s)[<<"digits", Ok(Decimal(s, w)[w], w)>>] = r /\ InRange(Decimal(s, w)[w])
      BY <2>5, <2>6 DEF P
    <3>2. r.err = "none"
      BY DEF r
    <3> QED BY <3>1, <3>2, <2>4, <2>5, DigitsSound, ZenonT(30)
  <2>8. r.pos # w
    BY <1>0, <2>2, <2>4, <2>7
  <2>9. r.pos \in w + 1 .. Len(s)
    BY <1>0, <2>4, <2>7, <2>8
  <2> QED BY <2>3, <2>4, <2>7, <2>9, Numeral
<1> QED BY <1>4, <1>5, <1>6, <1>7

\* The loop of parse_term at p.
LEMMA TermIsSound ==
  ASSUME NEW s \in Text, NEW p \in 0 .. Len(s), \A i \in p + 1 .. Len(s) : Sound(s, i)
  PROVE  TermSound(s, p)
<1> DEFINE P == CalcParser(s)
           a == after(s, p)
<1>0. Len(s) \in Nat
  BY DEF Text
<1> SUFFICES ASSUME NEW lo \in 0 .. Len(s), NEW v \in Int, Term(s, lo, p, v),
                    P[<<"term_loop", Ok(v, p)>>].err = "none"
             PROVE  Term(s, lo, P[<<"term_loop", Ok(v, p)>>].pos, P[<<"term_loop", Ok(v, p)>>].value)
  BY DEF TermSound
<1> DEFINE left == Ok(v, p)
           r == P[<<"term_loop", left>>]
           right == factor(P, a)
           next == IF right.err # "none" THEN right
                   ELSE IF consumes(s, p, "*") THEN Checked(v * right.value, right.pos)
                   ELSE IF consumes(s, p, "/") THEN checked_div(v, right.value, right.pos)
                   ELSE checked_rem(v, right.value, right.pos)
<1>1. left \in Outcome(s) /\ left.err = "none" /\ left.value = v /\ left.pos = p
  BY Outcomes
<1>2. r = term_loop(s, P, left)
  BY <1>1, Parses, Zenon
<1> HIDE DEF P, left
<1>3. CASE \A op \in {"*", "/", "%"} : ~consumes(s, p, op)
  <2>1. r = left
    BY <1>1, <1>2, <1>3 DEF term_loop
  <2> QED BY <2>1, <1>1, Zenon DEF left
<1>4. CASE ~\A op \in {"*", "/", "%"} : ~consumes(s, p, op)
  <2>1. r = P[<<"term_loop", next>>]
    BY <1>1, <1>2, <1>4, Zenon DEF term_loop
  <2>2. PICK ch \in {"*", "/", "%"} : consumes(s, p, ch)
    BY <1>4
  <2>3. a \in p + 1 .. Len(s) /\ s[a] = ch /\ Blank(s, p, a - 1)
    BY <2>2, ConsumeGoesOn, Zenon
  <2>4. \A op : consumes(s, p, op) => op = ch
    BY <2>2 DEF consumes
  <2> HIDE DEF a
  <2>5. a \in 0 .. Len(s)
    BY <1>0, <2>3
  <2>6. right \in Outcome(s) /\ right.pos >= a
    BY <2>5, Parses, SMTT(20) DEF P
  <2>7. right.value \in Int /\ right.pos \in p + 1 .. Len(s) /\ right.pos \in 0 .. Len(s)
    BY <2>3, <2>6, <1>0, OutcomeFields
  <2>8. Sound(s, right.pos) /\ Sound(s, a)
    BY <2>3, <2>7
  <2>9. right.err = "none" => Factor(s, a, right.pos, right.value)
    BY <2>8, Zenon DEF Sound, FactorSound, P
  <2> HIDE DEF right
  <2>10. next \in Outcome(s)
    <3>1. v * right.value \in Int
      BY <2>7
    <3> QED BY <3>1, <2>6, <2>7, CheckedOutcome, Zenon
  <2>11. next.err # "none" => r = next
    <3> HIDE DEF next
    <3> QED BY <2>1, <2>10, Parses, Zenon DEF P
  <2>12. next.err = "none" /\ right.err = "none"
    BY <2>11, Zenon DEF left
  <2>13. InRange(v) /\ InRange(right.value)
    BY <2>9, <2>12, Zenon DEF Factor, Term, Spans
  <2> DEFINE u == Apply(ch, v, right.value)
  <2>14. Yields(next, u, right.pos)
    <3>1. CASE ch = "*"
      <4>1. next = Checked(v * right.value, right.pos)
        BY <2>2, <2>12, <3>1, Zenon
      <4> QED BY <4>1, <3>1, <2>13, Computes
    <3>2. CASE ch = "/"
      <4>1. next = checked_div(v, right.value, right.pos)
        BY <2>2, <2>4, <2>12, <3>2
      <4> QED BY <4>1, <3>2, <2>13, Computes, SMTT(20)
    <3>3. CASE ch = "%"
      <4>1. next = checked_rem(v, right.value, right.pos)
        BY <2>2, <2>4, <2>12, <3>3
      <4> QED BY <4>1, <3>3, <2>13, Computes, SMTT(20)
    <3> QED BY <3>1, <3>2, <3>3, Zenon
  <2> HIDE DEF next
  <2>15. next = Ok(u, right.pos) /\ u \in Int /\ InRange(u)
    BY <2>12, <2>14 DEF Yields
  <2>16. u = Apply(s[a], v, right.value) /\ s[a] \in {"*", "/", "%"} /\ s[a] \in Operator
    BY <2>3, Bytewise, SMTT(20)
  <2> HIDE DEF u
  <2>17. Term(s, lo, right.pos, u)
    BY <2>3, <2>9, <2>12, <2>15, <2>16, Joined, SMTT(20) DEF Factor, Term
  <2> QED BY <2>1, <2>8, <2>15, <2>17, Zenon DEF Sound, TermSound, P, left
<1> QED BY <1>3, <1>4

\* The loop of parse_expr at p.
LEMMA ExprIsSound ==
  ASSUME NEW s \in Text, NEW p \in 0 .. Len(s), \A i \in p + 1 .. Len(s) : Sound(s, i)
  PROVE  ExprSound(s, p)
<1> DEFINE P == CalcParser(s)
           a == after(s, p)
<1>0. Len(s) \in Nat
  BY DEF Text
<1> SUFFICES ASSUME NEW lo \in 0 .. Len(s), NEW v \in Int, Spans(s, lo, p, v),
                    P[<<"expr_loop", Ok(v, p)>>].err = "none"
             PROVE  Spans(s, lo, P[<<"expr_loop", Ok(v, p)>>].pos, P[<<"expr_loop", Ok(v, p)>>].value)
  BY DEF ExprSound
<1> DEFINE left == Ok(v, p)
           r == P[<<"expr_loop", left>>]
           right == parse_term(P, a)
           next == IF right.err # "none" THEN right
                   ELSE IF consumes(s, p, "+") THEN Checked(v + right.value, right.pos)
                   ELSE Checked(v - right.value, right.pos)
<1>1. left \in Outcome(s) /\ left.err = "none" /\ left.value = v /\ left.pos = p
  BY Outcomes
<1>2. r = expr_loop(s, P, left)
  BY <1>1, Parses, Zenon
<1> HIDE DEF P, left
<1>3. CASE \A op \in {"+", "-"} : ~consumes(s, p, op)
  <2>1. r = left
    BY <1>1, <1>2, <1>3 DEF expr_loop
  <2> QED BY <2>1, <1>1, Zenon DEF left
<1>4. CASE ~\A op \in {"+", "-"} : ~consumes(s, p, op)
  <2>1. r = P[<<"expr_loop", next>>]
    BY <1>1, <1>2, <1>4, Zenon DEF expr_loop
  <2>2. PICK ch \in {"+", "-"} : consumes(s, p, ch)
    BY <1>4, SMTT(20)
  <2>3. a \in p + 1 .. Len(s) /\ s[a] = ch /\ Blank(s, p, a - 1)
    BY <2>2, ConsumeGoesOn
  <2>4. \A op : consumes(s, p, op) => op = ch
    BY <2>2 DEF consumes
  <2> HIDE DEF a
  <2>5. a \in 0 .. Len(s) /\ \A i \in a .. Len(s) : Sound(s, i)
    BY <1>0, <2>3, SMTT(20)
  <2>6. right \in Outcome(s) /\ (right.err = "none" => Term(s, a, right.pos, right.value))
    BY <2>5, SoundCalls, SMTT(20) DEF P
  <2>7. right.value \in Int /\ right.pos \in 0 .. Len(s)
    BY <2>6, OutcomeFields
  <2> HIDE DEF right
  <2>8. v + right.value \in Int /\ v - right.value \in Int
    BY <2>7
  <2>9. next \in Outcome(s)
    BY <2>6, <2>7, <2>8, CheckedOutcome, Zenon
  <2>10. next.err # "none" => r = next
    <3> HIDE DEF next
    <3> QED BY <2>1, <2>9, Parses, Zenon DEF P
  <2>11. next.err = "none" /\ right.err = "none"
    BY <2>10, Zenon DEF left
  <2>12. InRange(v) /\ InRange(right.value) /\ right.pos \in a + 1 .. Len(s)
    BY <2>6, <2>11, Zenon DEF Term, Spans
  <2>13. Sound(s, right.pos)
    BY <2>12, <2>5, <1>0
  <2> DEFINE u == Apply(ch, v, right.value)
  <2>14. Yields(next, u, right.pos)
    <3>1. CASE ch = "+"
      <4>1. next = Checked(v + right.value, right.pos)
        BY <2>2, <2>11, <3>1
      <4> QED BY <4>1, <3>1, <2>12, Computes, SMTT(20)
    <3>2. CASE ch = "-"
      <4>1. next = Checked(v - right.value, right.pos)
        BY <2>2, <2>4, <2>11, <3>2
      <4> QED BY <4>1, <3>2, <2>12, Computes, ZenonT(30)
    <3> QED BY <3>1, <3>2, Zenon
  <2> HIDE DEF next
  <2>15. next = Ok(u, right.pos) /\ u \in Int /\ InRange(u)
    BY <2>11, <2>14 DEF Yields
  <2>16. u = Apply(s[a], v, right.value) /\ s[a] \in {"+", "-"} /\ s[a] \in Operator
    BY <2>3, Bytewise, Zenon
  <2> HIDE DEF u
  <2>17. Spans(s, lo, right.pos, u)
    BY <2>3, <2>6, <2>11, <2>15, <2>16, Joined, Zenon DEF Term
  <2> QED BY <2>1, <2>13, <2>15, <2>17, Zenon DEF Sound, ExprSound, P, left
<1> QED BY <1>3, <1>4, Zenon

\* From the end of the text backwards.
LEMMA AllSound ==
  ASSUME NEW s \in Text
  PROVE  \A p \in 0 .. Len(s) : Sound(s, p)
<1> DEFINE n == Len(s)
           Bad == {k \in 0 .. n : ~Sound(s, n - k)}
<1>0. n \in Nat
  BY DEF Text
<1>1. Bad = {}
  <2> SUFFICES ASSUME Bad # {}
               PROVE  FALSE
    OBVIOUS
  <2>1. \A j \in Bad : j \in Nat
    BY <1>0
  <2>2. PICK k \in Bad : \A j \in Bad : k <= j
    BY <2>1, LeastExists, Zenon
  <2> DEFINE p == n - k
  <2>3. p \in 0 .. n /\ k \in Nat
    BY <1>0, <2>2
  <2>4. \A i \in p + 1 .. n : Sound(s, i)
    <3> TAKE i \in p + 1 .. n
    <3>1. n - i \in 0 .. n /\ n - (n - i) = i /\ n - i < k
      BY <1>0, <2>3
    <3>2. n - i \notin Bad
      BY <2>2, <2>3, <3>1
    <3> QED BY <3>1, <3>2
  <2> HIDE DEF p
  <2>5. Sound(s, p)
    BY <2>3, <2>4, FactorIsSound, TermIsSound, ExprIsSound DEF Sound
  <2> QED BY <2>5, <2>2 DEF p
<1> TAKE p \in 0 .. n
<1>2. n - p \in 0 .. n /\ n - (n - p) = p
  BY <1>0
<1> QED BY <1>1, <1>2, Zenon

\* A number that calc prints is the meaning of the expression.
LEMMA EvalSound ==
  ASSUME NEW s \in Text, eval_calc_expression(s).err = "none"
  PROVE  eval_calc_expression(s).value = Meaning(s) /\ Meaning(s) # Undefined
<1> DEFINE v == parse_expr(CalcParser(s), 0)
<1>0. Len(s) \in Nat
  BY DEF Text
<1>1. v \in Outcome(s) /\ (v.err = "none" => Spans(s, 0, v.pos, v.value))
  BY <1>0, AllSound, SoundCalls
<1>2. eval_calc_expression(s) = v /\ v.err = "none" /\ skip_ws(s, v.pos) = Len(s)
  BY DEF eval_calc_expression, Err
<1> HIDE DEF v
<1>3. v.pos \in 0 .. Len(s)
  BY <1>1, OutcomeFields
<1>4. Blank(s, v.pos, Len(s)) /\ Len(s) \in v.pos .. Len(s)
  BY <1>0, <1>2, <1>3, SkipBlanks, SMTT(20)
<1>5. Meanings(s)[<<0, Len(s)>>] = v.value /\ InRange(v.value)
  BY <1>1, <1>2, <1>4 DEF Spans
<1> QED BY <1>2, <1>5, RangeDefined DEF Meaning

----------------------------------------------------------------------------
(* An expression that has a meaning is read to its end.                     *)

\* What follows an expression, and what follows a term or a factor.
EndsExpr(s, hi) == hi = Len(s) \/ s[hi + 1] \in {")", "+", "-"}
EndsTerm(s, hi) == hi = Len(s) \/ s[hi + 1] = ")" \/ s[hi + 1] \in Operator

\* consume, when only blanks are left before hi.
LEMMA ConsumesAt ==
  ASSUME NEW s \in Text, NEW q \in 0 .. Len(s), NEW hi \in q .. Len(s), Blank(s, q, hi),
         hi < Len(s) => ~is_ascii_whitespace(s[hi + 1])
  PROVE  /\ \A ch : consumes(s, q, ch) <=> hi < Len(s) /\ s[hi + 1] = ch
         /\ after(s, q) = hi + 1
         /\ skip_ws(s, q) = hi
<1>1. skip_ws(s, q) = hi
  BY SkipTo
<1> QED BY <1>1 DEF consumes, after

\* The loops stop where their part ends.
LEMMA LoopsStop ==
  ASSUME NEW s \in Text, NEW q \in 0 .. Len(s), NEW hi \in q .. Len(s), Blank(s, q, hi), NEW v \in Int
  PROVE  /\ EndsExpr(s, hi) => CalcParser(s)[<<"term_loop", Ok(v, q)>>] = Ok(v, q)
         /\ hi = Len(s) \/ s[hi + 1] = ")" =>
              /\ CalcParser(s)[<<"expr_loop", Ok(v, q)>>] = Ok(v, q)
              /\ skip_ws(s, q) = hi
<1> DEFINE P == CalcParser(s)
           l == Ok(v, q)
<1>0. Len(s) \in Nat
  BY DEF Text
<1>1. l \in Outcome(s) /\ l.err = "none" /\ l.pos = q
  BY Outcomes
<1>2. P[<<"term_loop", l>>] = term_loop(s, P, l) /\ P[<<"expr_loop", l>>] = expr_loop(s, P, l)
  BY <1>1, Parses, Zenon
<1> HIDE DEF P, l
<1>3. EndsExpr(s, hi) => P[<<"term_loop", l>>] = l
  <2> HAVE EndsExpr(s, hi)
  <2>1. hi < Len(s) => ~is_ascii_whitespace(s[hi + 1]) /\ s[hi + 1] \notin {"*", "/", "%"}
    BY <1>0, Bytewise DEF EndsExpr
  <2>2. \A op \in {"*", "/", "%"} : ~consumes(s, q, op)
    BY <2>1, ConsumesAt, SMTT(20)
  <2> QED BY <2>2, <1>1, <1>2, Zenon DEF term_loop
<1>4. hi = Len(s) \/ s[hi + 1] = ")" => P[<<"expr_loop", l>>] = l /\ skip_ws(s, q) = hi
  <2> HAVE hi = Len(s) \/ s[hi + 1] = ")"
  <2>1. hi < Len(s) => ~is_ascii_whitespace(s[hi + 1]) /\ s[hi + 1] \notin {"+", "-"}
    BY <1>0, Bytewise
  <2>2. (\A op \in {"+", "-"} : ~consumes(s, q, op)) /\ skip_ws(s, q) = hi
    BY <2>1, ConsumesAt, SMTT(20)
  <2> QED BY <2>2, <1>1, <1>2 DEF expr_loop
<1> QED BY <1>3, <1>4 DEF P, l

\* A number in range is read to its last digit.
LEMMA DigitsComplete ==
  ASSUME NEW s \in Text, NEW lo \in 0 .. Len(s), NEW b \in lo .. Len(s), Digits(s, lo, b),
         InRange(Decimal(s, lo)[b]), b < Len(s) => ~is_ascii_digit(s[b + 1])
  PROVE  CalcParser(s)[<<"digits", Ok(0, lo)>>] = Ok(Decimal(s, lo)[b], b)
<1> DEFINE n == Len(s)
           P == CalcParser(s)
           v == Decimal(s, lo)
           Claim(p) == P[<<"digits", Ok(v[p], p)>>] = Ok(v[b], b)
           Bad == {k \in 0 .. b - lo : ~Claim(b - k)}
<1>0. n \in Nat /\ lo \in 0 .. n /\ b \in lo .. n
  BY DEF Text
<1>1. \A i \in lo .. b : v[i] \in Nat /\ v[i] <= v[b]
  BY DecimalGrows, SMTT(20)
<1>2. v[lo] = 0 /\ \A i \in lo + 1 .. n : v[i] = 10 * v[i - 1] + Digit[s[i]]
  BY DecimalStep
<1>3. \A p \in lo .. b :
        LET l == Ok(v[p], p)
        IN  /\ l.value = v[p] /\ l.pos = p
            /\ P[<<"digits", l>>] = digits(s, P, l)
  <2> TAKE p \in lo .. b
  <2>1. v[p] \in Int /\ p \in 0 .. n
    BY <1>0, <1>1
  <2>2. Ok(v[p], p) \in Outcome(s) /\ Ok(v[p], p).value = v[p] /\ Ok(v[p], p).pos = p
    BY <2>1, Outcomes
  <2> QED BY <2>2, Parses, Zenon
<1> HIDE DEF P, v
<1>4. Claim(b)
  <2>1. b \in lo .. b /\ (b = n \/ ~is_ascii_digit(s[b + 1]))
    BY <1>0, SMTT(20)
  <2> QED BY <2>1, <1>3, Zenon DEF digits
<1>5. ASSUME NEW p \in lo .. b - 1, Claim(p + 1)
      PROVE  Claim(p)
  <2>1. p \in lo .. b /\ p + 1 \in lo + 1 .. b /\ p + 1 \in lo + 1 .. n /\ p + 1 - 1 = p /\ p # n
    BY <1>0
  <2>2. is_ascii_digit(s[p + 1])
    BY <2>1 DEF Digits
  <2>3. Digit[s[p + 1]] \in Nat
    BY <2>2 DEF is_ascii_digit, Digit
  <2>4. v[p + 1] = 10 * v[p] + Digit[s[p + 1]] /\ v[p] \in Nat /\ v[p + 1] \in Nat /\ v[p + 1] <= v[b]
    <3>1. p + 1 \in lo .. b
      BY <2>1, <1>0
    <3> QED BY <3>1, <2>1, <1>1, <1>2, SMTT(20)
  <2>5. v[b] <= MAX /\ v[b] \in Int
    BY RangeAssumption DEF v, InRange, MIN
  <2>6. InRange(v[p] * 10) /\ InRange(v[p] * 10 + Digit[s[p + 1]])
    <3> DEFINE x == v[p]
               y == Digit[s[p + 1]]
    <3>1. x \in Nat /\ y \in Nat /\ v[p + 1] = 10 * x + y
      BY <2>3, <2>4
    <3> HIDE DEF x, y
    <3>2. x * 10 \in 0 .. MAX /\ x * 10 + y \in 0 .. MAX
      BY <3>1, <2>4, <2>5, RangeAssumption
    <3>3. \A z \in 0 .. MAX : InRange(z)
      BY RangeAssumption DEF InRange, MIN
    <3> QED BY <3>2, <3>3 DEF x, y
  <2>7. v[p] * 10 + Digit[s[p + 1]] = v[p + 1]
    BY <2>3, <2>4, SMTT(20)
  <2> DEFINE l == Ok(v[p], p)
  <2>8. P[<<"digits", l>>] = digits(s, P, l) /\ l.value = v[p] /\ l.pos = p
    BY <2>1, <1>3
  <2> HIDE DEF l
  <2>9. digits(s, P, l) = P[<<"digits", Ok(v[p] * 10 + Digit[s[p + 1]], p + 1)>>]
    BY <2>1, <2>2, <2>6, <2>8 DEF digits
  <2> QED BY <2>7, <2>8, <2>9, <1>5 DEF l
<1> HIDE DEF Claim
<1>6. Bad = {}
  <2> SUFFICES ASSUME Bad # {}
               PROVE  FALSE
    OBVIOUS
  <2>1. \A j \in Bad : j \in Nat
    BY <1>0
  <2>2. PICK k \in Bad : \A j \in Bad : k <= j
    BY <2>1, LeastExists, Zenon
  <2> DEFINE p == b - k
  <2>3. p \in lo .. b /\ k \in Nat
    BY <1>0, <2>2
  <2>4. p # b
    BY <2>2, <1>4
  <2>5. k - 1 \in 0 .. b - lo /\ b - (k - 1) = p + 1 /\ k - 1 < k /\ p \in lo .. b - 1
    BY <1>0, <2>2, <2>3, <2>4
  <2>6. k - 1 \notin Bad
    <3> HIDE DEF Bad, p
    <3> QED BY <2>2, <2>3, <2>5
  <2>7. Claim(p + 1)
    BY <2>5, <2>6
  <2>8. Claim(p)
    BY <1>5, <2>5, <2>7
  <2> QED BY <2>8, <2>2
<1>7. Claim(lo)
  <2>1. b - lo \in 0 .. b - lo /\ b - (b - lo) = lo
    BY <1>0
  <2> QED BY <1>6, <2>1, Zenon
<1> QED BY <1>2, <1>7 DEF Claim, v, P

\* A part that has a meaning is read to its end, by the function for its kind.
Complete(s, lo, hi) ==
  LET P == CalcParser(s)
      v == Meanings(s)[<<lo, hi>>]
  IN  v # Undefined =>
        /\ InRange(v)
        /\ EndsExpr(s, hi) =>
             \E q \in lo .. hi : Blank(s, q, hi) /\ parse_expr(P, lo) = P[<<"expr_loop", Ok(v, q)>>]
        /\ EndsTerm(s, hi) /\ Sums(s, lo, hi) = {} =>
             \E q \in lo .. hi : Blank(s, q, hi) /\ parse_term(P, lo) = P[<<"term_loop", Ok(v, q)>>]
        /\ EndsTerm(s, hi) /\ Sums(s, lo, hi) = {} /\ Products(s, lo, hi) = {} =>
             \E q \in lo .. hi : Blank(s, q, hi) /\ factor(P, lo) = Ok(v, q)

\* What follows an expression may follow a term.
LEMMA EndsBoth ==
  ASSUME NEW s \in Text, NEW hi, EndsExpr(s, hi)
  PROVE  EndsTerm(s, hi)
BY DEF EndsExpr, EndsTerm, Operator

\* A part that reads as a term reads as an expression.
LEMMA TermReads ==
  ASSUME NEW s \in Text, NEW lo \in 0 .. Len(s), NEW hi \in 0 .. Len(s), NEW v, InRange(v),
         EndsExpr(s, hi), NEW q \in lo .. hi, Blank(s, q, hi),
         parse_term(CalcParser(s), lo) = CalcParser(s)[<<"term_loop", Ok(v, q)>>]
  PROVE  parse_expr(CalcParser(s), lo) = CalcParser(s)[<<"expr_loop", Ok(v, q)>>]
<1>0. Len(s) \in Nat
  BY DEF Text
<1>1. q \in 0 .. Len(s) /\ hi \in q .. Len(s) /\ v \in Int
  BY <1>0, RangeDefined
<1>2. parse_term(CalcParser(s), lo) = Ok(v, q)
  BY <1>1, LoopsStop, Zenon
<1> QED BY <1>2 DEF parse_expr

\* Both operands of a defined application are defined.
LEMMA ApplyDefined ==
  ASSUME NEW op, NEW a, NEW b, Apply(op, a, b) # Undefined
  PROVE  a # Undefined /\ b # Undefined
BY DEF Apply

\* k is the outermost operator of a part that m gives a meaning.
SplitAt(s, lo, hi, k, m) ==
  /\ k \in lo + 1 .. hi /\ s[k] \in Operator
  /\ m[<<lo, hi>>] = Apply(s[k], m[<<lo, k - 1>>], m[<<k, hi>>])
  /\ m[<<lo, k - 1>>] # Undefined /\ m[<<k, hi>>] # Undefined
  /\ Sums(s, k, hi) = {}
  /\ Sums(s, lo, hi) # {} => s[k] \in {"+", "-"}
  /\ Sums(s, lo, hi) = {} => /\ s[k] \in {"*", "/", "%"}
                             /\ Sums(s, lo, k - 1) = {}
                             /\ Products(s, k, hi) = {}

\* The two sides of the outermost operator.
LEMMA SplitParts ==
  ASSUME NEW s \in Text, NEW lo \in 0 .. Len(s), NEW hi \in 0 .. Len(s),
         Meanings(s)[<<lo, hi>>] # Undefined, Sums(s, lo, hi) \cup Products(s, lo, hi) # {}
  PROVE  SplitAt(s, lo, hi, Outermost(s, lo, hi), Meanings(s))
<1> DEFINE k == Outermost(s, lo, hi)
           m == Meanings(s)
<1>0. Len(s) \in Nat
  BY DEF Text
<1>1. /\ k \in lo + 1 .. hi
      /\ Sums(s, lo, hi) # {} => k \in Sums(s, lo, hi) /\ \A i \in Sums(s, lo, hi) : i <= k
      /\ Sums(s, lo, hi) = {} => k \in Products(s, lo, hi) /\ \A i \in Products(s, lo, hi) : i <= k
  BY OutermostIs, SMTT(20)
<1>2. m[<<lo, hi>>] = Apply(s[k], m[<<lo, k - 1>>], m[<<k, hi>>])
  <2> DEFINE r == <<lo, hi>>
  <2>1. r \in Part(s) /\ r[1] = lo /\ r[2] = hi
    BY DEF Part
  <2>2. m[r] = Means(s, m, r)
    BY <2>1, MeaningsMean
  <2> HIDE DEF r, m
  <2>3. m[r] # Undefined
    BY DEF r, m
  <2>4. m[r] = Apply(s[k], m[<<lo, k - 1>>], m[<<k, hi>>])
    BY <2>1, <2>2, <2>3, Zenon DEF Means
  <2> QED BY <2>4 DEF r
<1>3. m[<<lo, k - 1>>] # Undefined /\ m[<<k, hi>>] # Undefined
  BY <1>2, ApplyDefined
<1> HIDE DEF k, m
<1>4. /\ Sums(s, lo, hi) # {} => s[k] \in {"+", "-"}
      /\ Sums(s, lo, hi) = {} => s[k] \in {"*", "/", "%"}
      /\ Depth(s)[k - 1] = Depth(s)[lo]
  BY <1>1, Zenon DEF Sums, Products, Splits
<1>5. s[k] \in Operator
  BY <1>4, Bytewise, Zenon
<1>6. hi \in lo .. Len(s) /\ k - 1 \in lo .. hi
  BY <1>0, <1>1, SMTT(20)
<1>7. /\ \A i \in k + 1 .. hi : i \in Sums(s, lo, hi) <=> i \in Sums(s, k, hi)
      /\ \A i \in k + 1 .. hi : i \in Products(s, lo, hi) <=> i \in Products(s, k, hi)
  BY <1>1, <1>4, <1>5, <1>6, SplitsAfter, SMTT(20) DEF Sums, Products
<1>8. /\ \A i \in Sums(s, k, hi) : i \in k + 1 .. hi
      /\ \A i \in Products(s, k, hi) : i \in k + 1 .. hi
  BY DEF Sums, Products, Splits
<1>9. \A i \in k + 1 .. hi : ~(i <= k)
  BY <1>0, <1>1
<1>10. Sums(s, k, hi) = {}
  BY <1>1, <1>7, <1>8, <1>9
<1>11. Sums(s, lo, hi) = {} => Sums(s, lo, k - 1) = {} /\ Products(s, k, hi) = {}
  <2> HAVE Sums(s, lo, hi) = {}
  <2>1. Products(s, k, hi) = {}
    BY <1>1, <1>7, <1>8, <1>9, SMTT(20)
  <2>2. \A i \in lo + 1 .. k - 1 : i \in Sums(s, lo, hi) <=> i \in Sums(s, lo, k - 1)
    BY <1>6, SplitsBefore DEF Sums
  <2>3. \A i \in Sums(s, lo, k - 1) : i \in lo + 1 .. k - 1
    BY SMTT(20) DEF Sums, Splits
  <2> QED BY <2>1, <2>2, <2>3
<1> QED BY <1>1, <1>2, <1>3, <1>4, <1>5, <1>10, <1>11, Zenon DEF k, m, SplitAt

\* A sum: parse_expr reads the left side, then the operator and a term.
LEMMA SumComplete ==
  ASSUME NEW s \in Text, NEW lo \in 0 .. Len(s), NEW hi \in 0 .. Len(s), Sums(s, lo, hi) # {},
         \A x, y \in 0 .. Len(s) : y - x < hi - lo => Complete(s, x, y)
  PROVE  Complete(s, lo, hi)
<1> DEFINE P == CalcParser(s)
           m == Meanings(s)
           k == Outermost(s, lo, hi)
           v == m[<<lo, hi>>]
           v1 == m[<<lo, k - 1>>]
           v2 == m[<<k, hi>>]
<1>0. Len(s) \in Nat
  BY DEF Text
<1> SUFFICES ASSUME v # Undefined
             PROVE  /\ InRange(v)
                    /\ EndsExpr(s, hi) =>
                         \E q \in lo .. hi :
                           Blank(s, q, hi) /\ parse_expr(P, lo) = P[<<"expr_loop", Ok(v, q)>>]
  BY Zenon DEF Complete
<1>1. /\ k \in lo + 1 .. hi /\ s[k] \in {"+", "-"}
      /\ v = Apply(s[k], v1, v2) /\ v1 # Undefined /\ v2 # Undefined
      /\ Sums(s, k, hi) = {}
  <2>1. Sums(s, lo, hi) \cup Products(s, lo, hi) # {}
    BY Zenon
  <2>2. SplitAt(s, lo, hi, k, m)
    BY <2>1, SplitParts, Zenon
  <2> QED BY <2>2, Zenon DEF SplitAt
<1> HIDE DEF P, m, k, v, v1, v2
<1>2. k \in 1 .. Len(s) /\ k \in 0 .. Len(s) /\ k - 1 \in 0 .. Len(s) /\ k - 1 + 1 = k
  BY <1>0, <1>1
<1>3. Complete(s, lo, k - 1) /\ Complete(s, k, hi)
  <2>1. k - 1 - lo < hi - lo /\ hi - k < hi - lo
    BY <1>0, <1>1
  <2> QED BY <2>1, <1>2
<1>4. InRange(v1) /\ InRange(v2)
  BY <1>1, <1>3, Zenon DEF Complete, v1, v2, m
<1>5. \A pos : /\ s[k] = "+" => Yields(Checked(v1 + v2, pos), v, pos)
               /\ s[k] = "-" => Yields(Checked(v1 - v2, pos), v, pos)
  BY <1>1, <1>4, Computes
<1>6. InRange(v) /\ v \in Int /\ v1 \in Int /\ v2 \in Int
  BY <1>1, <1>4, <1>5, RangeDefined, Zenon DEF Yields, v
<1>7. ASSUME EndsExpr(s, hi)
      PROVE  \E q \in lo .. hi :
               Blank(s, q, hi) /\ parse_expr(P, lo) = P[<<"expr_loop", Ok(v, q)>>]
  <2>1. EndsExpr(s, k - 1)
    BY <1>1, <1>2 DEF EndsExpr
  <2>2. PICK q1 \in lo .. k - 1 :
          Blank(s, q1, k - 1) /\ parse_expr(P, lo) = P[<<"expr_loop", Ok(v1, q1)>>]
    BY <1>1, <1>3, <2>1, Zenon DEF Complete, v1, m, P
  <2>3. PICK q \in k .. hi :
          Blank(s, q, hi) /\ parse_term(P, k) = P[<<"term_loop", Ok(v2, q)>>]
    BY <1>1, <1>3, <1>7, EndsBoth, Zenon DEF Complete, v2, m, P
  <2>4. q1 \in 0 .. Len(s) /\ k - 1 \in q1 .. Len(s) /\ q \in 0 .. Len(s) /\ hi \in q .. Len(s) /\ q \in lo .. hi
    BY <1>0, <1>1, <1>2
  <2>5. parse_term(P, k) = Ok(v2, q)
    BY <2>3, <2>4, <1>6, <1>7, LoopsStop, Zenon DEF P
  <2>6. /\ \A ch : consumes(s, q1, ch) <=> k - 1 < Len(s) /\ s[k - 1 + 1] = ch
        /\ after(s, q1) = k - 1 + 1
    BY <2>2, <2>4, <1>1, <1>2, ConsumesAt, Bytewise, Zenon
  <2>7. (\A ch : consumes(s, q1, ch) <=> s[k] = ch) /\ after(s, q1) = k
    BY <2>6, <1>2, <1>0
  <2> DEFINE l == Ok(v1, q1)
  <2>8. l \in Outcome(s) /\ l.err = "none" /\ l.value = v1 /\ l.pos = q1
    BY <2>4, <1>6, Outcomes
  <2>9. Ok(v2, q).err = "none" /\ Ok(v2, q).value = v2 /\ Ok(v2, q).pos = q
    BY DEF Ok
  <2>10. P[<<"expr_loop", l>>] = expr_loop(s, P, l)
    BY <2>8, Parses, Zenon DEF P
  <2> HIDE DEF l
  <2>11. expr_loop(s, P, l) =
           P[<<"expr_loop", IF s[k] = "+" THEN Checked(v1 + v2, q) ELSE Checked(v1 - v2, q)>>]
    BY <1>1, <2>5, <2>7, <2>8, <2>9, Zenon DEF expr_loop
  <2>12. (IF s[k] = "+" THEN Checked(v1 + v2, q) ELSE Checked(v1 - v2, q)) = Ok(v, q)
    BY <1>1, <1>5, Zenon DEF Yields, v
  <2>13. parse_expr(P, lo) = P[<<"expr_loop", Ok(v, q)>>]
    BY <2>2, <2>10, <2>11, <2>12, SMTT(20) DEF l
  <2> QED BY <2>3, <2>4, <2>13, Zenon
<1> QED BY <1>6, <1>7

\* A product: parse_term reads the left side, then the operator and a factor.
LEMMA ProductComplete ==
  ASSUME NEW s \in Text, NEW lo \in 0 .. Len(s), NEW hi \in 0 .. Len(s),
         Sums(s, lo, hi) = {}, Products(s, lo, hi) # {},
         \A x, y \in 0 .. Len(s) : y - x < hi - lo => Complete(s, x, y)
  PROVE  Complete(s, lo, hi)
<1> DEFINE P == CalcParser(s)
           m == Meanings(s)
           k == Outermost(s, lo, hi)
           v == m[<<lo, hi>>]
           v1 == m[<<lo, k - 1>>]
           v2 == m[<<k, hi>>]
           Reads == \E q \in lo .. hi :
                      Blank(s, q, hi) /\ parse_term(P, lo) = P[<<"term_loop", Ok(v, q)>>]
<1>0. Len(s) \in Nat
  BY DEF Text
<1> SUFFICES ASSUME v # Undefined
             PROVE  /\ InRange(v)
                    /\ EndsExpr(s, hi) =>
                         \E q \in lo .. hi :
                           Blank(s, q, hi) /\ parse_expr(P, lo) = P[<<"expr_loop", Ok(v, q)>>]
                    /\ EndsTerm(s, hi) => Reads
  BY Zenon DEF Complete
<1>1. /\ k \in lo + 1 .. hi /\ s[k] \in {"*", "/", "%"} /\ s[k] \in Operator
      /\ v = Apply(s[k], v1, v2) /\ v1 # Undefined /\ v2 # Undefined
      /\ Sums(s, k, hi) = {} /\ Sums(s, lo, k - 1) = {} /\ Products(s, k, hi) = {}
  <2>1. Sums(s, lo, hi) \cup Products(s, lo, hi) # {}
    BY Zenon
  <2>2. SplitAt(s, lo, hi, k, m)
    BY <2>1, SplitParts, Zenon
  <2> QED BY <2>2, Zenon DEF SplitAt
<1> HIDE DEF P, m, k, v, v1, v2
<1>2. k \in 1 .. Len(s) /\ k \in 0 .. Len(s) /\ k - 1 \in 0 .. Len(s) /\ k - 1 + 1 = k
  BY <1>0, <1>1
<1>3. Complete(s, lo, k - 1) /\ Complete(s, k, hi)
  <2>1. k - 1 - lo < hi - lo /\ hi - k < hi - lo
    BY <1>0, <1>1
  <2> QED BY <2>1, <1>2
<1>4. InRange(v1) /\ InRange(v2)
  BY <1>1, <1>3, Zenon DEF Complete, v1, v2, m
<1>5. \A pos : /\ s[k] = "*" => Yields(Checked(v1 * v2, pos), v, pos)
               /\ s[k] = "/" => Yields(checked_div(v1, v2, pos), v, pos)
               /\ s[k] = "%" => Yields(checked_rem(v1, v2, pos), v, pos)
  BY <1>1, <1>4, Computes
<1>6. InRange(v) /\ v \in Int /\ v1 \in Int /\ v2 \in Int
  BY <1>1, <1>4, <1>5, RangeDefined, Zenon DEF Yields, v
<1>7. ASSUME EndsTerm(s, hi)
      PROVE  Reads
  <2>1. EndsTerm(s, k - 1)
    BY <1>1, <1>2 DEF EndsTerm
  <2>2. PICK q1 \in lo .. k - 1 :
          Blank(s, q1, k - 1) /\ parse_term(P, lo) = P[<<"term_loop", Ok(v1, q1)>>]
    BY <1>1, <1>3, <2>1, Zenon DEF Complete, v1, m, P
  <2>3. PICK q \in k .. hi : Blank(s, q, hi) /\ factor(P, k) = Ok(v2, q)
    BY <1>1, <1>3, <1>7, Zenon DEF Complete, v2, m, P
  <2>4. q1 \in 0 .. Len(s) /\ k - 1 \in q1 .. Len(s) /\ q \in lo .. hi
    BY <1>0, <1>1, <1>2
  <2>5. /\ \A ch : consumes(s, q1, ch) <=> k - 1 < Len(s) /\ s[k - 1 + 1] = ch
        /\ after(s, q1) = k - 1 + 1
    BY <2>2, <2>4, <1>1, <1>2, ConsumesAt, Bytewise, Zenon
  <2>6. (\A ch : consumes(s, q1, ch) <=> s[k] = ch) /\ after(s, q1) = k
    BY <2>5, <1>2, <1>0
  <2> DEFINE l == Ok(v1, q1)
             next == IF s[k] = "*" THEN Checked(v1 * v2, q)
                     ELSE IF s[k] = "/" THEN checked_div(v1, v2, q) ELSE checked_rem(v1, v2, q)
  <2>7. l \in Outcome(s) /\ l.err = "none" /\ l.value = v1 /\ l.pos = q1
    BY <2>4, <1>6, Outcomes
  <2>8. Ok(v2, q).err = "none" /\ Ok(v2, q).value = v2 /\ Ok(v2, q).pos = q
    BY DEF Ok
  <2>9. P[<<"term_loop", l>>] = term_loop(s, P, l)
    BY <2>7, Parses, Zenon DEF P
  <2> HIDE DEF l
  <2>10. term_loop(s, P, l) = P[<<"term_loop", next>>]
    BY <1>1, <2>3, <2>6, <2>7, <2>8, Zenon DEF term_loop
  <2>11. next = Ok(v, q)
    BY <1>1, <1>5, Zenon DEF Yields, v
  <2>12. parse_term(P, lo) = P[<<"term_loop", Ok(v, q)>>]
    BY <2>2, <2>9, <2>10, <2>11, Zenon DEF l
  <2> QED BY <2>3, <2>4, <2>12, Zenon
<1>8. ASSUME EndsExpr(s, hi)
      PROVE  \E q \in lo .. hi :
               Blank(s, q, hi) /\ parse_expr(P, lo) = P[<<"expr_loop", Ok(v, q)>>]
  <2>1. PICK q \in lo .. hi :
          Blank(s, q, hi) /\ parse_term(P, lo) = P[<<"term_loop", Ok(v, q)>>]
    BY <1>7, <1>8, EndsBoth
  <2> QED BY <2>1, <1>6, <1>8, TermReads, Zenon DEF P
<1> QED BY <1>6, <1>7, <1>8

\* parse_factor reads a part that does not split.
LEMMA FactorReads ==
  ASSUME NEW s \in Text, NEW lo \in 0 .. Len(s), NEW hi \in 0 .. Len(s),
         Sums(s, lo, hi) = {}, Products(s, lo, hi) = {}, Meanings(s)[<<lo, hi>>] # Undefined,
         \A x, y \in 0 .. Len(s) : y - x < hi - lo => Complete(s, x, y)
  PROVE  /\ InRange(Meanings(s)[<<lo, hi>>])
         /\ EndsTerm(s, hi) =>
              \E q \in lo .. hi :
                Blank(s, q, hi) /\ factor(CalcParser(s), lo) = Ok(Meanings(s)[<<lo, hi>>], q)
<1> DEFINE P == CalcParser(s)
           m == Meanings(s)
           v == m[<<lo, hi>>]
           a == Min(Ink(s, lo, hi))
           b == Max(Ink(s, lo, hi))
<1>0. Len(s) \in Nat
  BY DEF Text
<1>1. Ink(s, lo, hi) # {} /\ Depth(s)[hi] = Depth(s)[lo]
  <2> DEFINE r == <<lo, hi>>
  <2>1. r \in Part(s) /\ r[1] = lo /\ r[2] = hi
    BY Zenon DEF Part
  <2>2. m[r] = Means(s, m, r)
    BY <2>1, MeaningsMean
  <2> HIDE DEF r, m
  <2>3. m[r] # Undefined
    BY DEF r, m
  <2> QED BY <2>1, <2>2, <2>3, Zenon DEF Means
<1>2. /\ a \in lo + 1 .. hi /\ b \in a .. hi
      /\ Blank(s, lo, a - 1) /\ Blank(s, b, hi)
      /\ ~is_ascii_whitespace(s[a]) /\ ~is_ascii_whitespace(s[b])
  BY <1>1, InkEnds, Zenon
<1> HIDE DEF a, b, P
<1>3. Between(Len(s), lo, hi, a, b)
  BY <1>0, <1>2, Places, Zenon
<1>4. /\ s[a] \in {"+", "-"} => v = Apply(s[a], 0, m[<<a, hi>>])
      /\ s[a] \notin {"+", "-"} /\ s[a] = "(" /\ s[b] = ")" => v = m[<<a, b - 1>>]
      /\ s[a] \notin {"+", "-"} /\ ~(s[a] = "(" /\ s[b] = ")") =>
           v = IF Digits(s, a - 1, b) THEN Defined(Decimal(s, a - 1)[b]) ELSE Undefined
  BY <1>1, <1>2, <1>3, PlainMeaning, Zenon DEF Between
<1> HIDE DEF m, v
<1>5. v # Undefined
  BY DEF v, m
<1>6. /\ factor(P, lo) = parse_factor(s, P, lo)
      /\ \A ch : consumes(s, lo, ch) <=> s[a] = ch
      /\ after(s, lo) = a /\ skip_ws(s, lo) = a - 1
  <2>1. a - 1 \in lo .. Len(s) /\ a - 1 + 1 = a /\ a - 1 < Len(s)
    BY <1>3, Zenon DEF Between
  <2>2. /\ \A ch : consumes(s, lo, ch) <=> a - 1 < Len(s) /\ s[a - 1 + 1] = ch
        /\ after(s, lo) = a - 1 + 1 /\ skip_ws(s, lo) = a - 1
    BY <2>1, <1>2, ConsumesAt, Zenon
  <2> QED BY <2>1, <2>2, Parses, Zenon DEF P
<1>7. CASE s[a] \in {"+", "-"}
  <2> DEFINE u == m[<<a, hi>>]
  <2>1. v = Apply(s[a], 0, u) /\ u # Undefined
    BY <1>4, <1>5, <1>7, ApplyDefined, Zenon
  <2>2. a \in 0 .. Len(s) /\ hi - a < hi - lo
    BY <1>3, Zenon DEF Between
  <2>3. Complete(s, a, hi)
    BY <2>2, Zenon
  <2> HIDE DEF u
  <2>4. InRange(u)
    BY <2>1, <2>3, Zenon DEF Complete, u, m
  <2>5. /\ s[a] = "+" => v = u
        /\ s[a] = "-" => \A pos : Yields(Checked(-u, pos), v, pos)
    BY <2>1, <2>4, Computes, Zenon
  <2>6. InRange(v)
    BY <1>5, <1>7, <2>4, <2>5, Zenon DEF Yields
  <2>7. ASSUME EndsTerm(s, hi)
        PROVE  \E q \in lo .. hi : Blank(s, q, hi) /\ factor(P, lo) = Ok(v, q)
    <3>1. Sums(s, a, hi) = {} /\ Products(s, a, hi) = {}
      <4>1. Depth(s)[a - 1] = Depth(s)[lo]
        <5>1. a - 1 \in lo .. Len(s) /\ a - 1 \in lo .. a - 1
          BY <1>3, Zenon DEF Between
        <5> QED BY <5>1, <1>2, BlankDepth, Zenon
      <4>2. s[a] \in Operator
        BY <1>7, Bytewise, SMTT(20)
      <4>3. /\ \A i \in a + 1 .. hi : i \in Sums(s, lo, hi) <=> i \in Sums(s, a, hi)
            /\ \A i \in a + 1 .. hi : i \in Products(s, lo, hi) <=> i \in Products(s, a, hi)
        BY <4>1, <4>2, <1>2, <1>3, SplitsAfter, SMTT(20) DEF Sums, Products, Between
      <4>4. /\ \A i \in Sums(s, a, hi) : i \in a + 1 .. hi
            /\ \A i \in Products(s, a, hi) : i \in a + 1 .. hi
        BY DEF Sums, Products, Splits
      <4> QED BY <4>3, <4>4
    <3>2. PICK q \in a .. hi : Blank(s, q, hi) /\ factor(P, a) = Ok(u, q)
      BY <2>1, <2>3, <2>7, <3>1, Zenon DEF Complete, u, m, P
    <3>3. q \in lo .. hi
      BY <1>3, Zenon DEF Between
    <3>5. CASE s[a] = "+"
      <4>1. factor(P, lo) = factor(P, a)
        BY <1>6, <3>5, Zenon DEF parse_factor
      <4> QED BY <4>1, <3>2, <3>3, <3>5, <2>5, Zenon
    <3>6. CASE s[a] = "-"
      <4>1. factor(P, lo) = Checked(-u, q)
        <5>0. s[a] # "+"
          BY <3>6
        <5>1. ~consumes(s, lo, "+") /\ consumes(s, lo, "-")
          BY <1>6, <3>6, <5>0, Zenon
        <5>2. factor(P, after(s, lo)) = Ok(u, q)
          BY <1>6, <3>2, Zenon
        <5> DEFINE l == factor(P, after(s, lo))
        <5>3. l.err = "none" /\ l.value = u /\ l.pos = q
          <6>1. Ok(u, q).err = "none" /\ Ok(u, q).value = u /\ Ok(u, q).pos = q
            BY OkParts, Zenon
          <6> QED BY <6>1, <5>2, Zenon
        <5>4. parse_factor(s, P, lo) = Checked(-l.value, l.pos)
          BY <5>1, <5>3, MinusFactor, ZenonT(30)
        <5> QED BY <5>3, <5>4, <1>6, Zenon
      <4>2. Checked(-u, q) = Ok(v, q)
        BY <1>5, <2>5, <3>6 DEF Yields
      <4> QED BY <4>1, <4>2, <3>2, <3>3, Zenon
    <3> QED BY <3>5, <3>6, <1>7
  <2> QED BY <2>6, <2>7, Zenon DEF v, m, P
<1>8. CASE s[a] = "(" /\ s[b] = ")"
  <2>0. s[a] \notin {"+", "-"} /\ a # b
    BY <1>8, Bytewise, SMTT(20)
  <2>1. v = m[<<a, b - 1>>]
    BY <2>0, <1>4, <1>8
  <2>2. a \in 0 .. Len(s) /\ b - 1 \in 0 .. Len(s) /\ b - 1 - a < hi - lo
    BY <1>3, Zenon DEF Between
  <2>3. Complete(s, a, b - 1)
    BY <2>2, Zenon
  <2>4. InRange(v)
    BY <1>5, <2>1, <2>3, Zenon DEF Complete, m
  <2>5. b - 1 + 1 = b /\ EndsExpr(s, b - 1)
    <3>1. b - 1 + 1 = b
      BY <1>3, Zenon DEF Between
    <3> QED BY <3>1, <1>8, Zenon DEF EndsExpr
  <2>6. PICK q \in a .. b - 1 :
          Blank(s, q, b - 1) /\ parse_expr(P, a) = P[<<"expr_loop", Ok(v, q)>>]
    BY <1>5, <2>1, <2>3, <2>5, Zenon DEF Complete, m, P
  <2>7. q \in 0 .. Len(s) /\ b - 1 \in q .. Len(s) /\ b - 1 < Len(s) /\ v \in Int
    BY <1>3, <2>4, RangeDefined, Zenon DEF Between
  <2>8. parse_expr(P, a) = Ok(v, q)
    BY <1>8, <2>5, <2>6, <2>7, LoopsStop, Zenon DEF P
  <2>9. consumes(s, q, ")") /\ after(s, q) = b
    <3>1. /\ consumes(s, q, ")") <=> b - 1 < Len(s) /\ s[b - 1 + 1] = ")"
          /\ after(s, q) = b - 1 + 1
      BY <1>2, <2>5, <2>6, <2>7, ConsumesAt, Zenon
    <3> QED BY <3>1, <1>8, <2>5, <2>7, Zenon
  <2>10. ~consumes(s, lo, "+") /\ ~consumes(s, lo, "-") /\ consumes(s, lo, "(")
    BY <1>6, <1>8, <2>0, Zenon
  <2>11. factor(P, lo) = Ok(v, b)
    <3>1. parse_expr(P, after(s, lo)) = Ok(v, q)
      BY <1>6, <2>8, Zenon
    <3>2. parse_factor(s, P, lo) = Ok(v, after(s, q))
      <4> DEFINE l == parse_expr(P, after(s, lo))
      <4>1. l.err = "none" /\ l.value = v /\ l.pos = q
        <5>1. Ok(v, q).err = "none" /\ Ok(v, q).value = v /\ Ok(v, q).pos = q
          BY OkParts, Zenon
        <5> QED BY <5>1, <3>1, Zenon
      <4>2. consumes(s, l.pos, ")")
        BY <4>1, <2>9, Zenon
      <4>3. parse_factor(s, P, lo) = Ok(l.value, after(s, l.pos))
        BY <4>1, <4>2, <2>10, ParenFactor, Zenon
      <4> QED BY <4>1, <4>3, Zenon
    <3> QED BY <1>6, <2>9, <3>2, Zenon
  <2> QED BY <1>2, <1>3, <2>4, <2>11, Zenon DEF v, m, P, Between
<1>9. CASE s[a] \notin {"+", "-"} /\ ~(s[a] = "(" /\ s[b] = ")")
  <2> DEFINE w == a - 1
             u == Decimal(s, w)[b]
  <2>1. Digits(s, w, b) /\ v = Defined(u)
    BY <1>4, <1>5, <1>9, Zenon
  <2>2. InRange(u) /\ v = u
    BY <1>5, <2>1, Zenon DEF Defined
  <2>3. w \in 0 .. Len(s) /\ b \in w .. Len(s) /\ w # Len(s) /\ w + 1 = a /\ a \in w + 1 .. b
    BY <1>3, Zenon DEF Between
  <2>4. is_ascii_digit(s[a])
    BY <2>1, <2>3, Zenon DEF Digits
  <2>5. ASSUME EndsTerm(s, hi)
        PROVE  factor(P, lo) = Ok(v, b)
    <3>1. b < Len(s) => ~is_ascii_digit(s[b + 1])
      <4> HAVE b < Len(s)
      <4>1. CASE b = hi
        <5>1. s[b + 1] \in Operator \/ s[b + 1] = ")"
          <6>1. b # Len(s)
            BY <1>0
          <6> QED BY <6>1, <4>1, <2>5, Zenon DEF EndsTerm
        <5> QED BY <5>1, Bytewise, Zenon
      <4>2. CASE b # hi
        <5>1. b + 1 \in b + 1 .. hi
          BY <4>2, <1>3, Zenon DEF Between
        <5> QED BY <5>1, <1>2, Bytewise, Zenon DEF Blank
      <4> QED BY <4>1, <4>2, Zenon
    <3>2. P[<<"digits", Ok(0, w)>>] = Ok(u, b)
      BY <3>1, <2>1, <2>2, <2>3, DigitsComplete, Zenon DEF P
    <3>3. P[<<"digits", Ok(0, w)>>] = digits(s, P, Ok(0, w))
      <4>1. Ok(0, w) \in Outcome(s)
        BY <2>3, StartOutcome, Zenon
      <4> QED BY <4>1, Parses, Zenon DEF P
    <3>4. s[a] # "("
      BY <2>4, Bytewise, Zenon
    <3>5. parse_number(s, P, lo) = digits(s, P, Ok(0, w))
      BY <1>6, <2>3, <2>4, Zenon DEF parse_number
    <3>6. factor(P, lo) = parse_number(s, P, lo)
      BY <1>6, <1>9, <3>4, Zenon DEF parse_factor
    <3> QED BY <3>2, <3>3, <3>5, <3>6, <2>2, Zenon
  <2> QED BY <1>2, <1>3, <2>2, <2>5, Zenon DEF v, m, P, Between
<1> QED BY <1>7, <1>8, <1>9, Zenon

\* A part that does not split.
LEMMA PlainComplete ==
  ASSUME NEW s \in Text, NEW lo \in 0 .. Len(s), NEW hi \in 0 .. Len(s),
         Sums(s, lo, hi) = {}, Products(s, lo, hi) = {},
         \A x, y \in 0 .. Len(s) : y - x < hi - lo => Complete(s, x, y)
  PROVE  Complete(s, lo, hi)
<1> DEFINE P == CalcParser(s)
           v == Meanings(s)[<<lo, hi>>]
<1> SUFFICES ASSUME v # Undefined
             PROVE  /\ InRange(v)
                    /\ EndsExpr(s, hi) =>
                         \E q \in lo .. hi :
                           Blank(s, q, hi) /\ parse_expr(P, lo) = P[<<"expr_loop", Ok(v, q)>>]
                    /\ EndsTerm(s, hi) =>
                         \E q \in lo .. hi :
                           Blank(s, q, hi) /\ parse_term(P, lo) = P[<<"term_loop", Ok(v, q)>>]
                    /\ EndsTerm(s, hi) =>
                         \E q \in lo .. hi : Blank(s, q, hi) /\ factor(P, lo) = Ok(v, q)
  BY Zenon DEF Complete
<1>1. /\ InRange(v)
      /\ EndsTerm(s, hi) => \E q \in lo .. hi : Blank(s, q, hi) /\ factor(P, lo) = Ok(v, q)
  BY FactorReads, Zenon
<1> HIDE DEF P, v
<1>2. EndsTerm(s, hi) =>
        \E q \in lo .. hi : Blank(s, q, hi) /\ parse_term(P, lo) = P[<<"term_loop", Ok(v, q)>>]
  BY <1>1, Zenon DEF parse_term
<1>3. EndsExpr(s, hi) =>
        \E q \in lo .. hi : Blank(s, q, hi) /\ parse_expr(P, lo) = P[<<"expr_loop", Ok(v, q)>>]
  <2> HAVE EndsExpr(s, hi)
  <2>1. PICK q \in lo .. hi : Blank(s, q, hi) /\ parse_term(P, lo) = P[<<"term_loop", Ok(v, q)>>]
    BY <1>2, EndsBoth, Zenon
  <2> QED BY <2>1, <1>1, TermReads, ZenonT(30) DEF P
<1> QED BY <1>1, <1>2, <1>3, Zenon

\* From the shortest parts on.
LEMMA AllComplete ==
  ASSUME NEW s \in Text
  PROVE  \A lo, hi \in 0 .. Len(s) : Complete(s, lo, hi)
<1> DEFINE n == Len(s)
           Bad == {k \in 0 .. 2 * n : \E lo, hi \in 0 .. n : hi - lo = k - n /\ ~Complete(s, lo, hi)}
<1>0. n \in Nat
  BY DEF Text
<1>1. Bad = {}
  <2> SUFFICES ASSUME Bad # {}
               PROVE  FALSE
    OBVIOUS
  <2>1. \A j \in Bad : j \in Nat
    BY <1>0
  <2>2. PICK k \in Bad : \A j \in Bad : k <= j
    BY <2>1, LeastExists, Zenon
  <2>3. PICK lo \in 0 .. n, hi \in 0 .. n : hi - lo = k - n /\ ~Complete(s, lo, hi)
    BY <2>2
  <2>4. \A x, y \in 0 .. n : y - x < hi - lo => Complete(s, x, y)
    <3> TAKE x, y \in 0 .. n
    <3> HAVE y - x < hi - lo
    <3> DEFINE j == y - x + n
    <3>1. j \in 0 .. 2 * n /\ y - x = j - n /\ j < k /\ k \in Int
      BY <1>0, <2>2, <2>3, SMTT(20)
    <3>2. j \notin Bad
      <4> HIDE DEF Bad, j
      <4> QED BY <2>2, <3>1
    <3> QED BY <3>1, <3>2, SMTT(20)
  <2>5. Complete(s, lo, hi)
    BY <2>4, SumComplete, ProductComplete, PlainComplete, Zenon
  <2> QED BY <2>3, <2>5
<1> TAKE lo, hi \in 0 .. n
<1> DEFINE k == hi - lo + n
<1>2. k \in 0 .. 2 * n /\ hi - lo = k - n
  BY <1>0
<1>3. k \notin Bad
  BY <1>1, Zenon
<1> HIDE DEF k
<1> QED BY <1>2, <1>3

\* calc prints the meaning of an expression that has one.
LEMMA EvalComplete ==
  ASSUME NEW s \in Text, Meaning(s) # Undefined
  PROVE  eval_calc_expression(s).err = "none" /\ eval_calc_expression(s).value = Meaning(s)
<1> DEFINE P == CalcParser(s)
           n == Len(s)
           v == Meanings(s)[<<0, n>>]
<1>0. n \in Nat /\ 0 \in 0 .. n /\ n \in 0 .. n
  BY DEF Text
<1>1. v = Meaning(s) /\ v # Undefined
  BY DEF Meaning
<1>2. Complete(s, 0, n) /\ EndsExpr(s, n)
  BY <1>0, AllComplete DEF EndsExpr
<1>3. InRange(v) /\ \E q \in 0 .. n : Blank(s, q, n) /\ parse_expr(P, 0) = P[<<"expr_loop", Ok(v, q)>>]
  BY <1>1, <1>2, Zenon DEF Complete
<1> HIDE DEF P, v
<1>4. PICK q \in 0 .. n : Blank(s, q, n) /\ parse_expr(P, 0) = P[<<"expr_loop", Ok(v, q)>>]
  BY <1>3, Zenon
<1>5. n \in q .. n /\ v \in Int
  BY <1>0, <1>3, RangeDefined
<1>6. parse_expr(P, 0) = Ok(v, q) /\ skip_ws(s, q) = n
  BY <1>4, <1>5, LoopsStop, Zenon DEF P
<1>7. Ok(v, q).err = "none" /\ Ok(v, q).value = v /\ Ok(v, q).pos = q
  BY DEF Ok
<1>8. eval_calc_expression(s) = Ok(v, q)
  BY <1>6, <1>7 DEF eval_calc_expression, P
<1> QED BY <1>1, <1>7, <1>8

----------------------------------------------------------------------------
(* The theorems *)

\* eval_calc_expression, for every text over any bytes: it succeeds exactly for
\* the expressions that have a meaning, and returns that meaning.
THEOREM EvaluatesEveryText ==
  \A s \in Text :
    IF Meaning(s) = Undefined THEN eval_calc_expression(s).err # "none"
    ELSE eval_calc_expression(s).err = "none" /\ eval_calc_expression(s).value = Meaning(s)
BY EvalSound, EvalComplete

\* The inductive invariant: the answer is the one for the expression.
AnswerInv ==
  /\ expr \in Text
  /\ expr # <<>> => answer = eval_calc_expression(expr)

\* CalculatesMeaning: what calc prints is right for every expression, however
\* long, for integers of any width.
THEOREM CalcIsRight == Spec => []CalculatesMeaning
<1>1. Init => AnswerInv
  BY DEF Init, AnswerInv, Text
<1>2. AnswerInv /\ [Next]_vars => AnswerInv'
  <2> SUFFICES ASSUME AnswerInv, [Next]_vars
               PROVE  AnswerInv'
    OBVIOUS
  <2>1. CASE command_calc
    <3>1. PICK byte \in Bytes : /\ expr' = Append(expr, byte)
                                /\ answer' = eval_calc_expression(Append(expr, byte))
      BY <2>1 DEF command_calc
    <3>2. Append(expr, byte) \in Text
      BY DEF AnswerInv, Text
    <3> QED BY <3>1, <3>2 DEF AnswerInv
  <2>2. CASE command_calc_Usage
    BY <2>2 DEF command_calc_Usage, AnswerInv, Text
  <2>3. CASE UNCHANGED vars
    BY <2>3 DEF vars, AnswerInv
  <2> QED BY <2>1, <2>2, <2>3 DEF Next
<1>3. AnswerInv => CalculatesMeaning
  BY EvaluatesEveryText DEF AnswerInv, CalculatesMeaning
<1> QED BY <1>1, <1>2, <1>3, PTL DEF Spec
=============================================================================
