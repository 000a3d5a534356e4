----------------------------- MODULE Calculator -----------------------------
(***************************************************************************)
(* The recursive descent parser of the calc command (shell.rs) against the *)
(* usual meaning of an expression.  The input grows byte by byte, and each *)
(* state holds the answer for it.                                          *)
(***************************************************************************)
EXTENDS Integers, Sequences

CONSTANTS
  MAX,        \* the greatest integer, 2^63 - 1 in the source
  Bytes,      \* the characters typed
  MaxInput    \* bound: length of the expression

ASSUME RangeAssumption == MAX \in Nat

VARIABLES
  expr,     \* what follows "calc"
  answer    \* what eval_calc_expression returns

vars == <<expr, answer>>

\* The least and the greatest of a set of numbers.
Min(S) == CHOOSE least \in S : \A other \in S : least <= other
Max(S) == CHOOSE greatest \in S : \A other \in S : greatest >= other

Digit ==
  [d \in {"0", "1", "2", "3", "4", "5", "6", "7", "8", "9"} |->
     CASE d = "0" -> 0 [] d = "1" -> 1 [] d = "2" -> 2 [] d = "3" -> 3 [] d = "4" -> 4
       [] d = "5" -> 5 [] d = "6" -> 6 [] d = "7" -> 7 [] d = "8" -> 8 [] d = "9" -> 9]

is_ascii_digit(c) == c \in DOMAIN Digit
is_ascii_whitespace(c) == c = " "

MIN == -MAX - 1
InRange(v) == v \in MIN .. MAX

Sign(v) == IF v < 0 THEN -1 ELSE 1
Abs(v) == v * Sign(v)

\* Rust's division truncates, and the remainder has the sign of the dividend.
Quotient(a, b) == Sign(a) * Sign(b) * (Abs(a) \div Abs(b))
Remainder(a, b) == a - b * Quotient(a, b)

-----------------------------------------------------------------------------
(* CalcParser.  A parse function takes the position and returns the new one *)
(* with a value or an error.                                                *)

Ok(v, pos) == [err |-> "none", value |-> v, pos |-> pos]
Err(e, pos) == [err |-> e, value |-> 0, pos |-> pos]

Outcome(s) ==
  [err : {"none", "overflow", "zero", "paren", "number", "trailing"}, value : Int, pos : 0 .. Len(s)]

Checked(v, pos) == IF InRange(v) THEN Ok(v, pos) ELSE Err("overflow", pos)

\* MIN / -1 and MIN % -1 overflow.
checked_div(a, b, pos) ==
  IF b = 0 THEN Err("zero", pos) ELSE Checked(Quotient(a, b), pos)

\* Slip: the remainder of MIN by -1 is taken for zero.
checked_rem_Zero(a, b, pos) ==
  IF b = 0 THEN Err("zero", pos) ELSE Ok(Remainder(a, b), pos)

checked_rem(a, b, pos) ==
  IF b = 0 THEN Err("zero", pos)
  ELSE IF InRange(Quotient(a, b)) THEN Ok(Remainder(a, b), pos)
  ELSE Err("overflow", pos)

skip_ws(s, pos) == Min({p \in pos .. Len(s) : p < Len(s) => ~is_ascii_whitespace(s[p + 1])})

\* Does consume(ch) succeed, and where does it leave the position?
consumes(s, pos, ch) == skip_ws(s, pos) < Len(s) /\ s[skip_ws(s, pos) + 1] = ch
after(s, pos) == skip_ws(s, pos) + 1

(* The functions and their loops call each other, always further on in the  *)
(* text.  calls holds what every call returns: calls[<<f, left>>] for the   *)
(* loop f that has come to left, or for parse_factor at left.pos.           *)

factor(calls, pos) == calls[<<"factor", Ok(0, pos)>>]
parse_term(calls, pos) == calls[<<"term_loop", factor(calls, pos)>>]
parse_expr(calls, pos) == calls[<<"expr_loop", parse_term(calls, pos)>>]

\* The loop of parse_number.
digits(s, calls, left) ==
  LET value == left.value * 10 + Digit[s[left.pos + 1]]
  IN  IF left.pos = Len(s) \/ ~is_ascii_digit(s[left.pos + 1]) THEN left
      ELSE IF ~InRange(left.value * 10) \/ ~InRange(value) THEN Err("overflow", left.pos)
      ELSE calls[<<"digits", Ok(value, left.pos + 1)>>]

parse_number(s, calls, pos) ==
  LET start == skip_ws(s, pos)
  IN  IF start = Len(s) \/ ~is_ascii_digit(s[start + 1]) THEN Err("number", start)
      ELSE digits(s, calls, Ok(0, start))

parse_factor(s, calls, pos) ==
  IF consumes(s, pos, "+") THEN factor(calls, after(s, pos))
  ELSE IF consumes(s, pos, "-")
  THEN LET v == factor(calls, after(s, pos))
       IN  IF v.err # "none" THEN v ELSE Checked(-v.value, v.pos)
  ELSE IF consumes(s, pos, "(")
  THEN LET v == parse_expr(calls, after(s, pos))
       IN  IF v.err # "none" THEN v
           ELSE IF consumes(s, v.pos, ")") THEN Ok(v.value, after(s, v.pos))
           ELSE Err("paren", skip_ws(s, v.pos))
  ELSE parse_number(s, calls, pos)

\* The loop of parse_term.
term_loop(s, calls, left) ==
  IF left.err # "none" \/ \A op \in {"*", "/", "%"} : ~consumes(s, left.pos, op) THEN left
  ELSE LET right == factor(calls, after(s, left.pos))
       IN  calls[<<"term_loop",
             IF right.err # "none" THEN right
             ELSE IF consumes(s, left.pos, "*") THEN Checked(left.value * right.value, right.pos)
             ELSE IF consumes(s, left.pos, "/") THEN checked_div(left.value, right.value, right.pos)
             ELSE checked_rem(left.value, right.value, right.pos)>>]

\* The loop of parse_expr.
expr_loop(s, calls, left) ==
  IF left.err # "none" \/ \A op \in {"+", "-"} : ~consumes(s, left.pos, op) THEN left
  ELSE LET right == parse_term(calls, after(s, left.pos))
       IN  calls[<<"expr_loop",
             IF right.err # "none" THEN right
             ELSE IF consumes(s, left.pos, "+") THEN Checked(left.value + right.value, right.pos)
             ELSE Checked(left.value - right.value, right.pos)>>]

CalcParser(s) ==
  LET calls[c \in {"factor", "digits", "term_loop", "expr_loop"} \X Outcome(s)] ==
        CASE c[1] = "factor" -> parse_factor(s, calls, c[2].pos)
          [] c[1] = "digits" -> digits(s, calls, c[2])
          [] c[1] = "term_loop" -> term_loop(s, calls, c[2])
          [] c[1] = "expr_loop" -> expr_loop(s, calls, c[2])
  IN  calls

eval_calc_expression(s) ==
  LET v == parse_expr(CalcParser(s), 0)
  IN  IF v.err # "none" \/ skip_ws(s, v.pos) = Len(s) THEN v
      ELSE Err("trailing", skip_ws(s, v.pos))

-----------------------------------------------------------------------------
(* command_calc, and the user typing its operand.  The line is trimmed, so  *)
(* the expression does not begin with a blank.  An expression that failed   *)
(* with more than blanks left fails however it goes on: it is not grown.    *)

Init == expr = <<>> /\ answer = Err("usage", 0)

\* A new line, with no operand yet.
command_calc_Usage == expr' = <<>> /\ answer' = Err("usage", 0)

command_calc ==
  /\ Len(expr) < MaxInput
  /\ answer.err = "none" \/ skip_ws(expr, answer.pos) = Len(expr)
  /\ \E byte \in Bytes :
       /\ expr = <<>> => ~is_ascii_whitespace(byte)
       /\ expr' = Append(expr, byte)
       /\ answer' = eval_calc_expression(Append(expr, byte))

Next == command_calc \/ command_calc_Usage

Spec == Init /\ [][Next]_vars

-----------------------------------------------------------------------------
(* Reference: the meaning of an expression, without a parser.  An operator  *)
(* is binary when an operand ends before it; the last one of the lowest     *)
(* precedence outside parentheses is applied last.  A part of the text is   *)
(* what lies after position lo and up to position hi.                       *)

Undefined == MAX + 1

\* A value outside the range, or made from one, is undefined.
Defined(v) == IF InRange(v) THEN v ELSE Undefined

Apply(op, a, b) ==
  IF a = Undefined \/ b = Undefined THEN Undefined
  ELSE CASE op = "+" -> Defined(a + b)
         [] op = "-" -> Defined(a - b)
         [] op = "*" -> Defined(a * b)
         [] op = "/" -> IF b = 0 THEN Undefined ELSE Defined(Quotient(a, b))
         [] op = "%" -> IF b = 0 \/ ~InRange(Quotient(a, b)) THEN Undefined
                        ELSE Remainder(a, b)

\* How many parentheses are open after each position.
Depth(s) ==
  LET d[i \in 0 .. Len(s)] ==
        IF i = 0 THEN 0
        ELSE d[i - 1] + (CASE s[i] = "(" -> 1 [] s[i] = ")" -> -1 [] OTHER -> 0)
  IN  d

Blank(s, lo, hi) == \A i \in lo + 1 .. hi : is_ascii_whitespace(s[i])
Digits(s, lo, hi) == \A i \in lo + 1 .. hi : is_ascii_digit(s[i])

\* Where the binary operators among ops stand outside parentheses.
Splits(s, lo, hi, ops) ==
  {i \in lo + 1 .. hi :
     /\ s[i] \in ops
     /\ Depth(s)[i - 1] = Depth(s)[lo]
     /\ \E e \in lo + 1 .. i - 1 : (is_ascii_digit(s[e]) \/ s[e] = ")") /\ Blank(s, e, i - 1)}

\* The number that the digits after lo make, up to each position.
Decimal(s, lo) ==
  LET v[i \in lo .. Len(s)] == IF i = lo THEN 0 ELSE 10 * v[i - 1] + Digit[s[i]]
  IN  v

Meanings(s) ==
  LET m[r \in (0 .. Len(s)) \X (0 .. Len(s))] ==
        LET lo == r[1]
            hi == r[2]
            sums == Splits(s, lo, hi, {"+", "-"})
            products == Splits(s, lo, hi, {"*", "/", "%"})
            k == IF sums # {} THEN Max(sums) ELSE Max(products)
            ink == {i \in lo + 1 .. hi : ~is_ascii_whitespace(s[i])}
            first == Min(ink)
            last == Max(ink)
        IN  IF ink = {} \/ Depth(s)[lo] # Depth(s)[hi] THEN Undefined
            ELSE IF sums \cup products # {} THEN Apply(s[k], m[<<lo, k - 1>>], m[<<k, hi>>])
            ELSE IF s[first] \in {"+", "-"} THEN Apply(s[first], 0, m[<<first, hi>>])
            ELSE IF s[first] = "(" /\ s[last] = ")" THEN m[<<first, last - 1>>]
            ELSE IF Digits(s, first - 1, last) THEN Defined(Decimal(s, first - 1)[last])
            ELSE Undefined
  IN  m

Meaning(s) == Meanings(s)[<<0, Len(s)>>]

\* calc prints a number exactly for the expressions that have a value in every
\* part, and it prints that value: precedence, grouping to the left, signs,
\* blanks, parentheses, truncation and all overflows.
CalculatesMeaning ==
  expr # <<>> =>
    IF Meaning(expr) = Undefined THEN answer.err # "none"
    ELSE answer.err = "none" /\ answer.value = Meaning(expr)
=============================================================================
