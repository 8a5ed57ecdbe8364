------------------------------- MODULE Amounts -------------------------------
(***************************************************************************)
(* tokens/types.rs and types/units.rs: token amounts and their decimals,   *)
(* NEAR and gas amounts with units, as text.                               *)
(*                                                                         *)
(* u128 is scaled to the integers below Modulus, and the powers of ten of  *)
(* the units with it.  A text is the sequence of its parts between points, *)
(* a part the sequence of its characters: its digits, Plus, and 10 for any *)
(* other one.  Characters are ASCII: a longer one across the 24th place    *)
(* makes the slice of units.rs:146 panic, which is not modelled.           *)
(* `build` says whether arithmetic overflow panics (debug) or wraps        *)
(* (release): Cargo.toml leaves both at their defaults.                    *)
(***************************************************************************)
EXTENDS Inputs

CONSTANTS
    Modulus,        \* 2^128, scaled
    NearDecimals,   \* 24, scaled: yoctoNEAR per NEAR is 10^NearDecimals
    MilliDecimals,  \* 21, scaled
    MaxDecimals     \* bound: decimals a token declares

ASSUME AmountsAssumption ==
    /\ Modulus \in Nat /\ Modulus > 1000
    /\ NearDecimals \in Nat /\ MilliDecimals \in Nat /\ MaxDecimals \in Nat

Builds == {"debug", "release"}

\* The number written by digits; Modulus stands for all that do not fit.
Value(digits) ==
    LET v[n \in 0 .. Len(digits)] ==
            IF n = 0 THEN 0
            ELSE LET w == 10 * v[n - 1] + digits[n] IN IF w < Modulus THEN w ELSE Modulus
    IN  v[Len(digits)]

Plus == 11

\* str::parse::<u128> strips a plus sign in front of anything: it counts as a
\* leading zero.
Signless(part) == IF Len(part) > 1 /\ part[1] = Plus THEN [part EXCEPT ![1] = 0] ELSE part

\* str::parse::<u128>.
Parse(part) ==
    LET digits == Signless(part)
    IN  IF digits # <<>> /\ (\A i \in DOMAIN digits : digits[i] < 10) /\ Value(digits) < Modulus
            THEN Ok(Value(digits))
            ELSE Fail("InvalidNumber")

PowerFits(n) == Value(<<1>> \o [i \in 1 .. n |-> 0]) < Modulus

\* 10u128.pow.
Pow(n, build) ==
    LET wrapped[i \in 0 .. n] == IF i = 0 THEN 1 ELSE (10 * wrapped[i - 1]) % Modulus
    IN  IF PowerFits(n) \/ build = "release" THEN Ok(wrapped[n]) ELSE Fail("panic")

checked_mul_u(a, b) == IF a * b < Modulus THEN Ok(a * b) ELSE Fail("Overflow")
checked_add_u(a, b) == IF a + b < Modulus THEN Ok(a + b) ELSE Fail("Overflow")

DigitsOf(number) ==
    LET d[n \in 0 .. number] == IF n < 10 THEN <<n>> ELSE d[n \div 10] \o <<n % 10>> IN d[number]
PadLeft(digits, width) == [i \in 1 .. width - Len(digits) |-> 0] \o digits
PadRight(digits, width) == digits \o [i \in 1 .. width - Len(digits) |-> 0]
TrimZeros(digits) ==
    LET last == CHOOSE n \in 0 .. Len(digits) :
                    (n = 0 \/ digits[n] # 0) /\ \A k \in n + 1 .. Len(digits) : digits[k] = 0
    IN  SubSeq(digits, 1, last)
-----------------------------------------------------------------------------
(* Token amounts. *)

format_raw_with_decimals(raw, decimals, build) ==
    LET divisor == Pow(decimals, build)
    IN  CASE decimals = 0 -> Ok(<<DigitsOf(raw)>>)
          [] decimals # 0 /\ (~divisor.ok \/ divisor.value = 0) -> Fail("panic")
          [] OTHER -> LET frac == raw % divisor.value
                          whole == DigitsOf(raw \div divisor.value)
                      IN  Ok(IF frac = 0 THEN <<whole>> ELSE <<whole, TrimZeros(PadLeft(DigitsOf(frac), decimals))>>)

\* whole * 10^decimals + frac, with the errors in the order they arise.
Scaled(whole, decimals, frac, build) ==
    LET power == Pow(decimals, build)
        shifted == checked_mul_u(whole.value, power.value)
    IN  CASE ~whole.ok -> whole
          [] whole.ok /\ ~frac.ok -> frac
          [] whole.ok /\ frac.ok /\ ~power.ok -> power
          [] OTHER -> IF shifted.ok THEN checked_add_u(shifted.value, frac.value) ELSE shifted

\* Variant: multiplication and addition wrap.
parse_decimal_to_raw_wrapping(text, decimals, build) ==
    LET whole == Parse(text[1])
        frac == IF Len(text) = 1 THEN Ok(0) ELSE Parse(PadRight(text[2], decimals))
        power == Pow(decimals, build)
    IN  IF whole.ok /\ frac.ok /\ power.ok THEN Ok((whole.value * power.value + frac.value) % Modulus)
                                           ELSE Fail("InvalidNumber")

parse_decimal_to_raw(text, decimals, build) ==
    LET whole == IF Len(text) = 2 /\ text[1] = <<>> THEN Ok(0) ELSE Parse(text[1])
    IN  CASE text = <<<<>>>> -> Fail("InvalidFormat")
          [] Len(text) = 1 /\ text # <<<<>>>> -> Scaled(whole, decimals, Ok(0), build)
          [] Len(text) = 2 -> CASE ~whole.ok -> whole
                                [] whole.ok /\ Len(text[2]) > decimals -> Fail("InvalidFormat")
                                [] OTHER -> Scaled(whole, decimals, Parse(PadRight(text[2], decimals)), build)
          [] OTHER -> Fail("InvalidFormat")

FtAmount(raw, decimals, symbol) == [raw |-> raw, decimals |-> decimals, symbol |-> symbol]

SameToken(a, b) == a.decimals = b.decimals /\ a.symbol = b.symbol
None == Fail("None")
With(a, raw) == Ok([a EXCEPT !.raw = raw])

checked_add(a, b) == IF SameToken(a, b) /\ a.raw + b.raw < Modulus THEN With(a, a.raw + b.raw) ELSE None
checked_sub(a, b) == IF SameToken(a, b) /\ a.raw >= b.raw THEN With(a, a.raw - b.raw) ELSE None
checked_mul(a, n) == IF a.raw * n < Modulus THEN With(a, a.raw * n) ELSE None
checked_div(a, n) == IF n # 0 THEN With(a, a.raw \div n) ELSE None
saturating_add(a, b) ==
    IF SameToken(a, b) THEN With(a, IF a.raw + b.raw < Modulus THEN a.raw + b.raw ELSE Modulus - 1) ELSE None
saturating_sub(a, b) == IF SameToken(a, b) THEN With(a, IF a.raw >= b.raw THEN a.raw - b.raw ELSE 0) ELSE None
-----------------------------------------------------------------------------
(* NEAR and gas. *)

\* The text from its first point on, which may hold another point.
AfterPoint(text) == IF Len(text) = 2 THEN text[2] ELSE text[2] \o <<10>> \o text[3]

\* parse_near_decimal: more digits than yoctoNEAR has are cut off.
parse_near_decimal(text) ==
    LET after == IF Len(text) = 1 THEN <<>> ELSE AfterPoint(text)
        digits == SubSeq(after, 1, IF Len(after) > NearDecimals THEN NearDecimals ELSE Len(after))
        decimal == IF digits = <<>> THEN Ok(0) ELSE Parse(digits)
        whole == IF Len(text) > 1 /\ text[1] = <<>> THEN Ok(0) ELSE Parse(text[1])
        scale == Pow(NearDecimals - Len(digits), "debug").value
    IN  Scaled(whole, NearDecimals, IF decimal.ok THEN Ok(decimal.value * scale) ELSE decimal, "debug")

\* The units of whole numbers, of NEAR and of gas, with their powers of ten.
UnitDecimals == [mNEAR |-> MilliDecimals, yocto |-> 0, Tgas |-> NearDecimals, Ggas |-> MilliDecimals, gas |-> 0]
Units == DOMAIN UnitDecimals \cup {"NEAR", "no unit"}

\* parse_near_token and parse_gas; the units of the one are a bad format to
\* the other.
parse_amount(text, unit) ==
    CASE unit = "no unit" -> Fail("AmbiguousAmount")
      [] unit = "NEAR" -> parse_near_decimal(text)
      [] OTHER -> IF Len(text) = 1 THEN Scaled(Parse(text[1]), UnitDecimals[unit], Ok(0), "debug")
                                   ELSE Fail("InvalidNumber")
-----------------------------------------------------------------------------
(* Exercise. *)

SomeRaw == {0, 1, 9, 10, 99, 100, 105, 950, 999, 1000, Modulus - 1}
Parts == UNION {[1 .. n -> {0, 1, 9, 10, Plus}] : n \in 0 .. 3}

ShowAmount ==
    /\ Given("none")
    /\ \E raw \in 0 .. Modulus - 1, decimals \in 0 .. MaxDecimals, build \in Builds :
          input' = [of |-> "amount", raw |-> raw, decimals |-> decimals, build |-> build]

ReadAmount ==
    /\ Given("none")
    /\ \E n \in 1 .. 2, decimals \in 0 .. MaxDecimals, build \in Builds : \E text \in [1 .. n -> Parts] :
          input' = [of |-> "decimal", text |-> text, decimals |-> decimals, build |-> build]

ReadUnits ==
    /\ Given("none")
    /\ \E n \in 1 .. 3, unit \in Units : \E text \in [1 .. n -> {p \in Parts : Len(p) < 3 \/ n < 3}] :
          input' = [of |-> "units", text |-> text, unit |-> unit]

AddAmounts ==
    /\ Given("none")
    /\ \E a, b \in [raw : SomeRaw, decimals : {2, 3}, symbol : {"S", "T"}] : input' = [of |-> "sum", a |-> a, b |-> b]
-----------------------------------------------------------------------------
(* Properties. *)

\* An amount is written so that it reads back as itself, for every number of
\* decimals whose power of ten fits; for more decimals a build with overflow
\* checks panics and never writes another amount.
AmountsReadBack ==
    Given("amount") =>
        LET text == format_raw_with_decimals(input.raw, input.decimals, input.build)
        IN  /\ PowerFits(input.decimals) => text.ok
            /\ text.ok /\ (PowerFits(input.decimals) \/ input.build = "debug") =>
                  parse_decimal_to_raw(text.value, input.decimals, input.build) = Ok(input.raw)

\* Reading a decimal text gives exactly the number its digits make with the
\* point moved, or an error: no digit is dropped and nothing wraps.  Every
\* well-formed text whose number fits is accepted.  One plus sign may stand
\* before the digits of either half and holds the place of a zero there:
\* "+1.5" is 1.5, but "1.+5" is not refused, it is 1.05.
ReadsExactly ==
    Given("decimal") /\ (PowerFits(input.decimals) \/ input.build = "debug") =>
        LET text == input.text
            frac == IF Len(text) = 1 THEN <<>> ELSE text[2]
            digits == Signless(text[1]) \o Signless(PadRight(frac, input.decimals))
            wellFormed == /\ \A i \in DOMAIN digits : digits[i] < 10
                          /\ Len(frac) <= input.decimals
                          /\ text[1] # <<>> \/ Len(text) = 2
                          /\ Len(text) = 2 => input.decimals > 0
            read == parse_decimal_to_raw(text, input.decimals, input.build)
        IN  /\ read.ok => wellFormed /\ read.value = Value(digits)
            /\ wellFormed /\ PowerFits(input.decimals) /\ Value(digits) < Modulus => read.ok

\* An amount with a unit is read as the same number of yoctoNEAR, or of gas,
\* that its digits make in the smallest unit; only digits below one yoctoNEAR
\* are lost.  A plus sign holds the place of a zero, as in a token amount.
UnitsAgree ==
    Given("units") =>
        LET text == input.text
            read == parse_amount(text, input.unit)
            decimals == IF input.unit = "NEAR" THEN NearDecimals ELSE UnitDecimals[input.unit]
            frac == IF Len(text) = 1 THEN <<>> ELSE text[2]
            kept == SubSeq(frac, 1, IF Len(frac) > decimals THEN decimals ELSE Len(frac))
        IN  read.ok => /\ input.unit # "no unit" /\ (Len(text) > 1 => input.unit = "NEAR")
                       /\ read.value = Value(Signless(text[1]) \o PadRight(Signless(kept), decimals)) /\ read.value < Modulus

\* Arithmetic never mixes two tokens and never wraps: a sum takes back what
\* was added, and the saturating operations differ only where the checked
\* ones give nothing.
ArithmeticStaysInToken ==
    Given("sum") =>
        LET a == input.a
            b == input.b
            sum == checked_add(a, b)
        IN  /\ saturating_add(a, b).ok \/ saturating_sub(a, b).ok \/ sum.ok =>
                  [a EXCEPT !.raw = 0] = [b EXCEPT !.raw = 0]
            /\ sum.ok => checked_sub(sum.value, b) = Ok(a) /\ saturating_add(a, b) = sum
            /\ checked_sub(a, b).ok => checked_add(checked_sub(a, b).value, b) = Ok(a)
            /\ checked_mul(a, b.raw).ok /\ b.raw # 0 => checked_div(checked_mul(a, b.raw).value, b.raw) = Ok(a)

\* Amounts of tokens, of NEAR and of gas are shown, read and added exactly, or
\* refused.
AmountsAreExact ==
    /\ AmountsReadBack
    /\ ReadsExactly
    /\ UnitsAgree
    /\ ArithmeticStaysInToken
=============================================================================
