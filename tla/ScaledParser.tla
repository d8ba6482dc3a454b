---------------------------- MODULE ScaledParser ----------------------------
(***************************************************************************)
(* parse_scaled (src/src/json_min.cpp): a decimal price or quantity as an  *)
(* integer scaled by 10^scale_pow, one character per step.  The result has *)
(* the range of int64_t, here -(IntMax + 1)..IntMax; the sums before it    *)
(* are __int128 and cannot wrap: intpart is at most IntMax + 1 and         *)
(* scale_pow at most 18.                                                   *)
(***************************************************************************)
EXTENDS Integers, Sequences

CONSTANTS
  Alphabet,    \* the characters considered, by their codes
  MaxLen,      \* bound on the length of the text
  ScalePow,    \* scale_pow
  IntMax       \* INT64_MAX

ASSUME ScaledAssumption ==
  /\ Alphabet \subseteq Nat /\ MaxLen \in Nat
  /\ ScalePow \in 0..18 /\ IntMax \in Nat

VARIABLES
  text,        \* history: the characters so far
  part,        \* the loop the parser is in: "sign", "int", "frac", or "rejected"
  neg, intpart, any, frac, fracdigits,   \* the locals of the same names
  result       \* "none", "true" or "false", and out
vars == <<text, part, neg, intpart, any, frac, fracdigits, result>>

Minus == 45
Dot == 46
Zero == 48
IsDigit(ch) == ch \in Zero..(Zero + 9)

Pow10[n \in Nat] == IF n = 0 THEN 1 ELSE 10 * Pow10[n - 1]

Init ==
  /\ text = <<>> /\ part = "sign"
  /\ neg = FALSE /\ intpart = 0 /\ any = FALSE /\ frac = 0 /\ fracdigits = 0
  /\ result = <<"none", 0>>

-----------------------------------------------------------------------------

Sign(ch) ==
  /\ part = "sign" /\ ch = Minus
  /\ neg' = TRUE
  /\ part' = "int"
  /\ UNCHANGED <<intpart, any, frac, fracdigits>>

IntDigit(ch) ==
  /\ part \in {"sign", "int"} /\ IsDigit(ch)
  /\ intpart' = intpart * 10 + (ch - Zero)
  /\ part' = IF intpart' > IntMax + 1 THEN "rejected" ELSE "int"
  /\ any' = TRUE
  /\ UNCHANGED <<neg, frac, fracdigits>>

Point(ch) ==
  /\ part \in {"sign", "int"} /\ ch = Dot
  /\ part' = "frac"
  /\ UNCHANGED <<neg, intpart, any, frac, fracdigits>>

FracDigit_Truncate(ch) ==
  /\ part = "frac" /\ IsDigit(ch)
  /\ frac' = IF fracdigits < ScalePow THEN frac * 10 + (ch - Zero) ELSE frac
  /\ fracdigits' = IF fracdigits < ScalePow THEN fracdigits + 1 ELSE fracdigits
  /\ any' = TRUE
  /\ UNCHANGED <<part, neg, intpart>>

(* Digits past the scale have to be zero.                                  *)
FracDigit(ch) ==
  /\ part = "frac" /\ IsDigit(ch)
  /\ frac' = IF fracdigits < ScalePow THEN frac * 10 + (ch - Zero) ELSE frac
  /\ fracdigits' = IF fracdigits < ScalePow THEN fracdigits + 1 ELSE fracdigits
  /\ part' = IF fracdigits = ScalePow /\ ch # Zero THEN "rejected" ELSE "frac"
  /\ any' = TRUE
  /\ UNCHANGED <<neg, intpart>>

(* Any other character ends the parse; so it stays whatever follows.       *)
Reject(ch) ==
  /\ \/ part \in {"sign", "int"} /\ ~IsDigit(ch) /\ ch # Dot /\ ~(part = "sign" /\ ch = Minus)
     \/ part = "frac" /\ ~IsDigit(ch)
     \/ part = "rejected"
  /\ part' = "rejected"
  /\ UNCHANGED <<neg, intpart, any, frac, fracdigits>>

NextChar ==
  /\ result[1] = "none"
  /\ Len(text) < MaxLen
  /\ \E ch \in Alphabet :
       /\ text' = Append(text, ch)
       /\ Sign(ch) \/ IntDigit(ch) \/ Point(ch) \/ FracDigit(ch) \/ Reject(ch)
  /\ UNCHANGED result

Magnitude == intpart * Pow10[ScalePow] + frac * (Pow10[ScalePow] \div Pow10[fracdigits])

(* The end of the text.                                                    *)
Finish ==
  /\ result[1] = "none"
  /\ result' = IF /\ part # "rejected" /\ any
                  /\ Magnitude <= IF neg THEN IntMax + 1 ELSE IntMax
               THEN <<"true", IF neg THEN -Magnitude ELSE Magnitude>>
               ELSE <<"false", 0>>
  /\ UNCHANGED <<text, part, neg, intpart, any, frac, fracdigits>>

Next == NextChar \/ Finish

Spec == Init /\ [][Next]_vars

-----------------------------------------------------------------------------
(* The reference: what a text means as a decimal number, s being what      *)
(* comes after its sign.                                                   *)

Unsigned(t) == IF t # <<>> /\ t[1] = Minus THEN Tail(t) ELSE t

IsDecimal(s) ==
  /\ \E i \in DOMAIN s : IsDigit(s[i])
  /\ \A i \in DOMAIN s : IsDigit(s[i]) \/ s[i] = Dot
  /\ \A i, j \in DOMAIN s : s[i] = Dot /\ s[j] = Dot => i = j

(* How many of the digits come after the point.                            *)
Decimals(s) == IF \E i \in DOMAIN s : s[i] = Dot
               THEN Len(s) - CHOOSE i \in DOMAIN s : s[i] = Dot
               ELSE 0

(* The digits as one integer: the number is Numeral / 10^Decimals.         *)
Numeral(s) ==
  LET upto[n \in 0..Len(s)] ==
        IF n = 0 THEN 0
        ELSE IF IsDigit(s[n]) THEN upto[n - 1] * 10 + (s[n] - Zero) ELSE upto[n - 1]
  IN upto[Len(s)]

(* A text is accepted exactly if it is a decimal number that the scaled    *)
(* integer represents without rounding and without leaving the range, the  *)
(* most negative value included, and the result is that integer: levels    *)
(* are never rounded, wrapped or made up (json_min.cpp:24-64).             *)
ScaledExact ==
  LET s == Unsigned(text)
      unit == Pow10[Decimals(s)]
      value == (IF text # s THEN -1 ELSE 1) * (Numeral(s) * Pow10[ScalePow])
      fits == IsDecimal(s) /\ \E v \in -(IntMax + 1)..IntMax : v * unit = value
  IN result[1] # "none" => IF result[1] = "true" THEN fits /\ result[2] * unit = value ELSE ~fits

=============================================================================
