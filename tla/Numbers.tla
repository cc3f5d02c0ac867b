------------------------------ MODULE Numbers -------------------------------
(***************************************************************************)
(* How numbers come back: the Go type the SDK gives a number of the server *)
(* (types/numbers.go, toDriverValue), and the conversions an application   *)
(* applies to it.  A word has 2 * Half values instead of 2^64.  A number   *)
(* is [type, h] and stands for h / 2, which is enough to have fractions.   *)
(*                                                                         *)
(* A conversion is the set of its results: Go leaves open what int64(f) is *)
(* when the float f is out of range.                                       *)
(***************************************************************************)
EXTENDS Integers

CONSTANTS Half,    \* 2^63: half the values of a word are negative as int64
          Error    \* a conversion returned an error

ASSUME NumbersAssumption == Half \in Nat \ {0} /\ Error \notin Int

Word == 2 * Half
MinInt == -Half
MaxInt == Half - 1
MaxUint == Word - 1

\* The server holds 64-bit integers, floats, and decimals.
Number == [type : {"int", "float", "decimal"}, h : Int]

Whole(v) == v.h % 2 = 0
Truncated(v) == IF v.h >= 0 THEN v.h \div 2 ELSE -((-v.h) \div 2)

\* CBOR has unsigned and negative integers; a decimal comes as a string.
FromSDK(x) == [type |-> CASE x.type = "int" -> IF x.h < 0 THEN "int64" ELSE "uint64"
                          [] x.type = "float" -> "float64"
                          [] x.type = "decimal" -> "string",
               h |-> x.h]

\* int64(n) and uint64(n) of an integer.
AsInt(n) == ((n - MinInt) % Word) + MinInt
AsUint(n) == n % Word

\* strconv.ParseInt and ParseUint; they refuse "6.0", and the text of a decimal
\* may be that.
Parsed(v, range) ==
  {Error} \cup (IF Whole(v) /\ v.h \div 2 \in range THEN {v.h \div 2} ELSE {})

\* mutant: the string goes through ParseFloat.
ToInt64ByFloat(v) ==
  CASE v.type \in {"int64", "uint64"} -> {AsInt(v.h \div 2)}
    [] v.type \in {"float64", "string"} ->
         IF Truncated(v) \in MinInt..MaxInt THEN {Truncated(v)} ELSE {MinInt, MaxInt}

ToInt64(v) ==
  CASE v.type \in {"int64", "uint64"} -> {AsInt(v.h \div 2)}
    [] v.type = "float64" ->
         IF Truncated(v) \in MinInt..MaxInt THEN {Truncated(v)} ELSE {MinInt, MaxInt}
    [] v.type = "string" -> Parsed(v, MinInt..MaxInt)

ToUint64(v) ==
  CASE v.type \in {"int64", "uint64"} -> {AsUint(v.h \div 2)}
    [] v.type = "float64" ->
         IF Truncated(v) \in 0..MaxUint THEN {Truncated(v)} ELSE {0, MaxInt + 1, MaxUint}
    [] v.type = "string" -> Parsed(v, 0..MaxUint)

\* Integers become int64, floats stay, anything else is encoded as text.
ToDriverValue(v) == IF v.type \in {"int64", "uint64"}
                      THEN [type |-> "int64", h |-> 2 * AsInt(v.h \div 2)]
                      ELSE v
=============================================================================
