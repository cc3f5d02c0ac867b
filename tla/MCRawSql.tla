------------------------------ MODULE MCRawSql -------------------------------
(* A small instance of RawSql: words of 8 values; the numbers are -1, 3 (the *)
(* largest int), and the decimals 3/2 and 6, which is beyond an int.  The    *)
(* application uses the name "a" and the one Exec makes of it first.         *)
EXTENDS RawSql, TLC

CONSTANTS a

Minus1 == [type |-> "int", h |-> -2]
Three == [type |-> "int", h |-> 6]
Half3 == [type |-> "decimal", h |-> 3]
Dec6 == [type |-> "decimal", h |-> 12]
MCValue == {Minus1, Three, Half3, Dec6}

MCName == {<<a>>, <<0, <<a>>>>}

MCStmt == {[key |-> 1, field |-> 1, name |-> <<a>>],
           [key |-> 2, field |-> 1, name |-> <<a>>],
           [key |-> 1, field |-> 2, name |-> <<0, <<a>>>>]}

MCStart == {<<<<Three, None>>, <<None, None>>>>, <<<<Dec6, Minus1>>, <<None, Half3>>>>}

MCParams == {<<>>} \cup {<<a>> :> v : v \in MCValue}
              \cup {(<<a>> :> Minus1) @@ (<<0, <<a>>>> :> Three)}
=============================================================================
