---------------------------- MODULE MCAlgorithms -----------------------------
(***************************************************************************)
(* The two parts that work on plain data: from text to task plan, and the  *)
(* messages' wire format.  A behaviour runs one of them, chosen by its     *)
(* first state, on one input.                                              *)
(***************************************************************************)
EXTENDS ExpressionGrammar, WireCodec

CONSTANTS MaxArith, MaxMixed   \* bounds: length of the texts of each family

(* Every short text over a digit, two operators and parentheses; every      *)
(* shorter one over a wider alphabet with an illegal character; three      *)
(* operators in a row at any precedence; nesting at and beyond the limit.  *)
Arith  == UNION {[1..n -> {"1", "-", "*", "(", ")"}] : n \in 1..MaxArith}
Mixed  == UNION {[1..n -> {"1", ".", "+", "-", "/", "(", " ", ")", "x"}] : n \in 1..MaxMixed}
Sevens == {<<"1", a, "1", b, "1", c, "1">> : a, b, c \in Binary}
Nested == {<<"(", "(", "1", ")", ")">>, <<"(", "(", "(", "1", ")", ")", ")">>,
           <<"1", "-", "1", "-", "1", "-", "1", "-", "1">>}
Texts  == {t \in Arith \cup Mixed \cup Sevens \cup Nested : t[1] # " " /\ Last(t) # " "}

-----------------------------------------------------------------------------
Types == DOMAIN Zero \ {"Timestamp", "Struct", "ByTypeEntry"}

(* Of each type: the zero message, one with every field set, and one for   *)
(* each field and each value that is hard for its kind.                    *)
RECURSIVE Typical(_)
TypicalValue(f) ==
    CASE f[3] = "string"   -> <<104, 105>>
      [] f[3] = "int32"    -> 1
      [] f[3] = "int64"    -> 300
      [] f[3] = "bool"     -> TRUE
      [] f[3] = "double"   -> <<0, 0, 0, 0, 0, 0, 240, 63>>
      [] f[3] = "message"  -> Typical(f[4])
      [] f[3] = "messages" -> <<Typical(f[4]), Zero[f[4]]>>
      [] f[3] = "map"      -> <<[key |-> <<97>>, value |-> 3], [key |-> <<>>, value |-> 0]>>
Typical(T) ==
    LET fieldOf(name) == CHOOSE f \in ToSet(MarshalFields[T]) : f[2] = name
    IN  [name \in DOMAIN Zero[T] |->
            IF name = "unknown" THEN <<>> ELSE TypicalValue(fieldOf(name))]

EdgeValues(f) ==
    CASE f[3] = "string"  -> {[i \in 1..130 |-> 65]}
      [] f[3] = "int32"   -> {-1, 2147483647, -2147483647 - 1}
      [] f[3] = "int64"   -> {-1, -300, 2147483647}
      [] f[3] = "double"  -> {MinusZero}
      [] f[3] = "message" -> {Zero[f[4]]}
      [] OTHER            -> {}

SampleMessages(T) ==
    {Zero[T], Typical(T)} \cup
    UNION {{[Zero[T] EXCEPT ![f[2]] = v] : v \in {TypicalValue(f)} \cup EdgeValues(f)} :
              f \in ToSet(MarshalFields[T])}

(* A varint in field 31, a string in field 100, four bytes in field 32.    *)
NewerFields == {<<248, 1, 172, 2>>, <<162, 6, 3, 1, 2, 3>>, <<133, 2, 1, 2, 3, 4>>}

-----------------------------------------------------------------------------
VARIABLE part

ParserRests == raw = <<>> /\ stage = "none" /\ pos = 1 /\ tokens = <<>>
               /\ nodes = <<>> /\ operands = <<>> /\ ops = <<>> /\ plan = <<>>
WireRests == /\ type = "none" /\ message = Nil /\ decoded = Nil /\ wire = <<>>
             /\ extra = <<>> /\ cut = FALSE /\ phase = "none" /\ hops = 0

AlgorithmsInit == \/ part = "parser" /\ ParserInit /\ WireRests
                  \/ part = "wire" /\ ParserRests /\ WireInit

AlgorithmsNext ==
    /\ UNCHANGED part
    /\ \/ part = "parser" /\ ParserNext /\ UNCHANGED wireVars
       \/ part = "wire" /\ WireNext /\ UNCHANGED parserVars

AlgorithmsSpec == AlgorithmsInit /\ [][AlgorithmsNext]_<<parserVars, wireVars, part>>
=============================================================================
