------------------------- MODULE ExpressionGrammar --------------------------
(***************************************************************************)
(* What the texts of ExpressionParser mean, independently of how they are  *)
(* parsed, and what the parser and the planner have to do with it.         *)
(***************************************************************************)
EXTENDS ExpressionParser

(* The grammar                                                             *)
(*    sum     = product, or sum ("+" | "-") product                        *)
(*    product = signed, or product ("*" | "/") signed                      *)
(*    signed  = primary, or "-" signed                                     *)
(*    primary = number, or "(" sum ")"                                     *)
(* over the words of the text, as the set of trees it gives words i to j.  *)
Where(s, Test(_)) == SelectSeq([i \in DOMAIN s |-> i], Test)

Words(text) ==
    LET starts(i) == /\ text[i] # " "
                     /\ text[i] \in Numeric /\ i > 1 => text[i-1] \notin Numeric
        at == Where(text, starts)
    IN  [i \in DOMAIN at |->
            IF text[at[i]] \notin Numeric THEN text[at[i]]
            ELSE IF IsNumber(SubSeq(text, at[i], at[i] + RunLength(text, at[i]) - 1))
                 THEN Num ELSE "bad"]

RECURSIVE Sums(_, _, _), Products(_, _, _), Signeds(_, _, _), Primaries(_, _, _)
Joined(o, left, right) == {Node(o, l, r) : l \in left, r \in right}
Sums(w, i, j) ==
    Products(w, i, j) \cup
    UNION {Joined(w[k], Sums(w, i, k - 1), Products(w, k + 1, j)) :
              k \in {m \in i + 1..j - 1 : w[m] \in {"+", "-"}}}
Products(w, i, j) ==
    Signeds(w, i, j) \cup
    UNION {Joined(w[k], Products(w, i, k - 1), Signeds(w, k + 1, j)) :
              k \in {m \in i + 1..j - 1 : w[m] \in {"*", "/"}}}
Signeds(w, i, j) ==
    Primaries(w, i, j) \cup
    IF i < j /\ w[i] = Minus THEN {Node(Minus, ZeroLeaf, x) : x \in Signeds(w, i + 1, j)} ELSE {}
Primaries(w, i, j) ==
    IF i = j THEN (IF w[i] = Num THEN {Leaf(i)} ELSE {})
    ELSE IF i < j /\ w[i] = LParen /\ w[j] = RParen THEN Sums(w, i + 1, j - 1) ELSE {}

Trees(text) == LET w == Words(text) IN Sums(w, 1, Len(w))

(* Size and nesting of a text, for the documented limits.                  *)
Nesting(text) ==
    LET opened(i) == Cardinality({k \in 1..i : text[k] = LParen})
                   - Cardinality({k \in 1..i : text[k] = RParen})
    IN  {opened(i) : i \in DOMAIN text}
Operations(text) == Cardinality({i \in DOMAIN Words(text) : Words(text)[i] \in Binary})
WithinBounds(text) == /\ Len(text) <= MaxLength
                      /\ \A d \in Nesting(text) : d <= MaxDepth
                      /\ Operations(text) <= MaxTasks

-----------------------------------------------------------------------------
(* The numbers of the text below a node, from left to right.               *)
LiteralsOf[n \in DOMAIN nodes] ==
    IF IsLeaf(n) THEN (IF nodes[n] = ZeroLeaf THEN <<>> ELSE <<nodes[n].at>>)
    ELSE LiteralsOf[nodes[n].left] \o LiteralsOf[nodes[n].right]

(* Every text of the grammar within the limits is accepted, with exactly   *)
(* the tree the grammar gives it (precedence, left association, negation   *)
(* that binds tighter than "*"), and nothing beyond the limits is: the     *)
(* limits hold at their edge.                                              *)
ParsesTheGrammar ==
    /\ stage = "planned" => WithinBounds(raw)
    /\ stage \in {"planned", "rejected"} /\ Trees(raw) # {} /\ WithinBounds(raw)
          => stage = "planned" /\ Trees(raw) = {Tree[operands[1]]}

(* Whatever was accepted, the plan is a tree of tasks, computes the tree   *)
(* that was parsed, and uses each number of the text once, in its order,   *)
(* and as many operations as the text has operators.                       *)
PlanComputesTheText ==
    /\ PlanIsATree
    /\ PlanComputesTheTree
    /\ stage = "planned" =>
          /\ LiteralsOf[operands[1]] = Where(tokens, LAMBDA i : tokens[i] = Num)
          /\ Len(plan) = Operations(raw)

(* The validator's documentation (pkg/validator/validator.go:16) calls the *)
(* parser "the authoritative grammar check": what it accepts would then be *)
(* an expression of the grammar.  Shunting-yard never asks whether an      *)
(* operator stands between its operands.                                   *)
AcceptsOnlyTheGrammar == stage = "planned" => Trees(raw) # {}
=============================================================================
