-------------------------- MODULE ExpressionParser ---------------------------
(***************************************************************************)
(* From the text of an expression to its task plan: the allow-list check   *)
(* (pkg/validator), the scanner and the shunting-yard parser               *)
(* (usecase/expression/parser.go), and the planner                         *)
(* (usecase/expression/planner.go), as Service.Submit chains them.         *)
(*                                                                         *)
(* A text is a sequence of one-character strings.  What a number is worth  *)
(* does not matter here: a literal is named by the position of its token,  *)
(* and whether strconv.ParseFloat accepts it is decided by its dots.       *)
(* Leading and trailing blanks are trimmed by both stages; texts are taken *)
(* trimmed.                                                                *)
(***************************************************************************)
EXTENDS Integers, Sequences, SequencesExt, FiniteSets

CONSTANTS Text,       \* the texts clients submit
          MaxLength,  \* constants.MaxExpressionLength
          MaxDepth,   \* constants.MaxParenDepth
          MaxTasks    \* constants.MaxTasksPerExpr

ASSUME ParserAssumption == {MaxLength, MaxDepth, MaxTasks} \subseteq Nat \ {0}

VARIABLES raw,       \* the text
          stage,     \* "submitted", "scanning", "building", "planned", "rejected"
          pos,       \* next character, then next token
          tokens,    \* the scanner's output
          nodes,     \* the Node values allocated so far, by address
          operands,  \* astBuilder.operands: addresses
          ops,       \* astBuilder.ops
          plan       \* the tasks, in the order the planner appends them
parserVars == <<raw, stage, pos, tokens, nodes, operands, ops, plan>>

Binary    == {"+", "-", "*", "/"}
Numeric   == {"0", "1", "2", "."}
Minus     == "-"
NoOp      == ""
Num       == "num"
Neg       == "neg"
LParen    == "("
RParen    == ")"
Token     == Binary \cup {Num, Neg, LParen, RParen}

-----------------------------------------------------------------------------
(* Syntax trees, whose nodes point to each other.  A literal is its        *)
(* token's position, 0 the zero that popOp puts in front of a negation.    *)
Leaf(i)       == [op |-> NoOp, at |-> i]
Node(o, l, r) == [op |-> o, left |-> l, right |-> r]
IsLeaf(n)     == nodes[n].op = NoOp
ZeroLeaf      == Leaf(0)

-----------------------------------------------------------------------------
(* validator.ValidateExpression: one walk over the characters.             *)
ScanStart == [depth |-> 0, maxDepth |-> 0, prev |-> "", digits |-> FALSE, ok |-> TRUE]

Checked(s, c) ==
    LET seen == [s EXCEPT !.prev = c]
        Fail == [s EXCEPT !.ok = FALSE]
    IN  CASE ~s.ok                -> s
          [] c \in Numeric        -> [seen EXCEPT !.digits = TRUE]
          [] c = "("              -> [seen EXCEPT !.depth = @ + 1,
                                        !.maxDepth = IF s.depth + 1 > @ THEN s.depth + 1 ELSE @]
          [] c = ")"              -> IF s.depth = 0 THEN Fail ELSE [seen EXCEPT !.depth = @ - 1]
          [] c \in Binary         -> IF s.prev \in {"+", "*", "/"} /\ c # "-" THEN Fail ELSE seen
          [] c = " "              -> s
          [] OTHER                -> Fail

Valid(text) ==
    LET s == FoldLeft(Checked, ScanStart, text)
    IN  /\ text # <<>> /\ Len(text) <= MaxLength
        /\ s.ok /\ s.depth = 0 /\ s.maxDepth <= MaxDepth
        /\ s.digits /\ s.prev \notin Binary

-----------------------------------------------------------------------------
ParserInit ==
    /\ raw \in Text
    /\ stage = "submitted"
    /\ pos = 1
    /\ tokens = <<>> /\ nodes = <<>> /\ operands = <<>> /\ ops = <<>> /\ plan = <<>>

Reject == /\ stage' = "rejected"
          /\ UNCHANGED <<raw, pos, tokens, nodes, operands, ops, plan>>

Validate ==
    /\ stage = "submitted"
    /\ IF Valid(raw)
       THEN /\ stage' = "scanning"
            /\ UNCHANGED <<raw, pos, tokens, nodes, operands, ops, plan>>
       ELSE Reject

(* scanner.expectOperand: at the start, after "(" and after an operator.   *)
ExpectOperand == tokens = <<>> \/ Last(tokens) \in Binary \cup {Neg, LParen}

Emit(t, n) == /\ tokens' = Append(tokens, t)
              /\ pos' = pos + n
              /\ UNCHANGED <<raw, stage, nodes, operands, ops, plan>>

(* The run of digits and dots that starts at i.                            *)
RunLength(text, i) ==
    Cardinality({j \in i..Len(text) : \A k \in i..j : text[k] \in Numeric})

(* strconv.ParseFloat on such a run.                                       *)
IsNumber(run) == /\ \E i \in DOMAIN run : run[i] # "."
                 /\ Cardinality({i \in DOMAIN run : run[i] = "."}) <= 1

(* scanner.step consumes one token.                                        *)
Scan ==
    /\ stage = "scanning" /\ pos <= Len(raw)
    /\ LET c == raw[pos]
           n == RunLength(raw, pos)
       IN  \/ /\ c = " "
              /\ pos' = pos + 1
              /\ UNCHANGED <<raw, stage, tokens, nodes, operands, ops, plan>>
           \/ /\ c \in Numeric
              /\ IF IsNumber(SubSeq(raw, pos, pos + n - 1)) THEN Emit(Num, n) ELSE Reject
           \/ /\ c \in {LParen, RParen}
              /\ Emit(c, 1)
           \/ /\ c \in Binary
              /\ IF ~ExpectOperand THEN Emit(c, 1)
                 ELSE IF c = Minus THEN Emit(Neg, 1) ELSE Reject

EndScan ==
    /\ stage = "scanning" /\ pos > Len(raw)
    /\ stage' = "building"
    /\ pos' = 1
    /\ UNCHANGED <<raw, tokens, nodes, operands, ops, plan>>

-----------------------------------------------------------------------------
Precedence(o) == CASE o = Neg -> 3 [] o \in {"*", "/"} -> 2 [] OTHER -> 1

\* Faulty variant: every operator associates to the right.
ShouldPopStrict(top, incoming) == top # LParen /\ Precedence(top) > Precedence(incoming)

(* Binary operators associate to the left, negation to the right.          *)
ShouldPop(top, incoming) ==
    /\ top # LParen
    /\ IF incoming = Neg THEN Precedence(top) > Precedence(incoming)
                         ELSE Precedence(top) >= Precedence(incoming)

Arity(o) == IF o = Neg THEN 1 ELSE 2

(* popOp folds an operator over the operand stack.                         *)
Fold(o) ==
    LET n == Len(operands)
        rest == SubSeq(operands, 1, n - Arity(o))
    IN  IF o = Neg
        THEN /\ nodes' = nodes \o <<ZeroLeaf, Node(Minus, Len(nodes) + 1, operands[n])>>
             /\ operands' = Append(rest, Len(nodes) + 2)
        ELSE /\ nodes' = Append(nodes, Node(o, operands[n - 1], operands[n]))
             /\ operands' = Append(rest, Len(nodes) + 1)

(* Too few operands are an error.                                          *)
PopOrReject ==
    IF Len(operands) < Arity(Last(ops)) THEN Reject
    ELSE /\ Fold(Last(ops))
         /\ ops' = Front(ops)
         /\ UNCHANGED <<raw, stage, pos, tokens, plan>>

(* astBuilder.feed and closeParen, one pop or one push at a time.          *)
Advance == pos' = pos + 1 /\ UNCHANGED <<raw, stage, tokens, plan>>

Push(t) == ops' = Append(ops, t) /\ UNCHANGED <<nodes, operands>> /\ Advance

Feed ==
    /\ stage = "building" /\ pos <= Len(tokens)
    /\ LET t == tokens[pos]
       IN  \/ /\ t = Num
              /\ nodes' = Append(nodes, Leaf(pos))
              /\ operands' = Append(operands, Len(nodes) + 1)
              /\ UNCHANGED ops /\ Advance
           \/ /\ t \in Binary \cup {Neg}
              /\ IF ops # <<>> /\ ShouldPop(Last(ops), t) THEN PopOrReject ELSE Push(t)
           \/ /\ t = LParen
              /\ Push(t)
           \/ /\ t = RParen
              /\ IF ops = <<>> THEN Reject
                 ELSE IF Last(ops) # LParen THEN PopOrReject
                 ELSE ops' = Front(ops) /\ UNCHANGED <<nodes, operands>> /\ Advance

(* build, once the tokens are used up: what is left on the operator stack. *)
Drain ==
    /\ stage = "building" /\ pos > Len(tokens) /\ ops # <<>>
    /\ IF Last(ops) = LParen THEN Reject ELSE PopOrReject

-----------------------------------------------------------------------------
(* Plan: a task per operation, appended when both its operands have been   *)
(* built.  A leaf becomes a literal argument of its parent.                *)
PostOrder[n \in DOMAIN nodes] ==
    IF IsLeaf(n) THEN <<>>
    ELSE PostOrder[nodes[n].left] \o PostOrder[nodes[n].right] \o <<n>>

Place(order, n) == CHOOSE i \in DOMAIN order : order[i] = n
Arg(order, n) == IF IsLeaf(n) THEN [literal |-> nodes[n].at] ELSE [task |-> Place(order, n)]

Tasks(order) ==
    [i \in DOMAIN order |->
        LET n == nodes[order[i]]
        IN  [op    |-> n.op,
             arg1  |-> Arg(order, n.left),
             arg2  |-> Arg(order, n.right),
             unmet |-> (IF IsLeaf(n.left) THEN 0 ELSE 1) + (IF IsLeaf(n.right) THEN 0 ELSE 1)]]

\* Faulty variant: the task of a node is appended before those of its operands.
PreOrder[n \in DOMAIN nodes] ==
    IF IsLeaf(n) THEN <<>>
    ELSE <<n>> \o PreOrder[nodes[n].left] \o PreOrder[nodes[n].right]
PlanEarly(root) == Tasks(PreOrder[root])

Plan(root) == Tasks(PostOrder[root])

(* The limit is checked when the count grows; a single literal has no plan.*)
MakePlan ==
    /\ stage = "building" /\ pos > Len(tokens) /\ ops = <<>>
    /\ IF Len(operands) # 1 \/ Len(Plan(operands[1])) > MaxTasks THEN Reject
       ELSE /\ plan' = Plan(operands[1])
            /\ stage' = "planned"
            /\ UNCHANGED <<raw, pos, tokens, nodes, operands, ops>>

ParserNext == Validate \/ Scan \/ EndScan \/ Feed \/ Drain \/ MakePlan

ParserSpec == ParserInit /\ [][ParserNext]_parserVars

-----------------------------------------------------------------------------
TaskArgs(t) == {a.task : a \in {x \in {t.arg1, t.arg2} : "task" \in DOMAIN x}}

(* What the rest of the system assumes of a plan (module Plan): every task *)
(* is a binary operation, tasks come after the tasks they wait for, every  *)
(* task but the last, the root, is waited for by exactly one other, and    *)
(* unmet counts those waited for.                                          *)
IsTree(p) ==
    \A i \in DOMAIN p :
        /\ p[i].op \in Binary
        /\ \A j \in TaskArgs(p[i]) : j \in DOMAIN p /\ j < i
        /\ p[i].unmet = Cardinality(TaskArgs(p[i]))
        /\ i < Len(p) => Cardinality({j \in DOMAIN p : i \in TaskArgs(p[j])}) = 1

PlanIsATree == stage = "planned" => IsTree(plan)

(* The syntax tree below a node, and the one a task of the plan computes.  *)
Tree[n \in DOMAIN nodes] ==
    IF IsLeaf(n) THEN nodes[n] ELSE Node(nodes[n].op, Tree[nodes[n].left], Tree[nodes[n].right])

Computed[i \in DOMAIN plan] ==
    LET Side(a) == IF "literal" \in DOMAIN a THEN Leaf(a.literal) ELSE Computed[a.task]
    IN  Node(plan[i].op, Side(plan[i].arg1), Side(plan[i].arg2))

(* The last task computes the tree that was parsed; there is none, and the *)
(* answer is immediate, exactly when that tree is a single literal.        *)
PlanComputesTheTree ==
    stage = "planned" => IF IsLeaf(operands[1]) THEN plan = <<>>
                         ELSE plan # <<>> /\ Computed[Len(plan)] = Tree[operands[1]]
=============================================================================
