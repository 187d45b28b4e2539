------------------------------ MODULE Rewriting -----------------------------
(***************************************************************************)
(* From the text of a formula to what is used of it.  main and             *)
(* is_realizable parse the text and run nnf, simplify and split_next (the  *)
(* game's formula); the checkers and the generaliser also run add_tail and *)
(* remove_wnext before simplify (the checker's formula).                   *)
(***************************************************************************)
EXTENDS Translation, Parser

CONSTANTS Trees,      \* the trees the users write
          Misspelt,   \* trees they write with a parenthesis too few
          Words       \* the finite words the results are compared on

VARIABLES tree,       \* the tree the user wrote, or NoTree
          af,         \* the formula after the passes made so far
          passes      \* the names of those passes, in order
vars == <<tree, parser, af, passes>>

-----------------------------------------------------------------------------
(* What users write: parentheses around every operation, or only where the *)
(* precedences that ltlparser.y declares ask for them.                     *)

Paren(text) == <<<<"LPAREN">>>> \o text \o <<<<"RPAREN">>>>
Leaf(t) == oper(t) \in {"True", "False", "atom"}
Unary(t) == Len(t) = 2 /\ ~ Leaf(t)

RECURSIVE Full(_), Short(_)
Full(t) ==
  CASE Leaf(t) -> <<t>>
    [] Unary(t) -> Paren(<<<<oper(t)>>>> \o Full(t[2]))
    [] OTHER -> Paren(Full(t[2]) \o <<<<oper(t)>>>> \o Full(t[3]))

Binding == <<"Equiv", "Implies", "Or", "And", "Release", "Until", "WUntil">>
Precedence(t) ==
  IF Leaf(t) \/ Unary(t) THEN 8 ELSE CHOOSE n \in 1 .. 7 : Binding[n] = oper(t)
ShortAbove(t, n) == IF Precedence(t) > n THEN Short(t) ELSE Paren(Short(t))
Short(t) ==
  CASE Leaf(t) -> <<t>>
    [] Unary(t) -> <<<<oper(t)>>>> \o ShortAbove(t[2], 7)
    [] OTHER -> ShortAbove(t[2], Precedence(t) - 1) \o <<<<oper(t)>>>> \o ShortAbove(t[3], Precedence(t))

Without(text, i) == SubSeq(text, 1, i - 1) \o SubSeq(text, i + 1, Len(text))

-----------------------------------------------------------------------------
Pass(name, result) ==
  /\ af' = result
  /\ passes' = Append(passes, name)
  /\ UNCHANGED <<tree, parser>>

HasTail == \E i \in 1 .. Len(passes) : passes[i] = "add_tail"
After(name) == passes # <<>> /\ passes[Len(passes)] = name

Init ==
  /\ \/ \E t \in Trees : /\ tree = t
                         /\ \E text \in {Full(t), Short(t)} : ParserInit(text)
     \/ /\ tree = NoTree
        /\ \E t \in Misspelt : \E i \in 1 .. Len(Full(t)) :
             /\ Full(t)[i] \in {<<"LPAREN">>, <<"RPAREN">>}
             /\ ParserInit(Without(Full(t), i))
  /\ af = NoTree
  /\ passes = <<>>

(* yyparse.                                                                *)
Parse ==
  /\ passes = <<>> /\ ParserStep
  /\ UNCHANGED <<tree, af, passes>>

(* yyerror ends the program.                                               *)
Exit ==
  /\ passes = <<>> /\ SyntaxError
  /\ passes' = <<"exit">>
  /\ UNCHANGED <<tree, parser, af>>

(* The constructor of aalta_formula: getAST returns, build makes its own    *)
(* formula of the tree, and the tree is destroyed.                         *)
Build ==
  /\ passes = <<>> /\ Accepted /\ Destroyed
  /\ af' = build(formula, FALSE)
  /\ passes' = <<"build">>
  /\ formula' = NoTree
  /\ UNCHANGED tree

NNF == After("build") /\ Pass("nnf", nnf(af))
AddTail == After("nnf") /\ Pass("add_tail", add_tail(af))
RemoveWNext == After("add_tail") /\ Pass("remove_wnext", remove_wnext(af))
Simplify == (After("nnf") \/ After("remove_wnext")) /\ Pass("simplify", simplify(af))
SplitNext == After("simplify") /\ Pass("split_next", split_next(af))

Next ==
  \/ Parse \/ Exit \/ Build
  \/ NNF \/ AddTail \/ RemoveWNext \/ Simplify \/ SplitNext
Spec == Init /\ [][Next]_vars

-----------------------------------------------------------------------------
(* Properties.                                                             *)

(* The parser returns the tree the user wrote, with the names of all its   *)
(* variables, however many of the parentheses that the precedences make    *)
(* unnecessary are left out; it refuses a text if and only if a            *)
(* parenthesis is missing.                                                 *)
TreesAsWritten ==
  /\ Accepted => formula = tree
  /\ passes = <<"exit">> => tree = NoTree

(* No pass changes the language: the formula holds on exactly the finite   *)
(* words the user's formula holds on, once the end of the word is marked.  *)
(* This is what build, nnf, add_tail, remove_wnext, simplify (with its two *)
(* dozen rewrite rules) and split_next each have to preserve.  And nnf of  *)
(* the negated formula, by which process_signal blocks an edge, holds on   *)
(* exactly the other words.                                                *)
SameLanguage ==
  passes # <<>> /\ passes # <<"exit">> =>
  LET opposite == IF After("nnf") THEN nnf(Not(af)) ELSE Not(af)
  IN \A w \in Words :
       /\ Holds(w, 1, tree) <=> Holds(MarkEnd(w), 1, af)
       /\ Holds(w, 1, tree) <=> ~ Holds(MarkEnd(w), 1, opposite)

(* The checker's formula may be evaluated on a word that holds Tail too    *)
(* early: the checkers stop at the first Tail, so the word up to there     *)
(* must satisfy the user's formula.                                        *)
MarkAt(w, T) == [i \in 1 .. Len(w) |-> IF i \in T THEN w[i] \cup {"Tail"} ELSE w[i]]

FirstTailEnds ==
  HasTail => \A w \in Words : \A T \in (SUBSET (1 .. Len(w))) \ {{}} :
    LET end == CHOOSE i \in T : \A j \in T : i <= j
    IN Holds(MarkAt(w, T), 1, af) <=> Holds(SubSeq(w, 1, end), 1, tree)

(* The formula the solver encodes has no weak next (the assertion of       *)
(* add_clauses_for) and negation only before atoms; and nothing but        *)
(* literals, temporal operators and constants is left below a next: there  *)
(* is one variable for each next, and only conjunctions of such parts are  *)
(* states (to_set).                                                        *)
Encodable ==
  After("split_next") =>
    \A f \in Subformulas(af) :
      /\ HasTail => oper(f) # "WNext"
      /\ oper(f) = "Not" => oper(f[2]) = "atom"
      /\ oper(f) \in {"Next", "WNext"} => oper(f[2]) \notin {"And", "Or"}

(* Every translation of a user's formula has the formula's words:          *)
(*  - the normal forms of utility.cpp hold on the same words;              *)
(*  - the SMV system has a run to Tail over exactly these words, in either *)
(*    normal form and either encoding;                                     *)
(*  - the LTL formulas hold on exactly the infinite words that follow such *)
(*    a word with Tail, whatever comes after its end;                      *)
(*  - along the word read from its end, the truth of the subformulas is    *)
(*    the only run of the system of cosafety2smv from where it starts.     *)
(* It is asked of the formulas the translations are right for: no weak     *)
(* next or weak until at all, no negated next or release in nnf, and no    *)
(* temporal operator on the left of an until or release in the translation *)
(* of aalta_formula.                                                       *)
RECURSIVE Parts(_)
Parts(t) ==
  {t} \cup (IF oper(t) \in {"True", "False", "atom"} THEN {} ELSE UNION {Parts(t[i]) : i \in 2 .. Len(t)})
Uses(t, ops) == \E g \in Parts(t) : oper(g) \in ops
Temporals == {"Next", "WNext", "Until", "Release"}

Translatable == ~ Uses(tree, {"WNext", "WUntil"})
NnfTranslatable ==
  ~ Uses(tree_nnf(tree), {"WNext"}) /\ ~ (Uses(tree, {"Release"}) /\ Uses(tree, {"Not", "Implies", "Equiv"}))
AfTranslatable(f) ==
  \A g \in Parts(f) : /\ oper(g) # "WNext"
                      /\ oper(g) \in {"Until", "Release"} => ~ Uses(g[2], Temporals)

ReadsBackwards(f, w) ==
  LET true == [i \in 1 .. Len(w) |-> {g \in Subformulas(f) : Holds(w, i, g)}]
      nodes == CosafetyVars(f)
      Rules(s, t) == \A g \in nodes : cosafety2smv(g, s, t)
      Nodes(t) == \A g \in nodes : oper(g) \in {"And", "Or"} => cosafety2smv(g, t, t)
  IN \A i \in 1 .. (Len(w) - 1) : \A V \in SUBSET nodes :
       LET t == (true[i] \ nodes) \cup V
       IN Rules(true[i + 1], t) /\ Nodes(t) <=> t = true[i]

TranslationsExact ==
  After("nnf") /\ Translatable =>
    LET simple == bnf(tree)
        system == ltlf2smv(simple, "BNF", "fussy")
        normal == tree_nnf(tree)
    IN \A w \in Words :
         LET holds == Holds(w, 1, tree)
         IN /\ holds <=> Holds(w, 1, simple)
            /\ holds <=> HasRun(system, MarkEnd(w))
            /\ NnfTranslatable =>
                 /\ holds <=> Holds(w, 1, normal)
                 /\ \A encode \in {"fussy", "sloppy"} :
                      holds <=> HasRun(ltlf2smv(normal, "NNF", encode), MarkEnd(w))
            /\ \A after \in {{}, UNION {w[i] : i \in 1 .. Len(w)}} :
                 LET ended == Forever(w, after \cup {"Tail"})
                     alive == Forever(MarkAlive(w), after)
                 IN /\ holds <=> HoldsForever(ended, 1, ltlf2ltl_main(tree))
                    /\ holds <=> ~ HoldsForever(ended, 1, ltl2smvspec(tree))
                    /\ AfTranslatable(af) => (holds <=> HoldsForever(alive, 1, af_ltlf2ltl(af)))
            /\ is_cosafety(af) /\ ~ Uses(af, {"WNext"}) => ReadsBackwards(af, w)
=============================================================================
