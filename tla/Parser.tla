------------------------------- MODULE Parser -------------------------------
(***************************************************************************)
(* The parser behind getAST: the automaton that ltlparser.c runs, with its *)
(* tables, over the tokens of the lexer.                                   *)
(*                                                                         *)
(* A token is <<"LPAREN">>, <<"RPAREN">>, an operator or a constant as in  *)
(* a tree, or <<"atom", a>>.  The value of a variable token is yytext, a   *)
(* pointer into the buffer of the lexer, which cuts the name off only      *)
(* until it reads the next token; here it is the position of the token.    *)
(*                                                                         *)
(* Abstracted: the characters a token is made of, and the growth of the    *)
(* parser's stacks.                                                        *)
(***************************************************************************)
EXTENDS Ltlf, Integers

VARIABLES
  input,     \* the tokens of the text
  lexed,     \* how many of them were read
  yychar,    \* the lookahead token's number, or YYEMPTY
  yyss,      \* the stack of states
  yyvs,      \* the stack of values
  formula    \* the result, or NoTree
parser == <<input, lexed, yychar, yyss, yyvs, formula>>

NoTree == <<"none">>
YYEMPTY == -2
YYFINAL == 18
YYLAST == 60
YYNTOKENS == 20

-----------------------------------------------------------------------------
(* The tables; At counts from 0.                                           *)

At(table, i) == table[i + 1]

yypact ==
  <<16, 16, 16, 16, 16, 16, -4, -4, 16, -4, 8, 33, -4, -4, -4, -4, -4, 7, -4, 16,
    16, 16, 16, 16, 16, 16, -4, 39, 44, 48, 51, -3, 0, -4>>
yydefact ==
  <<0, 0, 0, 0, 0, 0, 4, 5, 0, 3, 0, 2, 14, 15, 16, 17, 18, 0, 1, 0,
    0, 0, 0, 0, 0, 0, 6, 7, 8, 9, 10, 11, 12, 13>>
yypgoto == <<-4, -4, -1>>
yydefgoto == <<-1, 10, 11>>
yytable ==
  <<12, 13, 14, 15, 16, 24, 25, 17, 18, 25, 19, 20, 21, 22, 23, 24, 25, 0, 27, 28,
    29, 30, 31, 32, 33, 26, 1, 2, 3, 4, 5, 6, 7, 8, 0, 9, 19, 20, 21, 22,
    23, 24, 25, 20, 21, 22, 23, 24, 25, 21, 22, 23, 24, 25, 22, 23, 24, 25, 23, 24, 25>>
yycheck ==
  <<1, 2, 3, 4, 5, 8, 9, 8, 0, 9, 3, 4, 5, 6, 7, 8, 9, -1, 19, 20,
    21, 22, 23, 24, 25, 18, 10, 11, 12, 13, 14, 15, 16, 17, -1, 19, 3, 4, 5, 6,
    7, 8, 9, 4, 5, 6, 7, 8, 9, 5, 6, 7, 8, 9, 6, 7, 8, 9, 7, 8, 9>>
yyr1 == <<0, 20, 21>> \o [i \in 1 .. 16 |-> 22]
yyr2 == <<0, 2, 1, 1, 1, 1, 3, 3, 3, 3, 3, 3, 3, 3, 2, 2, 2, 2, 2>>

(* The number of a token, and of the rule for an operator (less four).     *)
Tokens ==
  <<"$end", "error", "$undefined", "Equiv", "Implies", "Or", "And", "Release", "Until", "WUntil",
    "Future", "Globally", "Next", "WNext", "Not", "True", "False", "LPAREN", "RPAREN", "atom">>
NumberOf(token) == CHOOSE n \in 0 .. 19 : At(Tokens, n) = oper(token)

-----------------------------------------------------------------------------
yystate == yyss[Len(yyss)]

(* A state that reduces without a look at the next token.                  *)
(* (Mutant: the next token is read in every state.)                        *)
IsDefault_Never(s) == FALSE
IsDefault(s) == At(yypact, s) = -4

Looks == yystate # YYFINAL /\ ~ IsDefault(yystate)

(* What the tables say of the state and the lookahead: to shift, if the    *)
(* entry is theirs; otherwise the default.                                 *)
Entry == At(yypact, yystate) + yychar
HasEntry == Entry \in 0 .. YYLAST /\ At(yycheck, Entry) = yychar

(* yylex.                                                                  *)
ReadToken ==
  /\ Looks /\ yychar = YYEMPTY
  /\ lexed' = lexed + 1
  /\ yychar' = IF lexed < Len(input) THEN NumberOf(input[lexed + 1]) ELSE 0
  /\ UNCHANGED <<input, yyss, yyvs, formula>>

Shift ==
  /\ Looks /\ yychar # YYEMPTY /\ HasEntry
  /\ yyss' = Append(yyss, At(yytable, Entry))
  /\ yyvs' = Append(yyvs, lexed)
  /\ yychar' = YYEMPTY
  /\ UNCHANGED <<input, lexed, formula>>

(* create_var: the name is read from the lexer's buffer.                   *)
create_var(position) ==
  IF position = lexed THEN input[position] ELSE Atom("the rest of the text")

(* The value of a rule's right side.                                       *)
ValueOf(rule, rhs) ==
  CASE rule = 2 -> rhs[1]
    [] rule = 3 -> create_var(rhs[1])
    [] rule = 4 -> True
    [] rule = 5 -> False
    [] rule = 6 -> rhs[2]
    [] rule \in 7 .. 13 -> <<At(Tokens, rule - 4), rhs[1], rhs[3]>>
    [] rule \in 14 .. 18 -> <<At(Tokens, rule - 4), rhs[2]>>

Goto(rule, top) ==
  LET nonterminal == At(yyr1, rule) - YYNTOKENS
      entry == At(yypgoto, nonterminal) + top
  IN IF entry \in 0 .. YYLAST /\ At(yycheck, entry) = top
     THEN At(yytable, entry) ELSE At(yydefgoto, nonterminal)

Chosen == ~ IsDefault(yystate) => yychar # YYEMPTY /\ ~ HasEntry

Reduce ==
  LET rule == At(yydefact, yystate)
      below == Len(yyvs) - At(yyr2, rule)
      value == ValueOf(rule, SubSeq(yyvs, below + 1, Len(yyvs)))
  IN /\ yystate # YYFINAL /\ Chosen /\ rule # 0
     /\ yyss' = Append(SubSeq(yyss, 1, below + 1), Goto(rule, yyss[below + 1]))
     /\ yyvs' = Append(SubSeq(yyvs, 1, below), value)
     /\ formula' = IF rule = 2 THEN value ELSE formula
     /\ UNCHANGED <<input, lexed, yychar>>

ParserInit(text) ==
  /\ input = text /\ lexed = 0 /\ yychar = YYEMPTY
  /\ yyss = <<0>> /\ yyvs = <<>> /\ formula = NoTree

ParserStep == ReadToken \/ Shift \/ Reduce

Accepted == yystate = YYFINAL
SyntaxError == yystate # YYFINAL /\ Chosen /\ At(yydefact, yystate) = 0

(* getAST destroys the lexer and the parser's stacks.                      *)
Destroyed ==
  /\ input' = <<>> /\ lexed' = 0 /\ yychar' = YYEMPTY
  /\ yyss' = <<0>> /\ yyvs' = <<>>
=============================================================================
