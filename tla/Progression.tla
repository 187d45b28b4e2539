----------------------------- MODULE Progression ----------------------------
(***************************************************************************)
(* Progression, acceptance and base winning of formulas (synthesis.cpp)    *)
(* and the ternary tests that shrink an edge (generalizer.cpp).  An edge   *)
(* is a set of literals; a literal of an atom that the edge leaves out is  *)
(* read as false in either polarity.                                       *)
(***************************************************************************)
EXTENDS Formula

-----------------------------------------------------------------------------
(* Edges.                                                                  *)

RECURSIVE AtomsOf(_)
AtomsOf(f) ==
  IF oper(f) = "atom" THEN {f[2]}
  ELSE UNION {AtomsOf(f[i]) : i \in 2 .. Len(f)}

(* The edge that gives the atoms over the values of letter.                *)
Edge(letter, over) ==
  {Atom(a) : a \in letter} \cup {Not(Atom(a)) : a \in over \ letter}

-----------------------------------------------------------------------------
(* synthesis.cpp.                                                          *)

Both(a, b) ==
  IF a = False \/ b = False THEN False
  ELSE IF a = True THEN b ELSE IF b = True THEN a ELSE And(a, b)
Either(a, b) ==
  IF a = True \/ b = True THEN True
  ELSE IF a = False THEN b ELSE IF b = False THEN a ELSE Or(a, b)

(* The cases of an until f and of a release f, whose sides progress to l   *)
(* and r.                                                                  *)
(* (Mutant: the until itself is not kept.)                                 *)
UntilStep_Forgets(f, l, r) == Either(r, l)
UntilStep(f, l, r) == IF l = True /\ r = f[3] /\ r # True THEN f ELSE Either(r, Both(l, f))
(* (Mutant: the left side never releases.)                                 *)
ReleaseStep_NotLeft(f, l, r) == Both(r, f)
ReleaseStep(f, l, r) == Both(r, Either(l, f))

RECURSIVE FormulaProgression(_, _)
FormulaProgression(f, edge) ==
  LET l == FormulaProgression(f[2], edge)
      r == FormulaProgression(f[3], edge)
  IN CASE oper(f) \in {"True", "False"} -> f
       [] oper(f) = "And" -> Both(l, r)
       [] oper(f) = "Or" -> Either(l, r)
       [] oper(f) \in {"Not", "atom"} -> IF f \in edge THEN True ELSE False
       [] oper(f) \in {"Next", "WNext"} -> f[2]
       [] oper(f) = "Until" -> UntilStep(f, l, r)
       [] oper(f) = "Release" -> ReleaseStep(f, l, r)

(* IsAcc and BaseWinningAtY: the edge may end the play.                    *)
RECURSIVE BaseWinningAtY(_, _)
BaseWinningAtY(f, Y) ==
  CASE oper(f) \in {"True", "WNext"} -> TRUE
    [] oper(f) \in {"False", "Next"} -> FALSE
    [] oper(f) = "And" -> BaseWinningAtY(f[2], Y) /\ BaseWinningAtY(f[3], Y)
    [] oper(f) = "Or" -> BaseWinningAtY(f[2], Y) \/ BaseWinningAtY(f[3], Y)
    [] oper(f) \in {"Not", "atom"} -> f \in Y
    [] oper(f) \in {"Until", "Release"} -> BaseWinningAtY(f[3], Y)
(* (Mutant: the left side of a release decides.)                           *)
IsAcc_ReleaseLeft(f, edge) ==
  IF oper(f) = "Release" THEN BaseWinningAtY(f[2], edge) ELSE BaseWinningAtY(f, edge)
IsAcc(f, edge) == BaseWinningAtY(f, edge)

(* xnf has no caller at present; InitBdd4LTLf has a branch for its result. *)
RECURSIVE xnf(_)
xnf(f) ==
  CASE oper(f) \in {"And", "Or"} -> <<oper(f), xnf(f[2]), xnf(f[3])>>
    [] oper(f) = "Until" -> Or(xnf(f[3]), And(xnf(f[2]), StrongNext(f)))
    [] oper(f) = "Release" -> And(xnf(f[3]), Or(xnf(f[2]), WeakNext(f)))
    [] OTHER -> f

-----------------------------------------------------------------------------
(* generalizer.cpp.                                                        *)

Calculate(op, l, r) ==
  LET unit == IF op = "And" THEN "Tt" ELSE "Ff"
      zero == IF op = "And" THEN "Ff" ELSE "Tt"
  IN IF l = unit THEN r
     ELSE IF r = unit THEN l
     ELSE IF zero \in {l, r} THEN zero
     ELSE IF "Undefined" \in {l, r} THEN "Undefined" ELSE "Valued"

Complement(lit) == IF oper(lit) = "Not" THEN lit[2] ELSE Not(lit)

LiteralValue(lit, edge, gone, tested) ==
  IF tested \in {lit, Complement(lit)} \/ {lit, Complement(lit)} \cap gone # {}
  THEN "Undefined"
  ELSE IF lit \in edge THEN "Tt" ELSE "Ff"

RECURSIVE TestFprog(_, _, _, _), TestAcc(_, _, _, _)
TestFprog(f, edge, gone, lit) ==
  LET l == TestFprog(f[2], edge, gone, lit)
      r == TestFprog(f[3], edge, gone, lit)
  IN CASE f = True -> "Tt"
       [] f = False -> "Ff"
       [] oper(f) \in {"And", "Or"} -> Calculate(oper(f), l, r)
       [] oper(f) \in {"Next", "WNext"} -> "Valued"
       [] oper(f) \in {"Not", "atom"} -> LiteralValue(f, edge, gone, lit)
       [] oper(f) = "Until" -> Calculate("Or", r, Calculate("And", l, "Valued"))
       [] oper(f) = "Release" -> Calculate("And", r, Calculate("Or", l, "Valued"))

TestAcc(f, edge, gone, lit) ==
  CASE oper(f) \in {"True", "WNext"} -> "Tt"
    [] oper(f) \in {"False", "Next"} -> "Ff"
    [] oper(f) \in {"And", "Or"} ->
         Calculate(oper(f), TestAcc(f[2], edge, gone, lit), TestAcc(f[3], edge, gone, lit))
    [] oper(f) \in {"Not", "atom"} -> LiteralValue(f, edge, gone, lit)
    [] oper(f) \in {"Until", "Release"} -> TestAcc(f[3], edge, gone, lit)

(* CheckCompleteY (no caller at present): whether the outputs Y alone      *)
(* decide that the next state is not False.                                *)
RECURSIVE CheckCompleteY(_, _)
CheckCompleteY(f, Y) ==
  CASE oper(f) \in {"True", "Next", "WNext"} -> "Tt"
    [] oper(f) = "False" -> "Ff"
    [] oper(f) = "And" -> Calculate("And", CheckCompleteY(f[2], Y), CheckCompleteY(f[3], Y))
    [] oper(f) \in {"Or", "Until"} ->
         Calculate("Or", CheckCompleteY(f[2], Y), CheckCompleteY(f[3], Y))
    [] oper(f) \in {"Not", "atom"} ->
         IF f \in Y THEN "Tt" ELSE IF Complement(f) \in Y THEN "Ff" ELSE "Undefined"
    [] oper(f) = "Release" -> CheckCompleteY(f[3], Y)

(* The value of a literal of the edge, those in gone and lit left open; a  *)
(* literal that the edge does not give is false.                           *)
RECURSIVE TestIncompleteY(_, _, _, _)
TestIncompleteY(f, edge, gone, lit) ==
  CASE oper(f) \in {"True", "Next", "WNext"} -> "Tt"
    [] oper(f) = "False" -> "Ff"
    [] oper(f) \in {"And", "Or", "Until"} ->
         Calculate(IF oper(f) = "And" THEN "And" ELSE "Or",
                   TestIncompleteY(f[2], edge, gone, lit), TestIncompleteY(f[3], edge, gone, lit))
    [] oper(f) \in {"Not", "atom"} ->
         IF f \in {lit, Complement(lit)} \cup gone THEN "Undefined"
         ELSE IF f \in edge THEN "Tt" ELSE "Ff"
    [] oper(f) = "Release" -> TestIncompleteY(f[3], edge, gone, lit)
=============================================================================
