---------------------------- MODULE MC_ExprParse ----------------------------
(* Source expressions for ExprParse: every tree of up to two operators    *)
(* over the identifiers a and b, with the operators drawn from each        *)
(* precedence level the reference lists, assignment targets restricted to *)
(* left-hand sides.                                                        *)
EXTENDS ExprParse

Leaves == {Leaf("a"), Leaf("b")}
LValue(t) == t.k \in {"id", "prop", "elt"}

(* One step of tree building over the operand sets L and R.                *)
Grow(L, R) ==
    {Bin(o, l, r) : o \in {"||", "&&", "==", "<", "+", "-", "*"}, l \in L, r \in R}
    \cup {Bin(o, l, r) : o \in {"=", "+="}, l \in {x \in L : LValue(x)}, r \in R}
    \cup {Un(o, e) : o \in {"-", "!"}, e \in L}
    \cup {Post(e) : e \in {x \in L : LValue(x)}}
    \cup {CondT(c, t, e) : c \in L, t \in R, e \in R}
    \cup {Call(Leaf("f"), <<>>)}
    \cup {Call(Leaf("f"), <<x>>) : x \in L}
    \cup {Call(Leaf("f"), <<x, y>>) : x \in L, y \in Leaves}
    \cup {Prop(o, "c") : o \in L}
    \cup {Elt(o, i) : o \in L, i \in R}
    \cup {NewT(Leaf("f"), <<>>), NewBare(Leaf("f"))} \cup {NewT(Leaf("f"), <<x>>) : x \in L}
    \cup {ArrT(<<>>)} \cup {ArrT(<<x>>) : x \in L} \cup {ArrT(<<x, y>>) : x \in L, y \in Leaves}
    \cup {ObjT(<<[n |-> "a", v |-> x]>>) : x \in L}
    \cup {ObjT(<<[n |-> "a", v |-> x], [n |-> "b", v |-> y]>>) : x \in L, y \in Leaves}

T1 == Leaves \cup Grow(Leaves, Leaves)
T2 == Grow(T1, Leaves) \cup Grow(Leaves, T1)

(* A ternary whose condition is a binary expression: spec 4.3.4 does not  *)
(* place ?: in its precedence list, and expression() applies it to the     *)
(* operand parsed last.                                                    *)
BinaryCondition(t) == t.k = "cond" /\ t.c.k = "bin"

(* A call, index or member whose object is parenthesised: arithmeticPrimary *)
(* returns after ( expression ) without the suffix loop.                   *)
ParenSuffix(t) == t.k \in {"call", "prop", "elt"} /\ SrcPrec(t[IF t.k = "call" THEN "f" ELSE "o"]) < LhsPrec

RECURSIVE Somewhere(_, _)
Somewhere(P(_), t) ==
    \/ P(t)
    \/ \E f \in {"l", "r", "e", "c", "t", "o", "i", "f"} \cap DOMAIN t : Somewhere(P, t[f])
    \/ "args" \in DOMAIN t /\ \E i \in DOMAIN t.args : Somewhere(P, t.args[i])
    \/ "es" \in DOMAIN t /\ \E i \in DOMAIN t.es : Somewhere(P, t.es[i])
    \/ "ps" \in DOMAIN t /\ \E i \in DOMAIN t.ps : Somewhere(P, t.ps[i].v)

MCTrees == {t \in T2 : ~Somewhere(BinaryCondition, t) /\ ~Somewhere(ParenSuffix, t)}
TernaryTrees == {CondT(Bin(o, Leaf("a"), Leaf("b")), Leaf("a"), Leaf("b")) : o \in {"+", "||"}}
ParenSuffixTrees == {Prop(Bin("+", Leaf("a"), Leaf("b")), "c"), Call(Prop(Leaf("a"), "c"), <<>>)}
(* new applied to a member: memberExpression takes only a primary after   *)
(* new, and the member suffix applies to the new object.                   *)
NewMemberTrees == {NewT(Prop(Leaf("a"), "c"), <<>>)}

(* The three expression divergences.                                       *)
DivergentTrees == TernaryTrees \cup ParenSuffixTrees \cup NewMemberTrees
=============================================================================
