----------------------------- MODULE ExprParse -----------------------------
(***************************************************************************)
(* The expression half of ParseEngine (src/src/ParseEngine.cpp): the       *)
(* operator table _opInfos, expression(minPrec) (precedence climbing with *)
(* the ternary and the short-circuit operators), arithmeticPrimary, and    *)
(* leftHandSideExpression with its call, index and property suffixes.      *)
(*                                                                         *)
(* The Parser's emit calls are modelled by the expression tree the emitted *)
(* code computes: each call pushes or combines entries of a stack of      *)
(* trees (the parser's operand stack).  emitDup copies the top entry,      *)
(* emitBinOp and emitUnOp combine, emitMove writes the top entry into the *)
(* one under it.  The jumps of && || and ?: are abstracted to the node     *)
(* their two paths compute (spec 4.3.4).                                   *)
(*                                                                         *)
(* The reference prints a tree with the fewest parentheses the precedence *)
(* list of spec 4.3.4 allows (the ternary as in JavaScript: its condition  *)
(* binds looser than every binary operator but assignment) and expects    *)
(* expression() to build that tree back.                                   *)
(***************************************************************************)
EXTENDS Integers, Sequences

The(S) == CHOOSE v \in S : TRUE
Bind(x, F(_)) == The({F(y) : y \in {x}})

(* Trees.                                                                  *)
Leaf(x) == [k |-> "id", x |-> x]
Bin(op, l, r) == [k |-> "bin", op |-> op, l |-> l, r |-> r]
Un(op, e) == [k |-> "un", op |-> op, e |-> e]
CondT(c, t, e) == [k |-> "cond", c |-> c, t |-> t, e |-> e]
Call(f, args) == [k |-> "call", f |-> f, args |-> args]
Prop(o, n) == [k |-> "prop", o |-> o, n |-> n]
Elt(o, i) == [k |-> "elt", o |-> o, i |-> i]
Post(e) == [k |-> "post", e |-> e]    \* a source e++
NewT(f, args) == [k |-> "new", f |-> f, args |-> args]
NewBare(f) == [k |-> "newbare", f |-> f]   \* a source new f, no parentheses
ArrT(es) == [k |-> "arr", es |-> es]
ObjT(ps) == [k |-> "obj", ps |-> ps]   \* ps: a sequence of [n, v]

Idents == {"a", "b", "c", "f"}

-----------------------------------------------------------------------------
(* _opInfos: token, precedence, associativity, is-store, opcode; searched *)
(* front to back by std::find.                                             *)
OpInfos == <<
    [tok |-> "=",    prec |-> 1,  assoc |-> "R", sto |-> FALSE, op |-> "MOVE"],
    [tok |-> "+=",   prec |-> 2,  assoc |-> "R", sto |-> TRUE,  op |-> "ADD"],
    [tok |-> "-=",   prec |-> 2,  assoc |-> "R", sto |-> TRUE,  op |-> "SUB"],
    [tok |-> "*=",   prec |-> 3,  assoc |-> "R", sto |-> TRUE,  op |-> "MUL"],
    [tok |-> "/=",   prec |-> 3,  assoc |-> "R", sto |-> TRUE,  op |-> "DIV"],
    [tok |-> "%=",   prec |-> 3,  assoc |-> "R", sto |-> TRUE,  op |-> "MOD"],
    [tok |-> "<<=",  prec |-> 4,  assoc |-> "R", sto |-> TRUE,  op |-> "SHL"],
    [tok |-> ">>=",  prec |-> 4,  assoc |-> "R", sto |-> TRUE,  op |-> "SHR"],
    [tok |-> ">>>=", prec |-> 4,  assoc |-> "R", sto |-> TRUE,  op |-> "SAR"],
    [tok |-> "&=",   prec |-> 5,  assoc |-> "R", sto |-> TRUE,  op |-> "AND"],
    [tok |-> "|=",   prec |-> 5,  assoc |-> "R", sto |-> TRUE,  op |-> "OR"],
    [tok |-> "^=",   prec |-> 5,  assoc |-> "R", sto |-> TRUE,  op |-> "XOR"],
    [tok |-> "||",   prec |-> 6,  assoc |-> "L", sto |-> FALSE, op |-> "LOR"],
    [tok |-> "&&",   prec |-> 7,  assoc |-> "L", sto |-> FALSE, op |-> "LAND"],
    [tok |-> "|",    prec |-> 8,  assoc |-> "L", sto |-> FALSE, op |-> "OR"],
    [tok |-> "^",    prec |-> 9,  assoc |-> "L", sto |-> FALSE, op |-> "XOR"],
    [tok |-> "==",   prec |-> 11, assoc |-> "L", sto |-> FALSE, op |-> "EQ"],
    [tok |-> "!=",   prec |-> 11, assoc |-> "L", sto |-> FALSE, op |-> "NE"],
    [tok |-> "<",    prec |-> 12, assoc |-> "L", sto |-> FALSE, op |-> "LT"],
    [tok |-> ">",    prec |-> 12, assoc |-> "L", sto |-> FALSE, op |-> "GT"],
    [tok |-> ">=",   prec |-> 12, assoc |-> "L", sto |-> FALSE, op |-> "GE"],
    [tok |-> "<=",   prec |-> 12, assoc |-> "L", sto |-> FALSE, op |-> "LE"],
    [tok |-> "<<",   prec |-> 13, assoc |-> "L", sto |-> FALSE, op |-> "SHL"],
    [tok |-> ">>",   prec |-> 13, assoc |-> "L", sto |-> FALSE, op |-> "SHR"],
    [tok |-> ">>>",  prec |-> 13, assoc |-> "L", sto |-> FALSE, op |-> "SAR"],
    [tok |-> "+",    prec |-> 14, assoc |-> "L", sto |-> FALSE, op |-> "ADD"],
    [tok |-> "-",    prec |-> 14, assoc |-> "L", sto |-> FALSE, op |-> "SUB"],
    [tok |-> "*",    prec |-> 15, assoc |-> "L", sto |-> FALSE, op |-> "MUL"],
    [tok |-> "/",    prec |-> 15, assoc |-> "L", sto |-> FALSE, op |-> "DIV"],
    [tok |-> "%",    prec |-> 15, assoc |-> "L", sto |-> FALSE, op |-> "MOD"] >>

(* The prefix operators of arithmeticPrimary.                              *)
UnaryOps == [t \in {"++", "--", "-", "~", "!"} |->
                CASE t = "++" -> "PREINC" [] t = "--" -> "PREDEC" [] t = "-" -> "UMINUS"
                  [] t = "~" -> "UNOT" [] t = "!" -> "UNEG"]

(* std::find over _opInfos: the first entry for the token, or 0 (endit).   *)
FindOp(t) == LET is == {i \in DOMAIN OpInfos : OpInfos[i].tok = t}
             IN  IF is = {} THEN 0 ELSE CHOOSE i \in is : \A j \in is : i <= j

-----------------------------------------------------------------------------
(* The parser state: tokens, position, the operand stack of trees, a      *)
(* syntax error reported, and the bool the last method returned.           *)
Tok(es) == IF es.pos <= Len(es.toks) THEN es.toks[es.pos] ELSE "EOF"
Retire(es) == [es EXCEPT !.pos = @ + 1]
Ok(es) == [es EXCEPT !.ok = TRUE]
NotOk(es) == [es EXCEPT !.ok = FALSE]
Expect(es, t) == IF Tok(es) = t THEN Retire(es) ELSE [es EXCEPT !.err = TRUE]
Fail(es) == [es EXCEPT !.err = TRUE, !.ok = FALSE]   \* expect(Expr, false); return false

Push(es, x) == [es EXCEPT !.st = Append(@, x)]
Top(es) == es.st[Len(es.st)]
PopN(es, n) == [es EXCEPT !.st = SubSeq(@, 1, Len(@) - n)]
Under(es) == es.st[Len(es.st) - 1]

EmitDup(es) == Push(es, Top(es))
EmitUnOp(es, op) == Push(PopN(es, 1), Un(op, Top(es)))
EmitBinOp(es, op) == Push(PopN(es, 2), Bin(op, Under(es), Top(es)))
EmitMove(es) == Push(PopN(es, 2), Bin("MOVE", Under(es), Top(es)))

-----------------------------------------------------------------------------
RECURSIVE Expression(_, _), ArithmeticPrimary(_), LeftHandSide(_),
          Suffixes(_), ArgumentList(_, _), OpLoop(_, _), Ternary(_),
          PrimaryExpression(_), MemberExpression(_), ArrayElements(_),
          PropertyAssignments(_)

(* emitLoadLit: an empty array or object; emitAppendElt and              *)
(* emitAppendProp add the value (and name) on top to the literal below.    *)
EmitLoadLit(es, array) == Push(es, IF array THEN ArrT(<<>>) ELSE ObjT(<<>>))
EmitAppendElt(es) ==
    Push(PopN(es, 2), [Under(es) EXCEPT !.es = Append(@, Top(es))])
EmitAppendProp(es) ==
    LET lit == es.st[Len(es.st) - 2] IN
    Push(PopN(es, 3), [lit EXCEPT !.ps = Append(@, [n |-> Under(es).x, v |-> Top(es)])])

(* propertyName: an identifier, pushed as a name (string and number       *)
(* names are not among the model's tokens).                                *)
PropertyName(es) ==
    IF Tok(es) \in Idents THEN Ok(Retire(Push(es, Leaf(Tok(es))))) ELSE NotOk(es)

(* propertyAssignment: name, then expect(Colon) && expect(Expr,            *)
(* expression()): a missing colon or value is reported and fails.          *)
PropertyAssignment(es) ==
    Bind(PropertyName(es), LAMBDA p :
      CASE ~p.ok -> p
        [] Tok(p) # ":" -> Fail(p)
        [] OTHER -> Bind(Expression(Retire(p), 1), LAMBDA q :
                      IF q.ok THEN q ELSE Fail(q)))

(* The element loop of an array literal: , expression emitAppendElt, until *)
(* an element fails (reported) or no comma follows.                        *)
ArrayElements(es) ==
    IF Tok(es) # "," THEN es
    ELSE Bind(Expression(Retire(es), 1), LAMBDA p :
           IF ~p.ok THEN Fail(p) ELSE ArrayElements(EmitAppendElt(p)))

(* The property loop of an object literal.                                 *)
PropertyAssignments(es) ==
    IF Tok(es) # "," THEN es
    ELSE Bind(PropertyAssignment(Retire(es)), LAMBDA p :
           IF ~p.ok THEN Fail(p) ELSE PropertyAssignments(EmitAppendProp(p)))

(* primaryExpression: identifiers and integers (emitId, pushK), and array  *)
(* and object literals.                                                    *)
PrimaryExpression(es) ==
    CASE Tok(es) \in Idents \cup {"1"} -> Ok(Retire(Push(es, Leaf(Tok(es)))))
      [] Tok(es) = "[" ->
           LET p0 == EmitLoadLit(Retire(es), TRUE) IN
           Bind(Expression(p0, 1), LAMBDA p :
             Ok(Expect(IF p.ok THEN ArrayElements(EmitAppendElt(p)) ELSE p0, "]")))
      [] Tok(es) = "{" ->
           LET p0 == EmitLoadLit(Retire(es), FALSE) IN
           Bind(PropertyAssignment(p0), LAMBDA p :
             Ok(Expect(IF p.ok THEN PropertyAssignments(EmitAppendProp(p)) ELSE p, "}")))
      [] OTHER -> NotOk(es)

(* memberExpression: new memberExpression with optional (arguments),       *)
(* emitCallRet(NEW), else primaryExpression.  Its function and class       *)
(* expression cases are not modelled (no such tokens in the model).        *)
MemberExpression(es) ==
    IF Tok(es) # "new" THEN PrimaryExpression(es)
    ELSE Bind(MemberExpression(Retire(es)), LAMBDA p :
           LET r == IF Tok(p) = "(" THEN ArgumentList(Retire(p), 0) ELSE [es |-> p, n |-> 0]
               q == IF Tok(p) = "(" THEN Expect(r.es, ")") ELSE p
               n == r.n
           IN  Ok(Push(PopN(q, n + 1),
                       NewT(q.st[Len(q.st) - n], SubSeq(q.st, Len(q.st) - n + 1, Len(q.st))))))

(* argumentList: expressions separated by commas, each emitPush'ed; the   *)
(* result is [es, n] with n the count.                                     *)
ArgumentList(es, n) ==
    IF n = 0
    THEN Bind(Expression(es, 1), LAMBDA p :
           IF p.ok THEN ArgumentList(p, 1) ELSE [es |-> p, n |-> 0])
    ELSE IF Tok(es) = ","
         THEN ArgumentList(Expression(Retire(es), 1), n + 1)
         ELSE [es |-> es, n |-> n]

(* Mutant: the property name retired twice before expect(Identifier).     *)
SuffixesMut(es) ==
    CASE Tok(es) = "(" ->
           Bind(ArgumentList(Retire(es), 0), LAMBDA r :
             Bind(Expect(r.es, ")"), LAMBDA p :
               Suffixes(Push(PopN(p, r.n + 1),
                             Call(p.st[Len(p.st) - r.n], SubSeq(p.st, Len(p.st) - r.n + 1, Len(p.st)))))))
      [] Tok(es) = "[" ->
           Bind(Expect(Expression(Retire(es), 1), "]"), LAMBDA p :
             Suffixes(Push(PopN(p, 2), Elt(Under(p), Top(p)))))
      [] Tok(es) = "." ->
           LET name == Tok(Retire(es))
               p == IF name \in Idents THEN Retire(Retire(Retire(es)))
                    ELSE [Retire(es) EXCEPT !.err = TRUE]
           IN  Suffixes(Push(PopN(p, 1), Prop(Top(p), name)))
      [] OTHER -> Ok(es)

(* The suffix loop of leftHandSideExpression: (args) emitCallRet(CALL),    *)
(* [expr] emitDeref(Elt), .name emitId + emitDeref(Prop).                  *)
Suffixes(es) ==
    CASE Tok(es) = "(" ->
           Bind(ArgumentList(Retire(es), 0), LAMBDA r :
             Bind(Expect(r.es, ")"), LAMBDA p :
               LET n == r.n
                   args == SubSeq(p.st, Len(p.st) - n + 1, Len(p.st))
               IN  Suffixes(Push(PopN(p, n + 1), Call(p.st[Len(p.st) - n], args)))))
      [] Tok(es) = "[" ->
           Bind(Expect(Expression(Retire(es), 1), "]"), LAMBDA p :
             Suffixes(Push(PopN(p, 2), Elt(Under(p), Top(p)))))
      [] Tok(es) = "." ->
           LET name == Tok(Retire(es))
               p == IF name \in Idents THEN Retire(Retire(es))
                    ELSE [Retire(es) EXCEPT !.err = TRUE]
           IN  Suffixes(Push(PopN(p, 1), Prop(Top(p), name)))
      [] OTHER -> Ok(es)

(* leftHandSideExpression: memberExpression, then its suffixes.           *)
LeftHandSide(es) ==
    Bind(MemberExpression(es), LAMBDA p : IF p.ok THEN Suffixes(p) ELSE p)

(* arithmeticPrimary: ( expression ), a prefix operator applied to an     *)
(* arithmeticPrimary, or a leftHandSideExpression with an optional postfix *)
(* ++ or --.                                                               *)
ArithmeticPrimary(es) ==
    CASE Tok(es) = "(" -> Ok(Expect(Expression(Retire(es), 1), ")"))
      [] Tok(es) \in DOMAIN UnaryOps ->
           Ok(EmitUnOp(ArithmeticPrimary(Retire(es)), UnaryOps[Tok(es)]))
      [] OTHER ->
           Bind(LeftHandSide(es), LAMBDA p :
             CASE ~p.ok -> p
               [] Tok(p) = "++" -> Ok(EmitUnOp(Retire(p), "POSTINC"))
               [] Tok(p) = "--" -> Ok(EmitUnOp(Retire(p), "POSTDEC"))
               [] OTHER -> Ok(p))

(* The ternary right after the first primary: JF else, pushTmp, the then   *)
(* expression moved into the temporary, JMP end, the else expression moved *)
(* into it: the node cond ? then : else.                                   *)
Ternary(es) ==
    IF Tok(es) # "?" THEN es
    ELSE Bind(Expression(Expect(Expression(Retire(es), 1), ":"), 1), LAMBDA p :
           IF Len(p.st) < 3 THEN [p EXCEPT !.err = TRUE]
           ELSE Push(PopN(p, 3), CondT(p.st[Len(p.st) - 2], Under(p), Top(p))))

(* Mutant: the right operand always parsed at the operator's own          *)
(* precedence, as if every operator were right associative.               *)
OpLoopMut(es, minPrec) ==
    LET i == FindOp(Tok(es)) IN
    IF i = 0 \/ OpInfos[(IF i = 0 THEN 1 ELSE i)].prec < minPrec THEN Ok(es)
    ELSE LET it == OpInfos[i]
             p1 == IF it.sto THEN EmitDup(Retire(es)) ELSE Retire(es)
         IN  Bind(Expression(p1, it.prec), LAMBDA r :
               IF ~r.ok THEN Fail(r)
               ELSE OpLoop(IF it.sto THEN EmitMove(EmitBinOp(r, it.op))
                           ELSE EmitBinOp(r, it.op), minPrec))

(* The operator loop of expression(minPrec): while the token is in         *)
(* _opInfos with prec >= minPrec, parse the right operand at prec + 1 (left *)
(* associative) or prec (right), then emitBinOp; a store operator is        *)
(* bracketed by emitDup and emitMove.  && and || also emitDup and jump      *)
(* over the right operand on the result the skip path stores; on the tree  *)
(* stack the dup is consumed by the jump and both paths leave the node.    *)
OpLoop(es, minPrec) ==
    LET i == FindOp(Tok(es)) IN
    IF i = 0 THEN Ok(es)
    ELSE IF OpInfos[i].prec < minPrec THEN Ok(es)
    ELSE LET it == OpInfos[i]
             nextMinPrec == IF it.assoc = "L" THEN it.prec + 1 ELSE it.prec
             p1 == IF it.sto THEN EmitDup(Retire(es)) ELSE Retire(es)
         IN  Bind(Expression(p1, nextMinPrec), LAMBDA r :
               IF ~r.ok THEN Fail(r)
               ELSE OpLoop(IF it.sto THEN EmitMove(EmitBinOp(r, it.op))
                           ELSE EmitBinOp(r, it.op), minPrec))

(* expression(minPrec).                                                    *)
Expression(es, minPrec) ==
    Bind(ArithmeticPrimary(es), LAMBDA p :
      IF ~p.ok THEN p ELSE OpLoop(Ternary(p), minPrec))

-----------------------------------------------------------------------------
(* The reference (spec 4.3.4).  Source trees carry the operator's token;  *)
(* SpecOps gives its place in the precedence list, its associativity, its  *)
(* opcode and whether it is a compound assignment.                         *)
SpecOps ==
    [t \in {"=", "+=", "||", "&&", "==", "<", "+", "-", "*"} |->
        CASE t = "="  -> [prec |-> 1,  assoc |-> "R", op |-> "MOVE", store |-> FALSE]
          [] t = "+=" -> [prec |-> 2,  assoc |-> "R", op |-> "ADD",  store |-> TRUE]
          [] t = "||" -> [prec |-> 6,  assoc |-> "L", op |-> "LOR",  store |-> FALSE]
          [] t = "&&" -> [prec |-> 7,  assoc |-> "L", op |-> "LAND", store |-> FALSE]
          [] t = "==" -> [prec |-> 11, assoc |-> "L", op |-> "EQ",   store |-> FALSE]
          [] t = "<"  -> [prec |-> 12, assoc |-> "L", op |-> "LT",   store |-> FALSE]
          [] t = "+"  -> [prec |-> 14, assoc |-> "L", op |-> "ADD",  store |-> FALSE]
          [] t = "-"  -> [prec |-> 14, assoc |-> "L", op |-> "SUB",  store |-> FALSE]
          [] t = "*"  -> [prec |-> 15, assoc |-> "L", op |-> "MUL",  store |-> FALSE]]

CondPrec == 5     \* a ternary binds looser than ||, tighter than nothing else
UnaryPrec == 16   \* prefix operators
LhsPrec == 18     \* primaries, calls, members

SrcPrec(t) ==
    CASE t.k = "bin" -> SpecOps[t.op].prec
      [] t.k = "cond" -> CondPrec
      [] t.k = "un" -> UnaryPrec
      [] t.k \in {"post", "newbare"} -> UnaryPrec + 1
      [] OTHER -> LhsPrec

RECURSIVE Render(_), RenderArgs(_), RenderProps(_)
Wrap(t, paren) == IF paren THEN <<"(">> \o Render(t) \o <<")">> ELSE Render(t)
RenderArgs(as) ==
    IF as = <<>> THEN <<>>
    ELSE Render(Head(as)) \o (IF Len(as) > 1 THEN <<",">> ELSE <<>>) \o RenderArgs(Tail(as))

RenderProps(ps) ==
    IF ps = <<>> THEN <<>>
    ELSE <<Head(ps).n, ":">> \o Render(Head(ps).v)
         \o (IF Len(ps) > 1 THEN <<",">> ELSE <<>>) \o RenderProps(Tail(ps))

(* The text of a tree with no parentheses but those its operators need.   *)
Render(t) ==
    CASE t.k = "id" -> <<t.x>>
      [] t.k = "un" -> <<t.op>> \o Wrap(t.e, SrcPrec(t.e) < UnaryPrec)
      [] t.k = "bin" ->
            LET p == SpecOps[t.op].prec
                a == SpecOps[t.op].assoc
            IN  Wrap(t.l, SrcPrec(t.l) < p \/ (SrcPrec(t.l) = p /\ a = "R"))
                \o <<t.op>>
                \o Wrap(t.r, SrcPrec(t.r) < p \/ (SrcPrec(t.r) = p /\ a = "L"))
      [] t.k = "cond" ->
            Wrap(t.c, SrcPrec(t.c) <= CondPrec) \o <<"?">> \o Render(t.t) \o <<":">> \o Render(t.e)
      [] t.k = "post" -> Wrap(t.e, SrcPrec(t.e) < LhsPrec) \o <<"++">>
      [] t.k = "new" -> <<"new">> \o Wrap(t.f, SrcPrec(t.f) < LhsPrec) \o <<"(">> \o RenderArgs(t.args) \o <<")">>
      [] t.k = "newbare" -> <<"new">> \o Wrap(t.f, SrcPrec(t.f) < LhsPrec)
      [] t.k = "arr" -> <<"[">> \o RenderArgs(t.es) \o <<"]">>
      [] t.k = "obj" -> <<"{">> \o RenderProps(t.ps) \o <<"}">>
      [] t.k = "call" -> Wrap(t.f, SrcPrec(t.f) < LhsPrec) \o <<"(">> \o RenderArgs(t.args) \o <<")">>
      [] t.k = "prop" -> Wrap(t.o, SrcPrec(t.o) < LhsPrec) \o <<".", t.n>>
      [] t.k = "elt" -> Wrap(t.o, SrcPrec(t.o) < LhsPrec) \o <<"[">> \o Render(t.i) \o <<"]">>

(* The tree the emitted code should compute: operators as opcodes, a      *)
(* compound assignment as the target DUP'ed, combined with the right-hand  *)
(* side and written back (spec 4.3.4).                                     *)
RECURSIVE Expected(_)
Expected(t) ==
    CASE t.k = "id" -> t
      [] t.k = "un" -> Un(UnaryOps[t.op], Expected(t.e))
      [] t.k = "bin" ->
            LET s == SpecOps[t.op] IN
            IF s.store THEN Bin("MOVE", Expected(t.l), Bin(s.op, Expected(t.l), Expected(t.r)))
            ELSE Bin(s.op, Expected(t.l), Expected(t.r))
      [] t.k = "post" -> Un("POSTINC", Expected(t.e))
      [] t.k = "cond" -> CondT(Expected(t.c), Expected(t.t), Expected(t.e))
      [] t.k = "call" -> Call(Expected(t.f), [i \in DOMAIN t.args |-> Expected(t.args[i])])
      [] t.k = "new" -> NewT(Expected(t.f), [i \in DOMAIN t.args |-> Expected(t.args[i])])
      [] t.k = "newbare" -> NewT(Expected(t.f), <<>>)
      [] t.k = "arr" -> ArrT([i \in DOMAIN t.es |-> Expected(t.es[i])])
      [] t.k = "obj" -> ObjT([i \in DOMAIN t.ps |-> [n |-> t.ps[i].n, v |-> Expected(t.ps[i].v)]])
      [] t.k = "prop" -> Prop(Expected(t.o), t.n)
      [] t.k = "elt" -> Elt(Expected(t.o), Expected(t.i))

-----------------------------------------------------------------------------
CONSTANT Trees    \* the source expressions to print and parse back

VARIABLES
    src,      \* the source tree
    phase,    \* "parse" or "done"
    es        \* the parser state after expression()

vars == <<src, phase, es>>

Start(toks) == [toks |-> toks, pos |-> 1, st |-> <<>>, err |-> FALSE, ok |-> TRUE]

Init ==
    /\ src \in Trees
    /\ phase = "parse"
    /\ es = Start(<<>>)

(* An expression statement's expression(): the text of the source tree,   *)
(* parsed from its first token.                                            *)
ParseExpression ==
    /\ phase = "parse"
    /\ es' = Expression(Start(Render(src)), 1)
    /\ phase' = "done"
    /\ UNCHANGED src

Next == ParseExpression

Spec == Init /\ [][Next]_vars

-----------------------------------------------------------------------------
(* Properties                                                              *)

(* The parser never reads past the end of the token stream.               *)
TypeOK ==
    /\ phase \in {"parse", "done"}
    /\ es.pos \in 1..Len(es.toks) + 1
    /\ es.err \in BOOLEAN /\ es.ok \in BOOLEAN

(* expression() builds back the tree it was given the text of: precedence  *)
(* and associativity as spec 4.3.4 lists them, calls, members and indexes  *)
(* binding tightest, prefix operators next, compound assignments as        *)
(* DUP/op/MOVE; it consumes the whole text and reports no error.           *)
ExpressionRoundTrip ==
    phase = "done" =>
        /\ es.ok /\ ~es.err
        /\ Tok(es) = "EOF"
        /\ es.st = <<Expected(src)>>
=============================================================================
