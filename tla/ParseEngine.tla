---------------------------- MODULE ParseEngine ----------------------------
(***************************************************************************)
(* The statement half of ParseEngine (src/src/ParseEngine.cpp): statement, *)
(* compoundStatement, selectionStatement, switchStatement,                 *)
(* iterationStatement with forLoopCondAndIt, and jumpStatement, as pure    *)
(* operators over a parser state; and the code they emit, run on a small   *)
(* model of the VM.                                                        *)
(*                                                                         *)
(* A parser state ps is a record:                                          *)
(*   toks, pos     the token stream and the current token (getToken)      *)
(*   main, dcode   the function's code and the deferred-code buffer       *)
(*   dblocks       start offsets of the open deferred blocks              *)
(*   deferred      whether emission goes to dcode                          *)
(*   brk, cnt      _breakStack and _continueStack: one sequence of labels  *)
(*                 per enclosing loop                                      *)
(*   err           an expect() failed (the parser reports a syntax error)  *)
(*   ub            Vector::back() was called on an empty label stack       *)
(*   ok            the bool the last statement method returned             *)
(*                                                                         *)
(* Parser (label, addMatchedJump, matchJump, jumpToLabel and the deferred  *)
(* regions) is not in the repository; it is modelled from spec 4.3 and     *)
(* 4.3.2: a label holds the address where it was taken and the address of *)
(* its matched jump; a jump holds an offset relative to itself; addresses *)
(* taken while deferred are offsets in dcode; emitDeferred moves the last *)
(* block of dcode to the end of main.  Expressions are single tokens       *)
(* (JsSemantics).                                                          *)
(***************************************************************************)
EXTENDS Integers, Sequences, SequencesExt, JsSemantics

CONSTANT Unpatched        \* the operand of a jump not yet matched (a model value)
Jumps == {"JMP", "JT", "JF"}

The(S) == CHOOSE v \in S : TRUE
Bind(x, F(_)) == The({F(y) : y \in {x}})

-----------------------------------------------------------------------------
(* Tokens                                                                  *)
Tok(ps) == IF ps.pos <= Len(ps.toks) THEN ps.toks[ps.pos] ELSE "EOF"
Retire(ps) == [ps EXCEPT !.pos = @ + 1]
Ok(ps) == [ps EXCEPT !.ok = TRUE]
NotOk(ps) == [ps EXCEPT !.ok = FALSE]

(* expect(token): retire it, or report it missing and carry on.            *)
Expect(ps, t) == IF Tok(ps) = t THEN Retire(ps) ELSE [ps EXCEPT !.err = TRUE]

(* Token::Identifier: the names the programs use.  NullAtom is Atom(),    *)
(* the name forIteration is given when there is no var.                   *)
IsIdent(t) == t \in {"v", "f", "C"}
NullAtom == ""
(* The well-known atoms of the iterator contract (NotLocal ids).           *)
IteratorAtoms == {"iterator", "done", "next"}
(* The literal tokens a class var may be initialised with.                 *)
Literals == Ints
ExpectIdent(ps) == IF IsIdent(Tok(ps)) THEN Retire(ps) ELSE [ps EXCEPT !.err = TRUE]

(* expect(token, expected, s): report unless expected.                     *)
ExpectIf(ps, expected) == IF expected THEN ps ELSE [ps EXCEPT !.err = TRUE]

-----------------------------------------------------------------------------
(* Emission and labels (Parser)                                            *)
Here(ps) == IF ps.deferred THEN Len(ps.dcode) ELSE Len(ps.main)
Emit(ps, ins) ==
    IF ps.deferred THEN [ps EXCEPT !.dcode = Append(@, ins)]
    ELSE [ps EXCEPT !.main = Append(@, ins)]
NewLabel(ps) == [label |-> Here(ps), matchedAddr |-> -1]
(* The label once addMatchedJump has recorded the jump it emits next.      *)
Matched(l, ps) == [l EXCEPT !.matchedAddr = Here(ps)]
AddMatchedJump(ps, op) == Emit(ps, <<op, Unpatched>>)
JumpToLabel(ps, op, l) == Emit(ps, <<op, l.label - Here(ps)>>)

(* matchJump(label, addr): set the offset of the jump at matchedAddr in the *)
(* buffer being emitted to; an address outside it, or one that holds no    *)
(* jump, is memory corruption.                                             *)
MatchJumpTo(ps, l, addr) ==
    LET buf == IF ps.deferred THEN ps.dcode ELSE ps.main
        a == l.matchedAddr + 1
        new == [buf EXCEPT ![a] = <<buf[a][1], addr - l.matchedAddr>>]
    IN  IF a \notin 1..Len(buf) \/ buf[a][1] \notin Jumps THEN [ps EXCEPT !.ub = TRUE]
        ELSE IF ps.deferred THEN [ps EXCEPT !.dcode = new] ELSE [ps EXCEPT !.main = new]
MatchJump(ps, l) == MatchJumpTo(ps, l, Here(ps))

RECURSIVE MatchAll(_, _)
MatchAll(ps, ls) == IF ls = <<>> THEN ps ELSE MatchAll(MatchJump(ps, Head(ls)), Tail(ls))

StartDeferred(ps) == [ps EXCEPT !.deferred = TRUE, !.dblocks = Append(@, Len(ps.dcode))]
ResumeDeferred(ps) == [ps EXCEPT !.deferred = TRUE]
EndDeferred(ps) == [ps EXCEPT !.deferred = FALSE]
EmitDeferred(ps) ==
    LET start == ps.dblocks[Len(ps.dblocks)]
    IN  [ps EXCEPT !.main = @ \o SubSeq(ps.dcode, start + 1, Len(ps.dcode)),
                   !.dcode = SubSeq(@, 1, start),
                   !.dblocks = SubSeq(@, 1, Len(@) - 1)]
DiscardResult(ps) == Emit(ps, <<"POP", 0>>)
EmitCaseTest(ps) == Emit(ps, <<"CASETEST", 0>>)
EmitId(ps, name) == Emit(ps, <<"ID", name>>)
(* emitId(atom, NotLocal): the property name, for a following emitDeref.  *)
EmitPushId(ps, atom) == Emit(ps, <<"PUSHID", atom>>)
EmitDup(ps) == Emit(ps, <<"DUP", 0>>)
EmitPush(ps) == Emit(ps, <<"PUSH", 0>>)
EmitDeref(ps) == Emit(ps, <<"DEREF", 0>>)
EmitCallRet(ps, op, n) == Emit(ps, <<op, n>>)
EmitMove(ps) == Emit(ps, <<"MOVE", 0>>)
(* functionStart / functionEnd: the enclosing function's code is set      *)
(* aside while the new one is emitted, and the finished one is kept.       *)
FunctionStart(ps, ctor) ==
    [ps EXCEPT !.fstack = Append(@, [code |-> ps.main, ctor |-> ps.ctor]),
               !.main = <<>>, !.ctor = ctor]
FunctionEnd(ps) == [ps EXCEPT !.funcs = Append(@, ps.main), !.main = Last(ps.fstack).code,
                              !.ctor = Last(ps.fstack).ctor, !.fstack = Front(@)]
PushThis(ps) == Emit(ps, <<"THIS", 0>>)
(* classStart / classEnd: a class collects its properties; when it ends   *)
(* the class object is loaded as the expression's value.                   *)
ClassStart(ps) == [ps EXCEPT !.cls = Append(@, <<>>)]
ClassEnd(ps) == Emit([ps EXCEPT !.cls = Front(@)], <<"CLASS", 0>>)
SetProperty(ps, name, v) == [ps EXCEPT !.cls[Len(ps.cls)] = Append(@, [name |-> name, v |-> v])]

(* Mut: any token taken for an expression.                                 *)
ExpressionMut(ps) == Ok(Retire(Emit(ps, <<"EXPR", Tok(ps)>>)))

(* expression(): one token, evaluated by an EXPR instruction; an          *)
(* identifier is loaded by emitId(name, MightBeLocal).                     *)
Expression(ps) ==
    CASE Tok(ps) \in ExprTokens -> Ok(Retire(Emit(ps, <<"EXPR", Tok(ps)>>)))
      [] IsIdent(Tok(ps)) -> Ok(Retire(EmitId(ps, Tok(ps))))
      [] OTHER -> NotOk(ps)

(* Open and close a loop's _breakStack / _continueStack entries.           *)
PushLoop(ps) == [ps EXCEPT !.brk = Append(@, <<>>), !.cnt = Append(@, <<>>)]
(* Mut: _continueStack not popped.                                        *)
PopLoopMut(ps) == [ps EXCEPT !.brk = SubSeq(@, 1, Len(@) - 1)]

PopLoop(ps) == [ps EXCEPT !.brk = SubSeq(@, 1, Len(@) - 1), !.cnt = SubSeq(@, 1, Len(@) - 1)]
Top(s) == s[Len(s)]

(* Mut: the loop's break statements left unresolved.                       *)
ResolveBreaksMut(ps) == ps

(* The end of iterationStatement: each label on _breakStack.back() matched *)
(* to the address after the loop.                                          *)
ResolveBreaks(ps) == MatchAll(ps, Top(ps.brk))
(* variableDeclaration: an identifier, and for "= expression" the local   *)
(* is loaded, the value stored into it (emitMove) and the result dropped. *)
(* A missing expression is reported and ends the list.                     *)
(* Mut: the stored value not discarded.                                    *)
VariableDeclarationMut(ps) ==
    IF ~IsIdent(Tok(ps)) THEN NotOk(ps)
    ELSE LET p1 == Retire(ps)
         IN  IF Tok(p1) # "=" THEN Ok(p1)
             ELSE Bind(Expression(EmitId(Retire(p1), Tok(ps))), LAMBDA p2 :
                    IF ~p2.ok THEN NotOk(ExpectIf(p2, FALSE))
                    ELSE Ok(EmitMove(p2)))

VariableDeclaration(ps) ==
    IF ~IsIdent(Tok(ps)) THEN NotOk(ps)
    ELSE LET p1 == Retire(ps)
         IN  IF Tok(p1) # "=" THEN Ok(p1)
             ELSE Bind(Expression(EmitId(Retire(p1), Tok(ps))), LAMBDA p2 :
                    IF ~p2.ok THEN NotOk(ExpectIf(p2, FALSE))
                    ELSE Ok(DiscardResult(EmitMove(p2))))

(* variableDeclarationList: declarations separated by commas, and their    *)
(* count.                                                                  *)
RECURSIVE VariableDeclarationList(_)
VariableDeclarationList(ps) ==
    Bind(VariableDeclaration(ps), LAMBDA p :
      CASE ~p.ok -> [ps |-> p, n |-> 0]
        [] Tok(p) # "," -> [ps |-> p, n |-> 1]
        [] OTHER -> Bind(VariableDeclarationList(Retire(p)), LAMBDA r :
                      [ps |-> r.ps, n |-> r.n + 1]))

-----------------------------------------------------------------------------
(* The statement methods                                                   *)
RECURSIVE Statement(_), StmtLoop(_), Compound(_), Selection(_),
          SwitchStatement(_), SwitchCases(_, _), Iteration(_), ForLoopCondAndIt(_),
          ForIteration(_, _), ForIterationMut(_, _),
          FunctionExpression(_, _), FunctionStatement(_), ClassContentsStatement(_),
          ClassExpression(_), ClassStatement(_)

(* while (statement()) ;                                                   *)
StmtLoop(ps) == Bind(Statement(ps), LAMBDA p : IF p.ok THEN StmtLoop(p) ELSE p)

(* compoundStatement: { statement* }                                       *)
Compound(ps) == Ok(Expect(StmtLoop(Retire(ps)), "}"))

(* selectionStatement: JF else; then; [JMP end; else:] else-part; end:     *)
Selection(ps) ==
    Bind(Expression(Expect(Retire(ps), "(")), LAMBDA p1 :
      LET ifLabel == NewLabel(p1)
          elseLabel == Matched(NewLabel(p1), p1)
      IN  Bind(Statement(Expect(AddMatchedJump(p1, "JF"), ")")), LAMBDA p2 :
            IF Tok(p2) = "else"
            THEN Bind(MatchJump(AddMatchedJump(Retire(p2), "JMP"), elseLabel), LAMBDA p3 :
                   Ok(MatchJump(Statement(p3), Matched(ifLabel, Retire(p2)))))
            ELSE Ok(MatchJump(p2, elseLabel))))

(* The case loop of switchStatement.  acc holds cases (toStatement,        *)
(* fromStatement, statementAddr for each case), defaultStatement,          *)
(* defaultFromStatementLabel and haveDefault.  Each body is one statement, *)
(* emitted into the deferred buffer and closed by JMP afterStatements.     *)
SwitchCases(ps, acc) ==
    IF Tok(ps) \notin {"case", "default"} THEN [ps |-> ps, acc |-> acc]
    ELSE IF Tok(ps) = "default"
    THEN Bind(Expect(ExpectIf(Retire(ps), ~acc.haveDefault), ":"), LAMBDA q1 :
           Bind(Statement(ResumeDeferred(q1)), LAMBDA q2 :
             SwitchCases(EndDeferred(AddMatchedJump(q2, "JMP")),
                         [acc EXCEPT !.haveDefault = TRUE,
                                     !.defaultStatement = Len(q1.dcode),
                                     !.defaultFrom = Matched(NewLabel(q2), q2)])))
    ELSE Bind(Expect(EmitCaseTest(Expression(Retire(ps))), ":"), LAMBDA q1 :
           Bind(Statement(ResumeDeferred(AddMatchedJump(q1, "JT"))), LAMBDA q2 :
             LET entry == [toStatement |-> Matched(NewLabel(q1), q1),
                           statementAddr |-> Len(q1.dcode),
                           fromStatement |-> IF q2.ok THEN Matched(NewLabel(q2), q2)
                                             ELSE [label |-> -1, matchedAddr |-> -1]]
             IN  SwitchCases(EndDeferred(IF q2.ok THEN AddMatchedJump(q2, "JMP") ELSE q2),
                             [acc EXCEPT !.cases = Append(@, entry)])))

(* switchStatement: the case tests in main, the bodies deferred, then      *)
(* JMP endJump, the bodies, and the jumps patched with the offset of the   *)
(* deferred code in main.                                                  *)
SwitchStatement(ps) ==
    Bind(Expect(Expect(Expression(Expect(Retire(ps), "(")), ")"), "{"), LAMBDA p1 :
      Bind(SwitchCases(EndDeferred(StartDeferred(p1)),
                       [cases |-> <<>>, defaultStatement |-> 0, haveDefault |-> FALSE,
                        defaultFrom |-> [label |-> -1, matchedAddr |-> -1]]), LAMBDA r :
        Bind(Expect(r.ps, "}"), LAMBDA p2 :
          LET dss == Len(p1.dcode)           \* deferredStatementStart
              ss == Len(p2.main) + 1         \* statementStart, after JMP endJump
              shift(l) == [l EXCEPT !.matchedAddr = @ + ss - dss]
              endJump == Matched(NewLabel(p2), p2)
          IN  Bind(EmitDeferred(AddMatchedJump(p2, "JMP")), LAMBDA p3 :
                LET after == Here(p3)        \* afterStatementsLabel
                    fixCases(q) ==
                      LET RECURSIVE Fix(_, _)
                          Fix(x, i) ==
                            IF i > Len(r.acc.cases) THEN x
                            ELSE LET c == r.acc.cases[i] IN
                                 Fix(Bind(MatchJumpTo(x, c.toStatement, c.statementAddr - dss + ss),
                                          LAMBDA y : IF c.fromStatement.label >= 0
                                                     THEN MatchJumpTo(y, shift(c.fromStatement), after)
                                                     ELSE y), i + 1)
                      IN  Fix(q, 1)
                IN  Ok(DiscardResult(fixCases(
                      IF r.acc.haveDefault
                      THEN MatchJumpTo(MatchJumpTo(p3, endJump, r.acc.defaultStatement - dss + ss),
                                       shift(r.acc.defaultFrom), after)
                      ELSE MatchJumpTo(p3, endJump, after))))))))

(* Mut: the continue statements matched after the iterator is emitted.   *)
ForLoopCondAndItMut(ps) ==
    Bind(Expect(ps, ";"), LAMBDA p1 :
      Bind(Expression(p1), LAMBDA p2 :
        LET label == Matched(NewLabel(p1), p2) IN
        Bind(Statement(Expect(EndDeferred(DiscardResult(Expression(Expect(
               StartDeferred(AddMatchedJump(p2, "JF")), ";")))), ")")), LAMBDA p3 :
          MatchJump(JumpToLabel(MatchAll(EmitDeferred(p3), Top(p3.cnt)), "JMP", label), label))))

(* forLoopCondAndIt: cond; JF out; the iterator deferred; body; continues  *)
(* matched here; iterator; JMP cond; out:                                  *)
ForLoopCondAndIt(ps) ==
    Bind(Expect(ps, ";"), LAMBDA p1 :
      Bind(Expression(p1), LAMBDA p2 :
        LET label == Matched(NewLabel(p1), p2) IN
        Bind(Statement(Expect(EndDeferred(DiscardResult(Expression(Expect(
               StartDeferred(AddMatchedJump(p2, "JF")), ";")))), ")")), LAMBDA p3 :
          MatchJump(JumpToLabel(EmitDeferred(MatchAll(p3, Top(p3.cnt))), "JMP", label), label))))

(* Mut: the continue statements matched after it.next().                   *)
ForIterationMut(ps, name) ==
    Bind(Expect(Expression(IF name # NullAtom THEN EmitId(ps, name) ELSE ps), ")"), LAMBDA p1 :
      Bind(DiscardResult(EmitMove(EmitCallRet(EmitDeref(EmitPushId(EmitPush(EmitDup(p1)),
             "iterator")), "NEW", 1))), LAMBDA p2 :
        LET done(q) == EmitCallRet(EmitDeref(EmitPushId(EmitId(q, name), "done")), "CALL", 0)
            label == Matched(NewLabel(p2), done(p2))
        IN  Bind(Statement(AddMatchedJump(done(p2), "JT")), LAMBDA p3 :
              LET p4 == DiscardResult(EmitCallRet(EmitDeref(EmitPushId(EmitId(p3, name),
                          "next")), "CALL", 0))
              IN  MatchJump(JumpToLabel(MatchAll(p4, Top(p4.cnt)), "JMP", label), label))))

(* forIteration(name): [ID name] obj ) DUP PUSH iterator DEREF NEW 1 MOVE   *)
(* POP; loop: ID name, done DEREF CALL 0, JT out; body; continues matched   *)
(* here; ID name, next DEREF CALL 0, POP; JMP loop; out:.  The loop reads   *)
(* the iterator through name, also when name is Atom().                     *)
ForIteration(ps, name) ==
    Bind(Expect(Expression(IF name # NullAtom THEN EmitId(ps, name) ELSE ps), ")"), LAMBDA p1 :
      Bind(DiscardResult(EmitMove(EmitCallRet(EmitDeref(EmitPushId(EmitPush(EmitDup(p1)),
             "iterator")), "NEW", 1))), LAMBDA p2 :
        LET done(q) == EmitCallRet(EmitDeref(EmitPushId(EmitId(q, name), "done")), "CALL", 0)
            label == Matched(NewLabel(p2), done(p2))
        IN  Bind(Statement(AddMatchedJump(done(p2), "JT")), LAMBDA p3 :
              LET p4 == MatchAll(p3, Top(p3.cnt))
              IN  MatchJump(JumpToLabel(DiscardResult(EmitCallRet(EmitDeref(EmitPushId(
                    EmitId(p4, name), "next")), "CALL", 0)), "JMP", label), label))))

(* iterationStatement: while, do-while and for (init; cond; it), the init *)
(* a var declaration list or an expression whose value is not discarded,  *)
(* or for..in when a ':' follows a single var or the expression; then the *)
(* loop's breaks are matched to the address after it.                      *)
Iteration(ps) ==
    LET type == Tok(ps)
        p0 == PushLoop(Retire(ps))
        loop ==
          CASE type = "while" ->
                 Bind(Expect(p0, "("), LAMBDA p1 :
                   Bind(Expression(p1), LAMBDA p2 :
                     LET label == Matched(NewLabel(p1), p2) IN
                     Bind(Statement(Expect(AddMatchedJump(p2, "JF"), ")")), LAMBDA p3 :
                       MatchJump(JumpToLabel(MatchAll(p3, Top(p3.cnt)), "JMP", label), label))))
            [] type = "do" ->
                 Bind(Statement(p0), LAMBDA p1 :
                   Expect(Expect(JumpToLabel(Expression(Expect(Expect(
                     MatchAll(p1, Top(p1.cnt)), "while"), "(")), "JT", NewLabel(p0)), ")"), ";"))
            [] type = "for" /\ Tok(Expect(p0, "(")) = "var" ->
                 LET p1 == Retire(Expect(p0, "("))
                     name == IF IsIdent(Tok(p1)) THEN Tok(p1) ELSE NullAtom
                 IN  Bind(VariableDeclarationList(p1), LAMBDA r :
                       Bind(ExpectIf(r.ps, r.n > 0), LAMBDA p2 :
                         IF Tok(p2) = ":" THEN ForIteration(Retire(ExpectIf(p2, r.n = 1)), name)
                         ELSE ForLoopCondAndIt(ExpectIf(p2, r.n > 0))))
            [] type = "for" ->
                 Bind(Expression(Expect(p0, "(")), LAMBDA p1 :
                   CASE ~p1.ok -> p1
                     [] Tok(p1) = ":" -> ForIteration(Retire(p1), NullAtom)
                     [] OTHER -> ForLoopCondAndIt(p1))
    IN  Bind(loop, LAMBDA p : Ok(PopLoop(ResolveBreaks(p))))

(* jumpStatement for break and continue: JMP, matched by the enclosing     *)
(* iterationStatement through _breakStack.back() / _continueStack.back().  *)
JumpStatement(ps) ==
    LET isBreak == Tok(ps) = "break"
        p1 == Expect(Retire(ps), ";")
        label == Matched(NewLabel(p1), p1)
        p2 == AddMatchedJump(p1, "JMP")
    IN  IF isBreak
        THEN IF p2.brk = <<>> THEN Ok([p2 EXCEPT !.ub = TRUE])
             ELSE Ok([p2 EXCEPT !.brk[Len(p2.brk)] = Append(@, label)])
        ELSE IF p2.cnt = <<>> THEN Ok([p2 EXCEPT !.ub = TRUE])
             ELSE Ok([p2 EXCEPT !.cnt[Len(p2.cnt)] = Append(@, label)])

(* statement's var branch: at least one declaration (MissingVarDecl).      *)
VarStatement(ps) ==
    Bind(VariableDeclarationList(Retire(ps)), LAMBDA r :
      Ok(Expect(ExpectIf(r.ps, r.n > 0), ";")))

(* statement's delete branch: the lvalue is evaluated, nothing deletes it *)
(* and nothing discards it.                                                *)
DeleteStatement(ps) == Ok(Expect(Expression(Retire(ps)), ";"))

(* jumpStatement for return: RET with the count of values it returns; a  *)
(* bare return in a constructor returns this.                              *)
ReturnStatement(ps) ==
    Bind(Expression(Retire(ps)), LAMBDA p :
      LET this == ~p.ok /\ p.ctor
      IN  Ok(Expect(Emit(IF this THEN PushThis(p) ELSE p,
                         <<"RET", IF p.ok \/ this THEN 1 ELSE 0>>), ";")))

(* formalParameterList: identifiers separated by commas.                   *)
RECURSIVE FormalParameterList(_)
FormalParameterList(ps) ==
    IF ~IsIdent(Tok(ps)) THEN ps
    ELSE LET p1 == Retire(ps)
         IN  CASE Tok(p1) # "," -> p1
               [] ~IsIdent(Tok(Retire(p1))) -> [Retire(p1) EXCEPT !.err = TRUE]
               [] OTHER -> FormalParameterList(Retire(p1))

(* functionExpression: functionStart opens a new function to emit into,  *)
(* functionEnd closes it.  The ParseEngine's own _breakStack and          *)
(* _continueStack are not saved or cleared.                                *)
FunctionExpression(ps, ctor) ==
    Bind(FunctionStart(Expect(ps, "("), ctor), LAMBDA p1 :
      Bind(StmtLoop(Expect(Expect(FormalParameterList(p1), ")"), "{")), LAMBDA p2 :
        FunctionEnd(Expect(p2, "}"))))

(* functionStatement: function name (...) {...}, bound by name in the     *)
(* enclosing scope (addNamedFunction emits no code).                       *)
FunctionStatement(ps) == Ok(FunctionExpression(ExpectIdent(Retire(ps)), FALSE))

(* classContentsStatement: a method, the constructor, or a var whose      *)
(* initialiser must be a literal (ConstantValueRequired), each set as a   *)
(* property of the current class; anything else ends the class body.      *)
ClassContentsStatement(ps) ==
    LET p1 == Retire(ps)
        p2 == Retire(p1)
        p3 == Retire(p2)
    IN  CASE Tok(ps) = "function" ->
               Ok(SetProperty(FunctionExpression(ExpectIdent(p1), FALSE), Tok(p1), "function"))
          [] Tok(ps) = "constructor" ->
               Ok(SetProperty(FunctionExpression(p1, TRUE), "constructor", "function"))
          [] Tok(ps) = "var" /\ ~IsIdent(Tok(p1)) -> NotOk(p1)
          [] Tok(ps) = "var" /\ Tok(p2) # "=" -> Ok(Expect(SetProperty(p2, Tok(p1), "null"), ";"))
          [] Tok(ps) = "var" /\ Tok(p3) \in Literals ->
               Ok(Expect(SetProperty(Retire(p3), Tok(p1), Tok(p3)), ";"))
          [] Tok(ps) = "var" ->
               Ok(Expect(SetProperty([p3 EXCEPT !.err = TRUE], Tok(p1), "null"), ";"))
          [] OTHER -> NotOk(ps)

(* classExpression: { classContentsStatement* }, the class pushed.        *)
ClassExpression(ps) ==
    Bind(ClassStart(ps), LAMBDA p0 :
      LET RECURSIVE Members(_)
          Members(p) == Bind(ClassContentsStatement(p), LAMBDA q : IF q.ok THEN Members(q) ELSE q)
      IN  ClassEnd(Expect(Members(Expect(p0, "{")), "}")))

(* classStatement: class Name {...} stores the class in the local Name.   *)
ClassStatement(ps) ==
    Ok(DiscardResult(EmitMove(ClassExpression(ExpectIdent(EmitId(Retire(ps), Tok(Retire(ps))))))))

(* statement: dispatch on the current token.                               *)
Statement(ps) ==
    CASE Tok(ps) = "EOF" -> NotOk(ps)
      [] Tok(ps) = ";" -> Ok(Retire(ps))
      [] Tok(ps) = "{" -> Compound(ps)
      [] Tok(ps) = "if" -> Selection(ps)
      [] Tok(ps) = "switch" -> SwitchStatement(ps)
      [] Tok(ps) \in {"while", "do", "for"} -> Iteration(ps)
      [] Tok(ps) \in {"break", "continue"} -> JumpStatement(ps)
      [] Tok(ps) = "return" -> ReturnStatement(ps)
      [] Tok(ps) = "function" -> FunctionStatement(ps)
      [] Tok(ps) = "class" -> ClassStatement(ps)
      [] Tok(ps) = "var" -> VarStatement(ps)
      [] Tok(ps) = "delete" -> DeleteStatement(ps)
      [] OTHER -> Bind(Expression(ps), LAMBDA p :
                    IF p.ok THEN Ok(Expect(DiscardResult(p), ";")) ELSE p)

(* Parsing a program: statements to the end of the stream.                 *)
Parse(toks) ==
    Bind(StmtLoop([toks |-> toks, pos |-> 1, main |-> <<>>, dcode |-> <<>>,
                   dblocks |-> <<>>, deferred |-> FALSE, brk |-> <<>>, cnt |-> <<>>,
                   fstack |-> <<>>, funcs |-> <<>>, ctor |-> FALSE, cls |-> <<>>,
                   err |-> FALSE, ub |-> FALSE, ok |-> TRUE]), LAMBDA p :
      IF Tok(p) = "EOF" THEN p ELSE [p EXCEPT !.err = TRUE])
-----------------------------------------------------------------------------
(* A program is compiled, then its code is run one instruction per step.   *)
CONSTANTS
    Programs,   \* the statement sequences to compile (JsSemantics syntax)
    Oracles,    \* the sequences of values their conditions may take
    MaxSteps    \* bound on the instructions executed

VARIABLES
    prog,     \* the program
    bits,     \* the oracle its conditions read
    phase,    \* "parse", "run", "rejected" (syntax error or UB), "done"
    ps,       \* the parser state after parsing
    pc,       \* the address of the next instruction
    stack,    \* the VM's value stack, top at the end
    out,      \* the print tokens evaluated
    bi,       \* the next oracle bit
    steps,    \* instructions executed
    result,   \* [out, end] once done
    locals,   \* the value of each local, by name
    iters,    \* the iterator objects made, each the elements it has left
    args      \* the arguments PUSH has set aside for the next CALL or NEW

heap == <<locals, iters, args>>
vars == <<prog, bits, phase, ps, pc, stack, out, bi, steps, result, locals, iters, args>>

(* VM values besides the tokens: a reference to a local, an iterable or    *)
(* iterator object, a method with the object it was read from, undefined. *)
Ref(name) == [ref |-> name]
Undefined == [undef |-> TRUE]
Value(x) == IF "ref" \in DOMAIN x THEN locals[x.ref] ELSE x
HasProp(o, atom) == \/ "iterable" \in DOMAIN o /\ atom = "iterator"
                    \/ "iter" \in DOMAIN o /\ atom \in {"done", "next"}

Code == ps.main
Ins == Code[pc + 1]
Finish(end) == /\ phase' = "done"
               /\ result' = [out |-> out, end |-> end]

Init ==
    /\ prog \in Programs
    /\ bits \in Oracles
    /\ phase = "parse"
    /\ ps = Parse(<<>>)
    /\ pc = 0 /\ stack = <<>> /\ out = <<>> /\ bi = 1 /\ steps = 0
    /\ result = [out |-> <<>>, end |-> "none"]
    /\ locals = [a \in {"v", "f", "C", NullAtom} |-> Undefined]
    /\ iters = <<>> /\ args = <<>>

(* Parsing the program's text; a syntax error or undefined behaviour       *)
(* leaves nothing to run.                                                  *)
Compile ==
    /\ phase = "parse"
    /\ ps' = Parse(TextSeq(prog))
    /\ phase' = IF ps'.err \/ ps'.ub THEN "rejected" ELSE "run"
    /\ UNCHANGED <<prog, bits, pc, stack, out, bi, steps, result>> /\ UNCHANGED heap

(* The instructions.  Each one that runs counts a step.                    *)
Running == phase = "run" /\ pc \in 0..Len(Code) - 1 /\ steps < MaxSteps

(* EXPR t: evaluate the expression t and push its value.  A condition      *)
(* takes the next oracle bit, and ends the run when there is none.         *)
ExecExpr ==
    /\ Running /\ Ins[1] = "EXPR"
    /\ steps' = steps + 1
    /\ IF Ins[2] = Cond /\ bi > Len(bits)
       THEN /\ Finish("exhausted") /\ UNCHANGED <<pc, stack, out, bi>>
       ELSE /\ stack' = Append(stack, CASE Ins[2] = Cond -> bits[bi]
                                         [] Ins[2] \in Iterables -> [iterable |-> Ins[2]]
                                         [] OTHER -> Ins[2])
            /\ bi' = IF Ins[2] = Cond THEN bi + 1 ELSE bi
            /\ out' = IF Ins[2] \in Prints THEN Append(out, Ins[2]) ELSE out
            /\ pc' = pc + 1
            /\ UNCHANGED <<phase, result>>
    /\ UNCHANGED <<prog, bits, ps>> /\ UNCHANGED heap

(* POP (discardResult) drops the top value.                                *)
ExecPop ==
    /\ Running /\ Ins[1] = "POP" /\ stack # <<>>
    /\ stack' = Front(stack)
    /\ pc' = pc + 1 /\ steps' = steps + 1
    /\ UNCHANGED <<prog, bits, phase, ps, out, bi, result>> /\ UNCHANGED heap

(* CASETEST: pop the case value, compare it with the discriminant under    *)
(* it, push the result (spec 4.4: the discriminant stays).                 *)
ExecCaseTest ==
    /\ Running /\ Ins[1] = "CASETEST" /\ Len(stack) >= 2
    /\ stack' = Append(Front(stack), Last(stack) = stack[Len(stack) - 1])
    /\ pc' = pc + 1 /\ steps' = steps + 1
    /\ UNCHANGED <<prog, bits, phase, ps, out, bi, result>> /\ UNCHANGED heap

(* ID: load a reference to the named local, which MOVE stores through;     *)
(* PUSHID: load a property name; CLASS: load the class object; DUP: copy   *)
(* the top value.                                                          *)
ExecLoad ==
    /\ Running /\ Ins[1] \in {"ID", "PUSHID", "CLASS", "DUP"}
    /\ Ins[1] = "DUP" => stack # <<>>
    /\ stack' = Append(stack, CASE Ins[1] = "ID" -> Ref(Ins[2])
                                 [] Ins[1] = "PUSHID" -> Ins[2]
                                 [] Ins[1] = "DUP" -> Last(stack)
                                 [] OTHER -> Ins[1])
    /\ pc' = pc + 1 /\ steps' = steps + 1
    /\ UNCHANGED <<prog, bits, phase, ps, out, bi, result>> /\ UNCHANGED heap

(* MOVE: pop the value and the reference under it, store the value in the *)
(* local, push the value.                                                  *)
ExecMove ==
    /\ Running /\ Ins[1] = "MOVE" /\ Len(stack) >= 2
    /\ locals' = [locals EXCEPT ![stack[Len(stack) - 1].ref] = Last(stack)]
    /\ stack' = Append(SubSeq(stack, 1, Len(stack) - 2), Last(stack))
    /\ pc' = pc + 1 /\ steps' = steps + 1
    /\ UNCHANGED <<prog, bits, phase, ps, out, bi, result, iters, args>>

(* PUSH: move the top value to the arguments of the next call.             *)
ExecPush ==
    /\ Running /\ Ins[1] = "PUSH" /\ stack # <<>>
    /\ args' = Append(args, Last(stack))
    /\ stack' = Front(stack)
    /\ pc' = pc + 1 /\ steps' = steps + 1
    /\ UNCHANGED <<prog, bits, phase, ps, out, bi, result, locals, iters>>

(* DEREF (Prop): pop the property name and the object under it, push the  *)
(* property, a method bound to the object; undefined has no properties.   *)
ExecDeref ==
    /\ Running /\ Ins[1] = "DEREF" /\ Len(stack) >= 2
    /\ HasProp(Value(stack[Len(stack) - 1]), Last(stack))
    /\ stack' = Append(SubSeq(stack, 1, Len(stack) - 2),
                       [m |-> Last(stack), this |-> Value(stack[Len(stack) - 1])])
    /\ pc' = pc + 1 /\ steps' = steps + 1
    /\ UNCHANGED <<prog, bits, phase, ps, out, bi, result>> /\ UNCHANGED heap

(* CALL n and NEW n: pop the method and its n arguments and push its       *)
(* result.  The iterator contract: iterator makes an iterator over the     *)
(* object's elements, done is whether none is left, next moves past one.   *)
ExecCall ==
    /\ Running /\ Ins[1] \in {"CALL", "NEW"} /\ stack # <<>> /\ Len(args) >= Ins[2]
    /\ LET f == Last(stack) IN
       /\ iters' = CASE f.m = "iterator" -> Append(iters, Size(f.this.iterable))
                      [] f.m = "next" -> [iters EXCEPT ![f.this.iter] = IF @ > 0 THEN @ - 1 ELSE 0]
                      [] OTHER -> iters
       /\ stack' = Append(Front(stack), CASE f.m = "iterator" -> [iter |-> Len(iters) + 1]
                                           [] f.m = "done" -> iters[f.this.iter] = 0
                                           [] OTHER -> Undefined)
    /\ args' = SubSeq(args, 1, Len(args) - Ins[2])
    /\ pc' = pc + 1 /\ steps' = steps + 1
    /\ UNCHANGED <<prog, bits, phase, ps, out, bi, result, locals>>

(* RET k: the function returns, its frame and operand stack unwound and   *)
(* k values handed to the caller.                                         *)
ExecRet ==
    /\ Running /\ Ins[1] = "RET" /\ Len(stack) >= Ins[2]
    /\ Finish("end")
    /\ stack' = <<>> /\ steps' = steps + 1
    /\ UNCHANGED <<prog, bits, ps, pc, out, bi>> /\ UNCHANGED heap

(* JMP, JT, JF: a relative jump, JT and JF popping the value they test.    *)
ExecJump ==
    /\ Running /\ Ins[1] \in Jumps /\ Ins[2] # Unpatched
    /\ Ins[1] # "JMP" => stack # <<>>
    /\ LET taken == Ins[1] = "JMP" \/ Last(stack) = (Ins[1] = "JT")
       IN  pc' = IF taken THEN pc + Ins[2] ELSE pc + 1
    /\ stack' = IF Ins[1] = "JMP" THEN stack ELSE Front(stack)
    /\ steps' = steps + 1
    /\ UNCHANGED <<prog, bits, phase, ps, out, bi, result>> /\ UNCHANGED heap

(* The VM stops: past the last instruction the function returns; an       *)
(* unpatched jump, a jump or pop that leaves the code or the stack, or the *)
(* step bound is a fault.                                                  *)
CannotStep ==
    IF pc \notin 0..Len(Code) - 1 THEN TRUE
    ELSE \/ steps >= MaxSteps
         \/ Ins[1] \in Jumps /\ Ins[2] = Unpatched
         \/ Ins[1] \in {"JT", "JF", "POP", "DUP", "PUSH"} /\ stack = <<>>
         \/ Ins[1] = "DEREF" /\ Len(stack) >= 2
                            /\ ~HasProp(Value(stack[Len(stack) - 1]), Last(stack))
         \/ Ins[1] \in {"CALL", "NEW"} /\ (stack = <<>> \/ Len(args) < Ins[2])
         \/ Ins[1] \in {"CASETEST", "MOVE", "DEREF"} /\ Len(stack) < 2
         \/ Ins[1] = "RET" /\ Len(stack) < Ins[2]

Stop ==
    /\ phase = "run" /\ CannotStep
    /\ Finish(IF pc = Len(Code) THEN "end" ELSE "fault")
    /\ UNCHANGED <<prog, bits, ps, pc, stack, out, bi, steps>> /\ UNCHANGED heap

Next == Compile \/ ExecExpr \/ ExecPop \/ ExecCaseTest \/ ExecLoad \/ ExecMove
        \/ ExecPush \/ ExecDeref \/ ExecCall \/ ExecRet \/ ExecJump \/ Stop

Spec == Init /\ [][Next]_vars
-----------------------------------------------------------------------------
(* Properties                                                              *)

Instr == (Jumps \X (Int \cup {Unpatched})) \cup ({"EXPR"} \X ExprTokens)
            \cup ({"ID"} \X {"v", "f", "C", NullAtom}) \cup ({"PUSHID"} \X IteratorAtoms)
            \cup ({"CALL", "NEW"} \X {0, 1})
            \cup {<<"DUP", 0>>, <<"PUSH", 0>>, <<"DEREF", 0>>,
                   <<"POP", 0>>, <<"CASETEST", 0>>, <<"MOVE", 0>>,
                   <<"CLASS", 0>>, <<"THIS", 0>>,
                   <<"RET", 0>>, <<"RET", 1>>}
(* The code of every function compiled: the program's and the nested ones. *)
AllCode == <<Code>> \o ps.funcs

TypeOK ==
    /\ \A f \in DOMAIN AllCode : \A a \in DOMAIN AllCode[f] : AllCode[f][a] \in Instr
    /\ phase \in {"parse", "run", "rejected", "done"}
    /\ pc \in Int /\ steps \in 0..MaxSteps /\ bi \in 1..Len(bits) + 1
    /\ out \in Seq(Prints)
    /\ result.end \in {"none", "end", "exhausted", "fault"}
    /\ iters \in Seq(0..2) /\ Len(args) <= 1

(* Every jump the parser emits, in the program and in each nested         *)
(* function, is patched by the time parsing ends, and lands inside its     *)
(* function's code or just past it: each break and                         *)
(* continue was matched by its loop, each case and default jump relocated  *)
(* with the deferred bodies, each if/else pair resolved.                    *)
JumpsPatched ==
    phase \in {"run", "done"} =>
        \A f \in DOMAIN AllCode : \A a \in DOMAIN AllCode[f] :
            AllCode[f][a][1] \in Jumps =>
                /\ AllCode[f][a][2] # Unpatched
                /\ a - 1 + AllCode[f][a][2] \in 0..Len(AllCode[f])

(* The parser ends a program with what it started with: no open function, *)
(* no loop entries on _breakStack/_continueStack, no open deferred block,  *)
(* not deferring, and an empty deferred buffer.                            *)
ParserBalanced ==
    phase # "parse" =>
        /\ ps.brk = <<>> /\ ps.cnt = <<>>
        /\ ps.dblocks = <<>> /\ ps.dcode = <<>> /\ ~ps.deferred
        /\ ps.fstack = <<>> /\ ps.cls = <<>> /\ ~ps.ctor

(* The compiled code does what the source means: every program compiles,  *)
(* and running it prints what the reference semantics prints and ends as   *)
(* it ends (at the end, or wanting a condition value the oracle lacks).    *)
CompiledMatchesSource ==
    /\ phase # "rejected"
    /\ phase = "done" => result = Meaning(prog, bits)

(* Spec invariant 3, stack balance: every statement leaves the operand    *)
(* stack as it found it (an expression statement and each var initialiser *)
(* discard their value, a switch its discriminant), so a run that reaches *)
(* the end of the program, or returns, leaves nothing behind.              *)
StackBalance ==
    phase = "done" /\ result.end = "end" => stack = <<>>

(* The parser never corrupts memory: it never calls back() on an empty    *)
(* _breakStack or _continueStack, and every matchJump patches a jump of    *)
(* the buffer it is emitting into.  jumpStatement breaks both: a break     *)
(* outside every loop calls back() on the empty vector, and a break in a   *)
(* function declared inside a loop is filed on the outer loop, which       *)
(* patches an address of the inner function in its own code (PE:501).     *)
ParserMemorySafe == ~ps.ub

(* All three together: the compiled code prints and ends as the source    *)
(* means, it leaves the operand stack balanced, and compiling it corrupts  *)
(* no memory.                                                              *)
CompiledCorrect == CompiledMatchesSource /\ StackBalance /\ ParserMemorySafe
=============================================================================
