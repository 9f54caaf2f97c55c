---------------------------- MODULE JsSemantics ----------------------------
(***************************************************************************)
(* The statement forms of spec 4.3.1 as a small abstract syntax, their     *)
(* source text as a token sequence, and their meaning as spec 4.3 and      *)
(* JavaScript give it: the reference the code ParseEngine emits is checked *)
(* against.                                                                *)
(*                                                                         *)
(* Expressions are single tokens: a condition reads the next bit of an     *)
(* oracle (the values the program's conditions happen to take), a print   *)
(* token is an expression whose evaluation is observable, and an integer  *)
(* literal is a switch discriminant or case value.  A run's observation is *)
(* the sequence of print tokens evaluated and how it ended: at the end of  *)
(* the program, or when a condition needed a bit the oracle did not have.  *)
(***************************************************************************)
EXTENDS Integers, Sequences

CONSTANT FallThrough  \* TRUE: a switch falls through its cases to a break,
                      \* as in JavaScript and spec S4.  FALSE: the entered case
                      \* runs its one statement and the switch ends, an empty
                      \* case (no statement) going on to the next case.
ASSUME FallThrough \in BOOLEAN

Cond == "c"
Prints == {"p", "q", "i", "n"}   \* i and n: a for loop's init and iterator
Ints == {"1", "2"}
(* Objects that satisfy the iterator contract (spec 4.3.3, invariant 7):   *)
(* e has no elements, o has two.                                           *)
Iterables == {"e", "o"}
Size(obj) == IF obj = "o" THEN 2 ELSE 0
ExprTokens == {Cond} \cup Prints \cup Ints \cup Iterables
Default == "default"
NoInit == "none"   \* a var declared without an initialiser, a bare return

(* Statement constructors.                                                 *)
Out(p) == [k |-> "out", v |-> p]
Skip == [k |-> "skip"]
Brk == [k |-> "break"]
Cnt == [k |-> "continue"]
Block(ss) == [k |-> "block", body |-> ss]
If(s) == [k |-> "if", then |-> s, else |-> <<>>]
IfElse(s, t) == [k |-> "if", then |-> s, else |-> <<t>>]
While(s) == [k |-> "while", body |-> s]
Do(s) == [k |-> "do", body |-> s]
(* for (var v = i; c; n) s, and for (i; c; n) s with an expression init.  *)
For(s) == [k |-> "for", body |-> s, init |-> "var"]
ForE(s) == [k |-> "for", body |-> s, init |-> "expr"]
(* for (var v : obj) s, and for (v : obj) s with a left-hand expression.   *)
ForIn(obj, s) == [k |-> "forin", obj |-> obj, body |-> s, init |-> "var"]
ForInE(obj, s) == [k |-> "forin", obj |-> obj, body |-> s, init |-> "expr"]
Switch(d, cs) == [k |-> "switch", d |-> d, cases |-> cs]
Case(v, ss) == [v |-> v, body |-> ss]
(* var v = e1, v = e2, ...; each ei a token or NoInit.                     *)
Var(es) == [k |-> "var", inits |-> es]
Return(e) == [k |-> "return", v |-> e]
Delete(e) == [k |-> "delete", v |-> e]
(* function f() { ss }: a named function, never called here.              *)
Fn(ss) == [k |-> "function", body |-> ss]
(* class C { members }: methods, a constructor, and vars with a literal   *)
(* initialiser or none.                                                    *)
Class(ms) == [k |-> "class", members |-> ms]
Method(ss) == [m |-> "method", body |-> ss]
Ctor(ss) == [m |-> "ctor", body |-> ss]
Field(e) == [m |-> "field", v |-> e]

-----------------------------------------------------------------------------
(* Source text.  A then-branch that is an if is braced when an else       *)
(* follows, so the text has the tree's own meaning.                        *)
RECURSIVE Text(_), TextSeq(_), CasesText(_), DeclsText(_), MembersText(_)
MembersText(ms) ==
    IF ms = <<>> THEN <<>>
    ELSE (CASE Head(ms).m = "method" -> <<"function", "f", "(", ")", "{">> \o TextSeq(Head(ms).body) \o <<"}">>
            [] Head(ms).m = "ctor" -> <<"constructor", "(", ")", "{">> \o TextSeq(Head(ms).body) \o <<"}">>
            [] OTHER -> <<"var", "v">> \o (IF Head(ms).v = NoInit THEN <<>> ELSE <<"=", Head(ms).v>>) \o <<";">>)
         \o MembersText(Tail(ms))
DeclsText(es) ==
    IF es = <<>> THEN <<>>
    ELSE <<"v">> \o (IF Head(es) = NoInit THEN <<>> ELSE <<"=", Head(es)>>)
         \o (IF Tail(es) = <<>> THEN <<>> ELSE <<",">> \o DeclsText(Tail(es)))
TextSeq(ss) == IF ss = <<>> THEN <<>> ELSE Text(Head(ss)) \o TextSeq(Tail(ss))
CasesText(cs) ==
    IF cs = <<>> THEN <<>>
    ELSE (IF Head(cs).v = Default THEN <<"default", ":">>
          ELSE <<"case", Head(cs).v, ":">>)
         \o TextSeq(Head(cs).body) \o CasesText(Tail(cs))
Text(s) ==
    CASE s.k = "out" -> <<s.v, ";">>
      [] s.k = "skip" -> <<";">>
      [] s.k = "break" -> <<"break", ";">>
      [] s.k = "continue" -> <<"continue", ";">>
      [] s.k = "block" -> <<"{">> \o TextSeq(s.body) \o <<"}">>
      [] s.k = "if" ->
            <<"if", "(", Cond, ")">>
            \o (IF s.else # <<>> /\ s.then.k = "if"
                THEN <<"{">> \o Text(s.then) \o <<"}">> ELSE Text(s.then))
            \o (IF s.else = <<>> THEN <<>> ELSE <<"else">> \o Text(s.else[1]))
      [] s.k = "while" -> <<"while", "(", Cond, ")">> \o Text(s.body)
      [] s.k = "do" -> <<"do">> \o Text(s.body) \o <<"while", "(", Cond, ")", ";">>
      [] s.k = "for" -> <<"for", "(">> \o (IF s.init = "var" THEN <<"var", "v", "=">> ELSE <<>>)
                        \o <<"i", ";", Cond, ";", "n", ")">> \o Text(s.body)
      [] s.k = "forin" -> <<"for", "(">> \o (IF s.init = "var" THEN <<"var">> ELSE <<>>)
                          \o <<"v", ":", s.obj, ")">> \o Text(s.body)
      [] s.k = "switch" -> <<"switch", "(", s.d, ")", "{">> \o CasesText(s.cases) \o <<"}">>
      [] s.k = "var" -> <<"var">> \o DeclsText(s.inits) \o <<";">>
      [] s.k = "return" -> <<"return">> \o (IF s.v = NoInit THEN <<>> ELSE <<s.v>>) \o <<";">>
      [] s.k = "delete" -> <<"delete", s.v, ";">>
      [] s.k = "function" -> <<"function", "f", "(", ")", "{">> \o TextSeq(s.body) \o <<"}">>
      [] s.k = "class" -> <<"class", "C", "{">> \o MembersText(s.members) \o <<"}">>

(* A program is valid JavaScript when every break is inside a loop or a   *)
(* switch and every continue inside a loop.                                *)
RECURSIVE ValidIn(_, _, _)
ValidIn(s, inLoop, inSwitch) ==
    CASE s.k = "break" -> inLoop \/ inSwitch
      [] s.k = "continue" -> inLoop
      [] s.k = "block" -> \A i \in DOMAIN s.body : ValidIn(s.body[i], inLoop, inSwitch)
      [] s.k = "if" -> ValidIn(s.then, inLoop, inSwitch)
                       /\ \A i \in DOMAIN s.else : ValidIn(s.else[i], inLoop, inSwitch)
      [] s.k \in {"while", "do", "for", "forin"} -> ValidIn(s.body, TRUE, inSwitch)
      [] s.k = "switch" -> \A i \in DOMAIN s.cases :
                              \A j \in DOMAIN s.cases[i].body :
                                 ValidIn(s.cases[i].body[j], inLoop, TRUE)
      [] s.k = "function" -> \A i \in DOMAIN s.body : ValidIn(s.body[i], FALSE, FALSE)
      [] s.k = "var" -> s.inits # <<>>
      [] s.k = "class" ->
            \A i \in DOMAIN s.members :
               IF s.members[i].m = "field" THEN s.members[i].v \in Ints \cup {NoInit}
               ELSE \A j \in DOMAIN s.members[i].body : ValidIn(s.members[i].body[j], FALSE, FALSE)
      [] OTHER -> TRUE
Valid(ss) == \A i \in DOMAIN ss : ValidIn(ss[i], FALSE, FALSE)

-----------------------------------------------------------------------------
(* Meaning.  A configuration is [out, bi, sig]: the prints so far, the     *)
(* next oracle bit, and how the last statement completed: "normal",        *)
(* "break", "continue", or "exhausted" when a condition found no bit.      *)
Normal(c) == [c EXCEPT !.sig = "normal"]
Say(c, p) == [c EXCEPT !.out = Append(@, p)]

(* Evaluate a condition: the configuration after it, and its value.        *)
CondVal(c, bits) ==
    IF c.bi > Len(bits) THEN [c EXCEPT !.sig = "exhausted"]
    ELSE [c EXCEPT !.bi = @ + 1, !.val = bits[c.bi]]

(* Evaluate a token for its effect: a condition reads a bit, a print     *)
(* token is printed; NoInit evaluates nothing.                             *)
Eval(c, e, bits) ==
    CASE e = Cond -> CondVal(c, bits)
      [] e \in Prints -> Say(c, e)
      [] OTHER -> c

RECURSIVE EvalAll(_, _, _)
EvalAll(es, c, bits) ==
    IF es = <<>> \/ c.sig # "normal" THEN c
    ELSE EvalAll(Tail(es), Eval(c, Head(es), bits), bits)

RECURSIVE Exec(_, _, _), ExecSeq(_, _, _), Loop(_, _, _)
ExecSeq(ss, c, bits) ==
    IF ss = <<>> \/ c.sig # "normal" THEN c
    ELSE ExecSeq(Tail(ss), Exec(Head(ss), c, bits), bits)

(* A while or for loop from its condition: test, body, and for a for loop *)
(* the iterator, until the condition is false or the body breaks.          *)
Loop(s, c, bits) ==
    LET after(x) == \* the body has run and completed with x.sig
            CASE x.sig = "break" -> Normal(x)
              [] x.sig \in {"exhausted", "return"} -> x
              [] OTHER -> Loop(s, IF s.k = "for" THEN Say(Normal(x), "n") ELSE Normal(x), bits)
    IN  CHOOSE r \in {IF t.sig = "exhausted" \/ ~t.val THEN t
                      ELSE after(Exec(s.body, t, bits)) : t \in {CondVal(c, bits)}} : TRUE

Exec(s, c, bits) ==
    CASE s.k = "out" -> Say(c, s.v)
      [] s.k \in {"skip", "function", "class"} -> c
      [] s.k = "var" -> EvalAll(s.inits, c, bits)
      [] s.k = "delete" -> Eval(c, s.v, bits)
      [] s.k = "return" ->
            CHOOSE r \in {IF t.sig = "exhausted" THEN t ELSE [t EXCEPT !.sig = "return"]
                          : t \in {Eval(c, s.v, bits)}} : TRUE
      [] s.k = "break" -> [c EXCEPT !.sig = "break"]
      [] s.k = "continue" -> [c EXCEPT !.sig = "continue"]
      [] s.k = "block" -> ExecSeq(s.body, c, bits)
      [] s.k = "if" ->
            CHOOSE r \in {IF t.sig = "exhausted" THEN t
                          ELSE IF t.val THEN Exec(s.then, t, bits)
                          ELSE ExecSeq(s.else, t, bits) : t \in {CondVal(c, bits)}} : TRUE
      [] s.k = "while" -> Loop(s, c, bits)
      [] s.k = "for" -> Loop(s, Say(c, "i"), bits)
      [] s.k = "forin" ->
            \* spec 4.3.3: it = obj.iterator(obj); until it.done(): body,
            \* it.next(); a continue goes on to it.next()
            LET RECURSIVE Each(_, _)
                Each(x, left) ==
                    IF left = 0 THEN x
                    ELSE CHOOSE r \in {CASE b.sig = "break" -> Normal(b)
                                          [] b.sig \in {"exhausted", "return"} -> b
                                          [] OTHER -> Each(Normal(b), left - 1)
                                       : b \in {Exec(s.body, x, bits)}} : TRUE
            IN  Each(c, Size(s.obj))
      [] s.k = "do" ->
            \* do: body, then the condition, repeated
            LET RECURSIVE DoLoop(_)
                DoLoop(x) ==
                    CHOOSE r \in {
                      CASE b.sig = "break" -> Normal(b)
                        [] b.sig \in {"exhausted", "return"} -> b
                        [] OTHER -> CHOOSE r2 \in {
                                      IF t.sig = "exhausted" \/ ~t.val THEN t ELSE DoLoop(t)
                                      : t \in {CondVal(Normal(b), bits)}} : TRUE
                      : b \in {Exec(s.body, x, bits)}} : TRUE
            IN  DoLoop(c)
      [] s.k = "switch" ->
            \* Spec 4.3.2 and S4: enter at the first case equal to the
            \* discriminant, else at default; then as FallThrough says.
            LET hit == {i \in DOMAIN s.cases : s.cases[i].v = s.d}
                dflt == {i \in DOMAIN s.cases : s.cases[i].v = Default}
                from == IF hit # {} THEN CHOOSE i \in hit : \A j \in hit : i <= j
                        ELSE IF dflt # {} THEN CHOOSE i \in dflt : TRUE ELSE 0
                rest == IF from = 0 THEN <<>>
                        ELSE [j \in 1..Len(s.cases) - from + 1 |-> s.cases[from + j - 1]]
                \* without fall-through: up to the first case with a statement,
                \* or the first default
                stop == {j \in DOMAIN rest : rest[j].body # <<>> \/ rest[j].v = Default}
                upto == IF FallThrough \/ stop = {} THEN Len(rest)
                        ELSE CHOOSE j \in stop : \A k \in stop : j <= k
                body == [j \in 1..upto |-> rest[j].body]
                flat == IF body = <<>> THEN <<>> ELSE [j \in 1..Len(body) |-> Block(body[j])]
            IN  CHOOSE r \in {IF x.sig = "break" THEN Normal(x) ELSE x
                              : x \in {ExecSeq(flat, c, bits)}} : TRUE

(* The observation of a program: its prints, and "end" or "exhausted".     *)
Meaning(ss, bits) ==
    CHOOSE o \in {[out |-> x.out, end |-> IF x.sig = "exhausted" THEN "exhausted" ELSE "end"]
                  : x \in {ExecSeq(ss, [out |-> <<>>, bi |-> 1, sig |-> "normal", val |-> FALSE], bits)}} : TRUE
=============================================================================
