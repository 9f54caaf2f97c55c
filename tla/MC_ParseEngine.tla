--------------------------- MODULE MC_ParseEngine ---------------------------
EXTENDS ParseEngine

(* Statements for loop bodies and ifs: a print, break, continue, empty.    *)
S0 == {Out("p"), Brk, Cnt, Skip}
S1 == S0 \cup {If(x) : x \in S0} \cup {IfElse(x, y) : x, y \in S0}
         \cup {Block(<<x, y>>) : x, y \in S0}
Loops(S) == {While(x) : x \in S} \cup {Do(x) : x \in S} \cup {For(x) : x \in S}

(* A loop, or an if around a loop, followed by a print; only valid ones.   *)
LoopPrograms ==
    {ss \in {<<s, Out("q")>> : s \in Loops(S1) \cup {If(l) : l \in Loops(S0)}
                                  \cup Loops({While(x) : x \in S0})}
        : Valid(ss)}

(* for (var v : obj) over an empty and a two-element object, with each    *)
(* small body; in a while, and around a while, so that breaks and          *)
(* continues of two loops are told apart.                                  *)
ForInPrograms ==
    {ss \in {<<ForIn(o, x), Out("q")>> : o \in Iterables, x \in S1} : Valid(ss)}
    \cup {<<While(ForIn("o", Block(<<Out("p"), Brk>>))), Out("q")>>,
         <<ForIn("o", Block(<<While(Brk), Cnt>>)), Out("q")>>}

(* Switches whose case bodies are one print, a block, or no statement.    *)
Bodies == {<<>>, <<Out("p")>>, <<Block(<<Out("p"), Out("q")>>)>>}
Cases(v) == {Case(v, b) : b \in Bodies}
SwitchPrograms ==
    {<<Switch(d, cs), Out("n")>> : d \in Ints,
        cs \in {<<c1, c2>> : c1 \in Cases("1"), c2 \in Cases("2") \cup Cases(Default)}
               \cup {<<c1, c2, c3>> : c1 \in Cases(Default), c2 \in {Case("1", <<Out("q")>>)},
                                      c3 \in Cases("2")}}
        \cup {<<While(Switch("1", <<Case("1", <<Out("p")>>), Case("2", <<Out("q")>>)>>))>>,
              <<For(Block(<<Switch("2", <<Case("2", <<Out("p")>>)>>), Cnt>>))>>}

(* Declarations, returns and nested functions: at the top, in a loop, in  *)
(* a switch case, and a function holding a loop with a break of its own    *)
(* inside a loop whose break follows it.                                   *)
D0 == {Var(<<"p">>), Var(<<NoInit, "q">>), Var(<<"1", Cond>>), Return(NoInit), Return("p")}
DeclPrograms ==
    {<<s, Out("q")>> : s \in D0 \cup {Fn(<<x>>) : x \in D0 \cup {While(Brk), Out("p")}}}
    \cup {<<While(Block(<<x, Cnt>>)), Out("q")>> : x \in D0}
    \cup {<<Switch("1", <<Case("1", <<Return("p")>>), Case(Default, <<Var(<<"q">>)>>)>>),
            Out("n")>>,
         <<For(Block(<<Fn(<<While(Brk)>>), Brk>>)), Out("q")>>}

(* Classes of one member of each kind, one of three members around a loop *)
(* in the constructor, and one declared in a loop.                         *)
ClassPrograms ==
    {<<Class(<<mb>>), Out("q")>> :
        mb \in {Method(<<Return("p")>>), Method(<<Return(NoInit)>>), Ctor(<<Return(NoInit)>>),
                Ctor(<<Out("p")>>), Field("1"), Field(NoInit)}}
    \cup {<<Class(<<Field("2"), Ctor(<<While(Brk), Return(NoInit)>>), Method(<<>>)>>)>>,
         <<While(Block(<<Class(<<Method(<<Out("p")>>)>>), Brk>>)), Out("q")>>}

MCPrograms == LoopPrograms \cup ForInPrograms \cup SwitchPrograms \cup DeclPrograms
              \cup ClassPrograms

(* Spec S4 without its break: the discriminant matches a middle case, and *)
(* the bodies should run on through the later cases.                       *)
FallThroughPrograms ==
    {<<Switch("2", <<Case("1", <<Out("p")>>), Case("2", <<Out("q")>>),
                     Case(Default, <<Out("n")>>)>>)>>}

(* A break in a case body, the switch inside a loop: it should leave the   *)
(* switch and let the loop go on.                                          *)
SwitchBreakPrograms ==
    {<<While(Switch("1", <<Case("1", <<Out("p")>>), Case("2", <<Brk>>)>>)), Out("q")>>,
     <<While(Switch("1", <<Case("1", <<Brk>>)>>)), Out("q")>>}

(* Both switch divergences, under the fall-through meaning of spec S4.     *)
SwitchDivergencePrograms == FallThroughPrograms \cup SwitchBreakPrograms

(* Statements that leave a value on the stack: delete's lvalue, and the  *)
(* init expression of a for loop.                                          *)
StackLeakPrograms == {<<Delete("p"), Out("q")>>, <<ForE(Out("p"))>>}

(* for..in with a left-hand expression: the iterator is stored in v, but   *)
(* forIteration(Atom()) loads the unnamed local to call done() on.         *)
ForInExprPrograms == {<<ForInE("o", Out("p")), Out("q")>>}

(* A break in a function declared in a loop: JavaScript rejects it; the   *)
(* parser files it on the loop's _breakStack entry.  And a break outside   *)
(* every loop, which the parser files with back() of an empty vector.      *)
FnBreakPrograms == {<<While(Fn(<<Brk>>)), Out("q")>>, <<For(Fn(<<Out("p"), Cnt>>))>>, <<Brk, Out("q")>>}

(* Every program the code gets wrong: the switch divergences, the stack   *)
(* leaks, for (x : o), and the breaks jumpStatement files on a wrong stack. *)
CompiledDivergencePrograms == SwitchDivergencePrograms \cup StackLeakPrograms
                              \cup ForInExprPrograms \cup FnBreakPrograms

MCOracles == {<<>>} \cup {<<a>> : a \in BOOLEAN} \cup {<<a, b>> : a, b \in BOOLEAN}
             \cup {<<a, b, c>> : a, b, c \in BOOLEAN}
=============================================================================
