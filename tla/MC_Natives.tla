----------------------------- MODULE MC_Natives -----------------------------
(* A Task of two statements, each a call of a global with the arguments   *)
(* that tell its cases apart: every string for the conversions, with and   *)
(* without allowWhitespace; print and println of none, one or two values;  *)
(* printf of an empty and a plain format; delays below, at and above       *)
(* MaxValue milliseconds; arguments, meminfo, and imports of nothing, of a *)
(* path and of a source with a further argument; the clock in 1 ms steps. *)
EXTENDS Natives

Strs == {StrV(x) : x \in Strings}
Call(fn, args) == [fn |-> fn, args |-> args]

Calls ==
    {Call(fn, <<>>) : fn \in {"toInt", "toUInt", "toFloat", "print", "println",
                              "printf", "currentTime", "waitForEvent"}}
    \cup {Call(fn, <<s>>) : fn \in {"toInt", "toUInt", "toFloat", "printf", "print"}, s \in Strs}
    \cup {Call(fn, <<s, IntV(w)>>) : fn \in {"toInt", "toUInt", "toFloat"},
                                     s \in {StrV(" 5"), StrV("5")}, w \in {0, 1}}
    \cup {Call("println", <<IntV(5), StrV("x")>>), Call("print", <<StrV("x"), IntV(5)>>)}
    \cup {Call("delay", <<IntV(ms)>>) : ms \in {0, 3, 5}}
    \cup {Call(fn, <<>>) : fn \in {"arguments", "meminfo", "import", "importString"}}
    \cup {Call("import", <<StrV("x")>>), Call("importString", <<IntV(5), StrV("x")>>)}

(* The Task's frame holds two arguments.                                   *)
MCTaskArgs == <<IntV(5), StrV("x")>>

(* A heap of 10 blocks of 8 bytes, 4 free, in two memory types; and the   *)
(* same heap with no room for an object.                                   *)
Heap(ex) == [blockSize |-> 8, heap |-> 10, free |-> 4, numAllocations |-> 3,
             byType |-> <<[count |-> 2, sizeInBlocks |-> 4], [count |-> 1, sizeInBlocks |-> 2]>>,
             exhausted |-> ex]
MCMemInfos == {Heap(FALSE), Heap(TRUE)}

(* new IPAddr from a dotted quad and from four octets, then toString();    *)
(* octets just outside 0..255 in the first and the last position; and a    *)
(* toString given an argument.                                             *)
Quad1 == <<"1", "0", ".", "0", ".", "0", ".", "1">>
Quad2 == <<"1", "9", "2", ".", "1", "6", "8", ".", "0", ".", "2", "5", "5">>
IPPrograms ==
    {<<Call("IPAddr", <<TxtV(q)>>), Call("ipToString", <<>>)>> : q \in {Quad1, Quad2}}
    \cup {<<Call("IPAddr", <<IntV(a), IntV(0), IntV(255), IntV(d)>>), Call("ipToString", <<>>)>> :
           <<a, d>> \in {<<10, 1>>, <<256, 1>>, <<10, -1>>}}
    \cup {<<Call("IPAddr", <<TxtV(Quad1)>>), Call("ipToString", <<IntV(0)>>)>>}

(* The statements of MC_Natives.Calls, one or two at a time.                *)
MCPrograms == {<<c>> : c \in Calls} \cup {<<c, d>> : c \in Calls, d \in
                 {Call("delay", <<IntV(5)>>), Call("currentTime", <<>>), Call("waitForEvent", <<>>)}}
              \cup IPPrograms

(* One delay longer than MaxValue milliseconds.                            *)
DelayPrograms == {<<Call("delay", <<IntV(5)>>), Call("currentTime", <<>>)>>}

(* A delay given a second argument, which it takes for the duration.       *)
DelayArgPrograms == {<<Call("delay", <<IntV(3), IntV(0)>>), Call("currentTime", <<>>)>>}

(* meminfo, which on an exhausted heap uses the MaterObject it could not   *)
(* create.                                                                 *)
MemInfoPrograms == {<<Call("meminfo", <<>>)>>}

ContractPrograms == DelayPrograms \cup DelayArgPrograms \cup MemInfoPrograms

(* Every Lua script kind.                                                  *)
MCScripts == {"runs", "throws", "syntax"}
=============================================================================
