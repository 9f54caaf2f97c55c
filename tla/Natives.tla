------------------------------ MODULE Natives ------------------------------
(***************************************************************************)
(* The global native functions of src/src/Global.cpp, called by a Task    *)
(* through the native calling convention (spec 4.7: arguments on the VM    *)
(* stack, read by negative offset from the top; a CallReturnValue of      *)
(* ReturnCount(n), MsDelay(n), WaitForEvent or an Error), and the timebase *)
(* of src/src/SystemTime.h a delay's wake-up time is computed with.        *)
(*                                                                         *)
(* The VM's CALL path and the scheduler are not in the repository: they    *)
(* are modelled from spec 4.4 and 4.6 (pop the arguments, keep n results; *)
(* sleep until the deadline now + Duration(ms, ms) has passed; wait until *)
(* an event is delivered).  String::toInt, toUInt and toFloat and          *)
(* Value::format are not in the repository either: their results on the   *)
(* few strings the model uses are given by tables.                         *)
(***************************************************************************)
EXTENDS Integers, Sequences, IPAddr

-----------------------------------------------------------------------------
(* Duration (SystemTime.h).  _value is an int32: the count shifted left   *)
(* by Shift, the units in the low bits.                                    *)
Shift == 2
UnitsMask == 2^Shift - 1
SizeofInt32 == 4      \* sizeof(int32_t): bytes, not bits
MaxValue == 2^(SizeofInt32 - Shift) - 1

Units == [us |-> 0, ms |-> 1, sec |-> 2, none |-> 3]

(* Duration(uint64_t value, Units units).  A uint64_t is never below 0,    *)
(* so the sign test is always false.  With units none the count is made    *)
(* to fit MaxValue by dividing by 1000 once or twice; then it is clamped   *)
(* to MaxValue and packed.                                                 *)
DurationOf(value, units) ==
    LET best == IF value < MaxValue THEN [v |-> value, u |-> Units.us]
                ELSE IF value \div 1000 < MaxValue THEN [v |-> value \div 1000, u |-> Units.ms]
                ELSE [v |-> (value \div 1000) \div 1000, u |-> Units.sec]
        sel == IF units = Units.none THEN best ELSE [v |-> value, u |-> units]
        v == IF sel.v > MaxValue THEN MaxValue ELSE sel.v
    IN  v * 2^Shift + sel.u

(* units() and us(): an arithmetic shift of _value, scaled by the units.  *)
DUnits(d) == d % 2^Shift
DurationUs(d) ==
    LET v == d \div 2^Shift IN
    CASE DUnits(d) = Units.ms -> v * 1000
      [] DUnits(d) = Units.sec -> v * 1000000
      [] OTHER -> v

(* Time + Duration: a uint64_t count of microseconds plus d.us().         *)
TimePlus(t, d) == t + DurationUs(d)

-----------------------------------------------------------------------------
(* Values: tagged, since a native converts between types.                  *)
IntV(i) == [t |-> "int", i |-> i]
StrV(s) == [t |-> "str", s |-> s]
(* A string the model spells character by character (IPAddr.tla).         *)
TxtV(cs) == [t |-> "text", cs |-> cs]
FloatV(m, e) == [t |-> "float", m |-> m, e |-> e]
(* An Array-mode MaterObject, a loaded module, and meminfo's object.       *)
ArrV(es) == [t |-> "array", es |-> es]
ModV(kind, path) == [t |-> "module", kind |-> kind, path |-> path]
(* An object whose elements 0 to 3 hold an IPAddr's octets.              *)
IPObjV(ip) == [t |-> "ipaddr", el |-> ip]
MemV(free, allocated, n, byType) ==
    [t |-> "object", freeSize |-> free, allocatedSize |-> allocated,
     numAllocations |-> n, allocationsByType |-> ArrV(byType)]

(* The strings the model uses, and what String::toInt, toUInt and toFloat *)
(* make of them: a number, a number only when leading whitespace is        *)
(* allowed, or nothing.                                                    *)
Strings == {"5", " 5", "x", ""}
Parses(s, allowWhitespace) == s = "5" \/ (s = " 5" /\ allowWhitespace)

(* toStringValue and toIntValue of the values the model uses.             *)
ToStringValue(x) ==
    CASE x.t = "str" -> x.s
      [] x.t = "text" -> x.cs
      [] x.t = "int" -> IF x.i = 5 THEN "5" ELSE "x"
      [] OTHER -> IF x.m = 5 THEN "5" ELSE "x"
ToIntValue(x) ==
    CASE x.t = "int" -> x.i
      [] x.t = "str" -> IF Parses(x.s, TRUE) THEN 5 ELSE 0
      [] OTHER -> x.m

(* eu->stack().top(i): i = 0 is the top, negative i below it.             *)
StackTop(st, i) == st[Len(st) + i]

(* A native's outcome: the stack it leaves, what it printed, and its       *)
(* CallReturnValue.                                                        *)
Ret(st, said, type, n) == [st |-> st, said |-> said, crv |-> [type |-> type, n |-> n]]
ReturnCount(st, said, n) == Ret(st, said, "ReturnCount", n)
CallError(st, e) == Ret(st, <<>>, "Error", e)
(* A native that dereferences a null Mad: the process faults.              *)
Fault(st) == Ret(st, <<>>, "Fault", 0)
(* No value.                                                               *)
None == [t |-> "none"]

(* Value::format: the model's format strings have no conversion, so the   *)
(* text is the format string itself.                                       *)
Format(fmt) == ToStringValue(fmt)

-----------------------------------------------------------------------------
CONSTANTS
    TaskArgs,   \* the arguments of the Task's frame (eu->argument(i))
    MemInfos    \* the allocator states: [blockSize, heap, free, numAllocations,
                \* byType: per type [count, sizeInBlocks], exhausted: no object
                \* can be allocated]

(* The natives.  Each takes the stack with its nparams arguments on top    *)
(* and the current Time.                                                   *)

(* Mutant: the time pushed with a positive exponent.                       *)
CurrentTimeMut(st, nparams, now) == ReturnCount(Append(st, FloatV(now, 6)), <<>>, 1)

(* currentTime: Time::now() in microseconds, pushed as Float(t, -6).       *)
CurrentTime(st, nparams, now) == ReturnCount(Append(st, FloatV(now, -6)), <<>>, 1)

(* delay: the top of the stack, the last argument, as a uint32_t count of  *)
(* milliseconds (the model's delays are not negative, so the conversion   *)
(* keeps the value).                                                       *)
Delay(st, nparams) == Ret(st, <<>>, "MsDelay", ToIntValue(StackTop(st, 0)))

(* print: each argument, first to last, from top(1 - nparams) to top(0).  *)
PrintArgs(st, nparams) == [j \in 1..nparams |-> ToStringValue(StackTop(st, j - nparams))]

(* Mutant: the loop stops before top(0), dropping the last argument.       *)
PrintValuesMut(st, nparams) ==
    ReturnCount(st, [j \in 1..nparams - 1 |-> ToStringValue(StackTop(st, j - nparams))], 0)

PrintValues(st, nparams) == ReturnCount(st, PrintArgs(st, nparams), 0)

(* println: the arguments, then a newline.                                 *)
Println(st, nparams) == ReturnCount(st, PrintArgs(st, nparams) \o <<"\n">>, 0)

(* printf: the format is the first argument; no argument, or an empty      *)
(* result, is BadFormatString.                                             *)
Printf(st, nparams) ==
    IF nparams < 1 THEN CallError(st, "BadFormatString")
    ELSE LET s == Format(StackTop(st, 1 - nparams)) IN
         IF s = "" THEN CallError(st, "BadFormatString")
         ELSE ReturnCount(st, <<s>>, 0)

(* toFloat, toInt and toUInt: no argument returns nothing; the string is   *)
(* the first argument, allowWhitespace the second (default true); a string *)
(* that does not convert is CannotConvertStringToNumber.  toUInt pushes    *)
(* the uint32_t cast to int32_t.                                           *)
Converted(fn) == IF fn = "toFloat" THEN FloatV(5, 0) ELSE IntV(5)

(* Mutant: allowWhitespace read from the first argument.                   *)
ToNumberMut(fn, st, nparams) ==
    IF nparams < 1 THEN ReturnCount(st, <<>>, 0)
    ELSE LET allow == IF nparams > 1 THEN ToIntValue(StackTop(st, 1 - nparams)) # 0 ELSE TRUE
             s == ToStringValue(StackTop(st, 1 - nparams))
         IN  IF Parses(s, allow) THEN ReturnCount(Append(st, Converted(fn)), <<>>, 1)
             ELSE CallError(st, "CannotConvertStringToNumber")

(* Mutant: toUInt pushes its value and reports no return value.            *)
ToNumberCountMut(fn, st, nparams) ==
    IF nparams < 1 THEN ReturnCount(st, <<>>, 0)
    ELSE LET allow == IF nparams > 1 THEN ToIntValue(StackTop(st, 2 - nparams)) # 0 ELSE TRUE
             s == ToStringValue(StackTop(st, 1 - nparams))
         IN  IF Parses(s, allow)
             THEN ReturnCount(Append(st, Converted(fn)), <<>>, IF fn = "toUInt" THEN 0 ELSE 1)
             ELSE CallError(st, "CannotConvertStringToNumber")

ToNumber(fn, st, nparams) ==
    IF nparams < 1 THEN ReturnCount(st, <<>>, 0)
    ELSE LET allow == IF nparams > 1 THEN ToIntValue(StackTop(st, 2 - nparams)) # 0 ELSE TRUE
             s == ToStringValue(StackTop(st, 1 - nparams))
         IN  IF Parses(s, allow) THEN ReturnCount(Append(st, Converted(fn)), <<>>, 1)
             ELSE CallError(st, "CannotConvertStringToNumber")

(* arguments: an Array of the frame's arguments, appended in order; an    *)
(* Array the ObjectFactory cannot create is CannotCreateArgumentsArray.    *)
Arguments(st, args, mem) ==
    IF mem.exhausted THEN CallError(st, "CannotCreateArgumentsArray")
    ELSE ReturnCount(Append(st, ArrV(args)), <<>>, 1)

(* import and importString: no argument returns nothing; else the first   *)
(* argument as a string names a file, or is the source, that eu->import  *)
(* loads, returning the module or its error.                               *)
Import(kind, st, nparams, loads) ==
    IF nparams < 1 THEN ReturnCount(st, <<>>, 0)
    ELSE LET path == ToStringValue(StackTop(st, 1 - nparams)) IN
         IF loads THEN ReturnCount(Append(st, ModV(kind, path)), <<>>, 1)
         ELSE CallError(st, "import")

(* Mutant: allocatedSize taken as the whole heap.                          *)
MemInfoMut(st, mem) ==
    IF mem.exhausted THEN Fault(st) ELSE
    LET byType == [i \in DOMAIN mem.byType |->
                     [count |-> mem.byType[i].count,
                      size |-> mem.byType[i].sizeInBlocks * mem.blockSize, type |-> i]]
    IN  ReturnCount(Append(st, MemV(mem.free * mem.blockSize, mem.heap * mem.blockSize,
                                    mem.numAllocations, byType)), <<>>, 1)

(* meminfo: the allocator's MemoryInfo in bytes, one record per memory    *)
(* type (its count, size and type name, here the type's index) appended   *)
(* to allocationsByType.  The MaterObjects come from Mad<MaterObject>::    *)
(* create, which is not checked: with no room, obj->setProperty           *)
(* dereferences a null Mad.                                                *)
MemInfo(st, mem) ==
    IF mem.exhausted THEN Fault(st) ELSE
    LET byType == [i \in DOMAIN mem.byType |->
                     [count |-> mem.byType[i].count,
                      size |-> mem.byType[i].sizeInBlocks * mem.blockSize, type |-> i]]
    IN  ReturnCount(Append(st, MemV(mem.free * mem.blockSize,
                                    (mem.heap - mem.free) * mem.blockSize,
                                    mem.numAllocations, byType)), <<>>, 1)

(* Mutant: the octet range check lets 256 through.                        *)
IPConstructorMut(st, nparams) ==
    LET quad == [i \in 0..3 |-> ToIntValue(StackTop(st, i - 3))]
        ip == CASE nparams = 1 -> ToIPAddr(ToStringValue(StackTop(st, 0)), DefaultIP).ip
                [] nparams = 4 -> [i \in 0..3 |-> quad[i] % 256]
                [] OTHER -> DefaultIP
    IN  IF nparams = 4 /\ \E i \in 0..3 : quad[i] < 0 \/ quad[i] > 256
        THEN [ret |-> CallError(st, "OutOfRange"), obj |-> None]
        ELSE [ret |-> ReturnCount(st, <<>>, 0), obj |-> IPObjV(ip)]

(* IPAddrProto::constructor, called by NEW with the new object as this:   *)
(* one argument is parsed by IPAddr(String), whose toIPAddr result is     *)
(* dropped; four are the octets a, b, c, d at top(-3) .. top(), each      *)
(* checked to lie in 0..255 (OutOfRange); any other count keeps the       *)
(* default IPAddr.  The octets become the object's elements 0 to 3.        *)
IPConstructor(st, nparams) ==
    LET quad == [i \in 0..3 |-> ToIntValue(StackTop(st, i - 3))]
        ip == CASE nparams = 1 -> ToIPAddr(ToStringValue(StackTop(st, 0)), DefaultIP).ip
                [] nparams = 4 -> [i \in 0..3 |-> quad[i] % 256]
                [] OTHER -> DefaultIP
    IN  IF nparams = 4 /\ \E i \in 0..3 : quad[i] < 0 \/ quad[i] > 255
        THEN [ret |-> CallError(st, "OutOfRange"), obj |-> None]
        ELSE [ret |-> ReturnCount(st, <<>>, 0), obj |-> IPObjV(ip)]

(* IPAddrProto::toString on this: any argument is WrongNumberOfParams;     *)
(* else elements 0 to 3 through toIntValue into uint8_t octets, printed   *)
(* by IPAddr::toString and pushed as a new string.                         *)
IPToString(st, nparams, this) ==
    IF nparams # 0 THEN CallError(st, "WrongNumberOfParams")
    ELSE ReturnCount(Append(st, TxtV(IPAddrToString([i \in 0..3 |-> this.el[i] % 256]))), <<>>, 1)

(* waitForEvent: suspend until an event.                                   *)
WaitForEvent(st) == Ret(st, <<>>, "WaitForEvent", 0)

(* The global object's property lookup: the native a name is bound to.  A *)
(* call also sees the frame's arguments, the allocator and whether an     *)
(* import loads; toString is the IPAddr prototype's, called on this.      *)
Native(fn, st, nparams, now, env, this) ==
    CASE fn = "currentTime" -> CurrentTime(st, nparams, now)
      [] fn = "delay" -> Delay(st, nparams)
      [] fn = "print" -> PrintValues(st, nparams)
      [] fn = "println" -> Println(st, nparams)
      [] fn = "printf" -> Printf(st, nparams)
      [] fn \in {"toFloat", "toInt", "toUInt"} -> ToNumber(fn, st, nparams)
      [] fn = "waitForEvent" -> WaitForEvent(st)
      [] fn = "arguments" -> Arguments(st, TaskArgs, env.mem)
      [] fn = "import" -> Import("file", st, nparams, env.loads)
      [] fn = "importString" -> Import("string", st, nparams, env.loads)
      [] fn = "meminfo" -> MemInfo(st, env.mem)
      [] fn = "ipToString" -> IPToString(st, nparams, this)

-----------------------------------------------------------------------------
CONSTANTS
    Programs,   \* the Task's statements: each a call [fn, args] of a global
    Tick,       \* microseconds the clock advances by in one step
    MaxTime,    \* the last time the model reaches
    Langs,      \* the frontends a Task may be loaded through: "m8r", "lua"
    Scripts,            \* the Lua scripts (LuaEngine)
    MayRunOutOfMemory   \* whether an allocation in the Lua library can fail

VARIABLES
    lang,       \* the Task's frontend
    prog,       \* the Task's program
    pc,         \* the next statement
    stack,      \* the Task's operand stack between statements
    status,     \* "loading", "ready", "sleeping", "waiting", "error", "done",
                \* "rejected" (its script did not load) or "crashed"
    now,        \* Time::now(), in microseconds
    deadline,   \* the wake-up Time of a sleeping Task
    out,        \* the text printed, one entry per string
    got,        \* per completed call: its value, its error, the time of the call
    woke,       \* the last sleep: from, the ms the code slept for, the ms the
                \* statement asked for, and when it ended (-1: not yet)
    obj         \* the octets of the IPAddr object the Task made last, or None

VARIABLES script, luaState, nerrors, luaError, functionIndex, stateMem,
          allocFailed, loadRet, crv, aborted, destroyed

Lua == INSTANCE LuaEngine

engineVars == <<script, luaState, nerrors, luaError, functionIndex, stateMem,
               allocFailed, loadRet, crv, aborted, destroyed>>
taskVars == <<lang, prog, pc, stack, status, now, deadline, out, got, woke, obj>>
vars == <<taskVars, engineVars>>

(* A Task of natives calls starts ready; a Lua Task starts by loading its  *)
(* script into a new LuaEngine.                                           *)
Init ==
    /\ lang \in Langs
    /\ prog \in IF lang = "m8r" THEN Programs ELSE {<<>>}
    /\ pc = 1
    /\ stack = <<>>
    /\ status = IF lang = "m8r" THEN "ready" ELSE "loading"
    /\ now = 0
    /\ deadline = 0
    /\ out = <<>>
    /\ got = <<>>
    /\ woke = [from |-> 0, ms |-> 0, req |-> 0, at |-> -1]
    /\ obj = None
    /\ IF lang = "lua" THEN Lua!Init ELSE script = "none" /\ Lua!Fresh

(* What a call of fn may find: any allocator state, and an import that     *)
(* loads or fails.  The other natives see neither.                         *)
Envs(fn) ==
    {[mem |-> m, loads |-> l] :
        m \in IF fn \in {"arguments", "meminfo"} THEN MemInfos
              ELSE {CHOOSE x \in MemInfos : ~x.exhausted},
        l \in IF fn \in {"import", "importString"} THEN BOOLEAN ELSE {TRUE}}

(* The statement fn(args);: push the arguments, call the native, then as   *)
(* its CallReturnValue says: keep its n results above the popped arguments *)
(* and discard the statement's value, sleep until now + Duration(ms, ms),  *)
(* wait for an event, or end the Task with the error.  A native that      *)
(* faults takes the process down.  The statement ip = new IPAddr(args);   *)
(* calls the constructor on a new object and keeps the object; the         *)
(* statement ip.toString(args); calls toString on it.                     *)
CallNative ==
    /\ lang = "m8r" /\ status = "ready"
    /\ pc <= Len(prog)
    /\ \E env \in Envs(prog[pc].fn) :
       LET c == prog[pc]
           np == Len(c.args)
           made == IPConstructor(stack \o c.args, np)
           r == IF c.fn = "IPAddr" THEN made.ret
                ELSE Native(c.fn, stack \o c.args, np, now, env, obj)
           k == IF r.crv.type = "ReturnCount" THEN r.crv.n ELSE 0
           below == SubSeq(r.st, 1, Len(r.st) - k - np)
       IN  IF r.crv.type = "Fault"
           THEN /\ status' = "crashed"
                /\ UNCHANGED <<stack, out, got, pc, deadline, woke, obj>>
           ELSE
           /\ stack' = below
           /\ out' = out \o r.said
           /\ got' = Append(got, [v |-> IF k > 0 THEN r.st[Len(r.st)] ELSE None,
                                  err |-> r.crv.type = "Error", at |-> now, env |-> env])
           /\ pc' = pc + 1
           /\ status' = CASE r.crv.type = "MsDelay" -> "sleeping"
                           [] r.crv.type = "WaitForEvent" -> "waiting"
                           [] r.crv.type = "Error" -> "error"
                           [] OTHER -> "ready"
           /\ deadline' = IF r.crv.type = "MsDelay"
                          THEN TimePlus(now, DurationOf(r.crv.n, Units.ms)) ELSE deadline
           /\ woke' = IF r.crv.type = "MsDelay"
                      THEN [from |-> now, ms |-> r.crv.n, at |-> -1,
                            req |-> IF np > 0 THEN ToIntValue(c.args[1]) ELSE 0]
                      ELSE woke
           /\ obj' = IF c.fn = "IPAddr" /\ r.crv.type # "Error" THEN made.obj ELSE obj
    /\ UNCHANGED <<lang, prog, now>>
    /\ UNCHANGED engineVars

(* Scheduler step 2: a sleeping Task whose deadline has passed is ready.   *)
Wake ==
    /\ status = "sleeping"
    /\ now >= deadline
    /\ status' = "ready"
    /\ woke' = [woke EXCEPT !.at = now]
    /\ UNCHANGED <<lang, prog, pc, stack, now, deadline, out, got, obj>>
    /\ UNCHANGED engineVars

(* An event is delivered to the waiting Task.                              *)
DeliverEvent ==
    /\ status = "waiting"
    /\ status' = "ready"
    /\ UNCHANGED <<lang, prog, pc, stack, now, deadline, out, got, woke, obj>>
    /\ UNCHANGED engineVars

(* The Task runs off the end of its program.                               *)
Finish ==
    /\ lang = "m8r" /\ status = "ready"
    /\ pc > Len(prog)
    /\ status' = "done"
    /\ UNCHANGED <<lang, prog, pc, stack, now, deadline, out, got, woke, obj>>
    /\ UNCHANGED engineVars

(* The Task loads its script through the frontend contract: a load that    *)
(* returns false has its errors reported and the Task ends without running *)
(* (spec 7); a process that faults or aborts takes the Task with it.       *)
LuaLoad ==
    /\ status = "loading"
    /\ Lua!Load
    /\ status' = IF aborted' THEN "crashed" ELSE IF loadRet' THEN "ready" ELSE "rejected"
    /\ UNCHANGED <<lang, prog, pc, stack, now, deadline, out, got, woke, obj>>

(* A loaded Lua Task runs: execute() runs the whole chunk in one call and  *)
(* ends the Task with Finished or its error.                               *)
LuaRun ==
    /\ lang = "lua" /\ status = "ready"
    /\ Lua!Execute
    /\ status' = IF crv' = "Finished" THEN "done" ELSE "error"
    /\ UNCHANGED <<lang, prog, pc, stack, now, deadline, out, got, woke, obj>>

(* An ended Task drops its executable: ~LuaEngine runs.                    *)
LuaRelease ==
    /\ lang = "lua" /\ status \in {"done", "error", "rejected"}
    /\ Lua!Destroy
    /\ UNCHANGED taskVars

(* Time passes.                                                            *)
Advance ==
    /\ now + Tick <= MaxTime
    /\ now' = now + Tick
    /\ UNCHANGED <<lang, prog, pc, stack, status, deadline, out, got, woke, obj>>
    /\ UNCHANGED engineVars

Next == CallNative \/ Wake \/ DeliverEvent \/ Finish \/ LuaLoad \/ LuaRun \/ LuaRelease \/ Advance

Spec == Init /\ [][Next]_vars
-----------------------------------------------------------------------------
(* What spec 6.2 and 7 say a call of a global returns and prints, from its *)
(* arguments in order.                                                     *)
SpecErr(c, env) ==
    LET np == Len(c.args) IN
    \/ c.fn \in {"toFloat", "toInt", "toUInt"} /\ np >= 1
       /\ ~Parses(ToStringValue(c.args[1]), np < 2 \/ ToIntValue(c.args[2]) # 0)
    \/ c.fn = "printf" /\ (np < 1 \/ ToStringValue(c.args[1]) = "")
    \/ c.fn = "arguments" /\ env.mem.exhausted
    \/ c.fn \in {"import", "importString"} /\ np >= 1 /\ ~env.loads
    \/ c.fn = "IPAddr" /\ np = 4 /\ \E j \in 1..4 : ToIntValue(c.args[j]) \notin 0..255
    \/ c.fn = "ipToString" /\ np # 0

(* Spec 6.2's meminfo: free and allocated bytes, the number of            *)
(* allocations, and one [count, size, type] entry per memory type.        *)
SpecMem(mem) ==
    MemV(mem.free * mem.blockSize, mem.heap * mem.blockSize - mem.free * mem.blockSize,
         mem.numAllocations,
         [i \in DOMAIN mem.byType |-> [count |-> mem.byType[i].count,
                                       size |-> mem.blockSize * mem.byType[i].sizeInBlocks,
                                       type |-> i]])

(* The address the last new IPAddr(...) before statement i was given, as *)
(* spec 6.2 spells it: the string of IPAddr(ip), or a.b.c.d in decimal.    *)
AddrGiven(i) ==
    LET j == CHOOSE j \in 1..i - 1 : /\ prog[j].fn = "IPAddr"
                                    /\ \A k \in j + 1..i - 1 : prog[k].fn # "IPAddr"
        a == prog[j].args
        dec(k) == Decimal(ToIntValue(a[k]))
    IN  IF Len(a) = 1 THEN ToStringValue(a[1])
        ELSE dec(1) \o <<".">> \o dec(2) \o <<".">> \o dec(3) \o <<".">> \o dec(4)

SpecValue(i, at, env) ==
    LET c == prog[i] IN
    CASE c.fn \in {"toFloat", "toInt", "toUInt"} /\ c.args # <<>> /\ ~SpecErr(c, env) -> Converted(c.fn)
      [] c.fn = "currentTime" -> FloatV(at, -6)
      [] c.fn = "arguments" /\ ~SpecErr(c, env) -> ArrV(TaskArgs)
      [] c.fn \in {"import", "importString"} /\ c.args # <<>> /\ ~SpecErr(c, env) ->
            ModV(IF c.fn = "import" THEN "file" ELSE "string", ToStringValue(c.args[1]))
      [] c.fn = "meminfo" -> SpecMem(env.mem)
      [] c.fn = "ipToString" /\ c.args = <<>> -> TxtV(AddrGiven(i))
      [] OTHER -> None

SpecSaid(c) ==
    LET text == [j \in DOMAIN c.args |-> ToStringValue(c.args[j])] IN
    CASE c.fn = "print" -> text
      [] c.fn = "println" -> text \o <<"\n">>
      [] c.fn = "printf" /\ c.args # <<>> /\ text[1] # "" -> <<text[1]>>
      [] OTHER -> <<>>

RECURSIVE SaidBy(_)
SaidBy(n) == IF n = 0 THEN <<>> ELSE SaidBy(n - 1) \o SpecSaid(prog[n])

Values ==
    {IntV(i) : i \in {0, 1, 5}} \cup {StrV(x) : x \in Strings}
    \cup {FloatV(m, e) : m \in 0..MaxTime, e \in {-6, 0}}
    \cup {ArrV(TaskArgs)} \cup {SpecMem(m) : m \in MemInfos}
    \cup {ModV(k, x) : k \in {"file", "string"}, x \in Strings \cup {"x"}}
    \cup [t : {"text"}, cs : Seq({DigitChar(d) : d \in 0..9} \cup {"."})]

(* Properties                                                              *)

(* Every value on the stack or returned by a native is one the natives    *)
(* produce: currentTime's Float carries microseconds as a -6 exponent.    *)
TypeOK ==
    /\ status \in {"loading", "ready", "sleeping", "waiting", "error", "done",
                  "rejected", "crashed"}
    /\ pc \in 1..Len(prog) + 1
    /\ stack \in Seq(Values)
    /\ now \in 0..MaxTime
    /\ obj \in [t : {"ipaddr"}, el : [0..3 -> 0..255 \cup {Unset}]] \cup {None}
    /\ \A i \in DOMAIN got : got[i].v \in Values \cup {None} /\ got[i].err \in BOOLEAN

(* Spec 8.3 and 7: a native that returns ReturnCount(n) has left exactly n *)
(* values above its arguments, so once the statement's value is discarded *)
(* the Task's stack is as deep as before the statement.                    *)
StackBalance == status # "error" => stack = <<>>

(* Each completed call returned, and failed, as spec 6.2 says of its       *)
(* arguments: the natives read the string from the first argument and      *)
(* allowWhitespace from the second at their offsets from the stack top;   *)
(* an IPAddr prints back the address it was made from (spec S6), and one  *)
(* made from an octet outside 0..255 is OutOfRange.                        *)
ResultsMatchArgs ==
    \A i \in DOMAIN got : got[i].v = SpecValue(i, got[i].at, got[i].env)
                         /\ got[i].err = SpecErr(prog[i], got[i].env)

(* print, println and printf wrote their arguments first to last, and      *)
(* nothing else.                                                           *)
OutputMatchesArgs == out = SaidBy(Len(got))

(* The Lua frontend uses its lua_State correctly across load, execute and *)
(* the destructor, in every outcome of the library calls: no Lua call on a *)
(* closed state and no second lua_close; and once an ended Task has        *)
(* dropped its engine, no lua_State is left allocated.                     *)
LuaStateSafe ==
    /\ stateMem # "corrupt"
    /\ destroyed => stateMem \in {"none", "freed"}

(* The refinement mapping: the Task's status, the clock, the time a sleep  *)
(* may end by the statement's own argument (spec 6.2: delay(ms) takes the  *)
(* first), whether its source is valid, and whether an allocation of its   *)
(* load failed.                                                            *)
Contract == INSTANCE TaskContract WITH
    tstatus <- CASE status = "ready" -> "running"
                 [] status = "done" -> "finished"
                 [] status = "error" -> "failed"
                 [] OTHER -> status,
    clock <- now,
    wakeAfter <- woke.from + woke.req * 1000,
    valid <- (lang = "m8r" \/ script # "syntax"),
    memFailed <- allocFailed

(* The Task implements the contract of spec 4.6, 7 and 8.6 (TaskContract): *)
(* a delay(ms) ends only after ms milliseconds, a script is run exactly    *)
(* when it loaded, and no allocation failure takes the process down.       *)
ContractRefined == Contract!Spec
=============================================================================
