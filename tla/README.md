# TLA+ models of m8rscript

This directory holds TLA+ models of the m8rscript runtime sources under `src/`,
the TLC configurations that check them, and `PROJECT.json`, which lists every
component, run, mutant, finding and hazard and maps each TLA+ definition to the
source lines it translates.

Run a check from this directory with

    tlasany MC_Scanner.tla
    tlc -workers 2 -config Scanner_pass.cfg MC_Scanner

## 1. The system

m8rscript is a small JavaScript-like language for microcontrollers. A byte
stream is scanned into tokens, and a recursive-descent parser emits bytecode into
`Function` objects. A stack VM (an `ExecutionUnit` per `Task`) runs the
bytecode. Objects and strings live in handle tables and are reclaimed by a
mark-and-sweep collector. A cooperative run loop delivers host events (TCP, DNS,
timers) to tasks. The repository snapshot under `src/` contains only part of this
system. The components it has, with the state each keeps and its operations:

| Component | Source | State | Operations |
|---|---|---|---|
| Scanner | `src/m8rscript/Scanner.cpp` | input stream position, one pushback byte `_lastChar`, `_lineno`, the text buffer `_ostring` | `getToken` and its helpers `get`, `putback`, `scanComment`, `scanString`, `scanNumber`, `scanSpecial`, `scanIdentifier`, `scanKeyword` |
| Bison parser | `src/m8rscript/parse.tab.cpp` | LALR stacks | `yyparse`, which pulls tokens through `yylex` → `getToken` (generated code) |
| ParseEngine (parser/emitter) | `src/src/ParseEngine.cpp` | current token, the function being built, label stacks for `break`/`continue`, deferred code regions | one method per statement and expression form; `switch`, loops and jumps emit forward jumps that are patched later |
| Handle stores (IdStore) | `src/m8rscript/Global.h` | `_values` (slot → object or null), `_valueMarked`, `_freeValueIdCount` | `add`, `remove`, `isValid`, `ptr`, `gcClear`, `gcMark`, `gcSweep` |
| Global natives | `src/src/Global.cpp` | none of their own; they push values on the VM stack | `delay` (returns `MsDelay`), `waitForEvent`, `toInt`/`toUInt`/`toFloat`, `arguments`, `import`, `meminfo`, `print*` |
| IPAddr | `src/lib/m8rscript/src/IPAddr.cpp` | four octets as elements of an object | constructor (one string or four integers), `toString`, `lookupHostname`, which pins the callback, starts event listening and registers a DNS completion lambda |
| Application shell | `src/src/Application.cpp` | `_shells[MaxConnections]`, one shell `Task` per TCP connection | `TCPevent(Connected / Disconnected / ReceivedData / SentData)`, `validateFileName`, `validateBonjourName`, `runLoop` |
| Duration / Time | `src/src/SystemTime.h` | a 32-bit `_value`: a 30-bit count and 2 unit bits | the constructor with unit selection and clamping, unary minus, `+`, `-`, comparisons, `us()`, `ms()`; `Time` arithmetic |
| LuaEngine | `src/src/LuaEngine.{h,cpp}` | `_state`, `_functionIndex`, `_nerrors`, `_error` | `load` (new state, open libraries, load the chunk), `execute` (call and close), the destructor, `readStream` |
| Value, Function, UDPSocket | `src/m8rscript/Value.h`, `Function.h`, `UDPSocket.h` | declarations: a tagged value, a function's locals and parameter count, a UDP delegate interface | accessors and declarations only |

### How the parts interact, and what is hard

* The parser pulls tokens one at a time. The scanner's only memory between
  calls is the one pushback byte, `_lineno` and the growing `_ostring`. Every
  lookahead byte a scan routine reads must be pushed back or consumed, and the
  single pushback slot must be empty whenever one is pushed. Which bytes follow
  which decides this, and a unit test sees only the inputs it was written for.
* Emitted code is patched after the fact: forward jumps of `if`, loops, `break`
  and `continue` are recorded on label stacks, and `switch` bodies are
  collected in deferred regions and spliced in later. A label resolved against
  the wrong stack, or a deferred offset not translated, gives code that jumps
  to the wrong place without any error at parse time.
* Objects and strings are addressed through handle tables whose slots are
  freed by the sweep and reused by the next `add`. A handle kept across a
  collection can come to name a different object.
* `lookupHostname` keeps the callback function, `this` and the raw
  `ExecutionUnit*` in a lambda the host calls later. In between, the task
  can be terminated (TCP `Disconnected` → `Task::terminate`) and the collector can
  run, so two independent actors race the DNS answer.
* Durations pack value and unit into 32 bits; every conversion clamps or
  scales, at boundaries that only particular values reach.

### The properties that make each part correct

* Scanner: each token is what its bytes spell (maximal munch, keywords spelled
  exactly); every byte is consumed exactly once, and only one is ever pushed
  back at a time; the line of a token is 1 + the newlines before it; `C_EOF`
  comes only at the end of the stream; and every call makes progress.
* ParseEngine: every `break` jumps past its own loop or switch and every
  `continue` to its own loop's continue point; `switch` falls through until a
  `break` (spec S4); every recorded jump is patched exactly once.
* IdStore: `_freeValueIdCount` equals the number of null slots; `add` never
  reaches its `assert(false)`; the sweep frees exactly the unmarked
  collectable slots and terminates; slot 0 is never freed.
* Events and GC: no object reachable from a root, a pin or a pending callback
  is freed (spec 8.4); a callback fires only on a live task, and with the
  function it was given; every pin is released once its event has fired or
  its task has ended (spec 9, "Unpinning on cancel is mandatory").
* Application: a connection's shell task is terminated when it disconnects; a
  task is never abandoned still running.
* Duration: `Duration(v, u)` represents `v` in unit `u` over the ranges
  the header comment promises; `a + b` and `a - b` agree with the sum and
  difference in microseconds.
* LuaEngine: each Lua state is closed exactly once and never used after it
  is closed; an allocation failure ends the Task, not the process; `load`
  reports whether the script loaded (checked through the Task contract).

## 2. The plan

The modules, most important behaviour first:

1. **Scanner** (done): `getToken` as one action over a bounded byte stream, with
   every helper as a pure operator. Runs: one passing run over all character
   classes, and one violation run for each disagreement with spec 4.2 and 8.1.
2. **IdStore** (done): the handle table of `Global.h` with `add`, `remove` and the
   phases of a collection (`gcClear`, marking, a step-by-step `gcSweep` whose
   `uint16_t` index is kept at its width). Runs: free-count and sweep
   soundness (pass); sweep termination past 2^16 slots and freeing slot 0
   (violations, at a reduced index width).
3. **EventPinning** (done): shell tasks created and terminated by
   `TCPevent`, `lookupHostname` (pin, start listening, the DNS lambda), and the
   collector over the set of live objects. `Global::gc`, `Task` and the
   static-object list are not under `src/`, so the root set follows spec 4.5.
   Runs: listening counts, GC soundness for the pinned function, no orphan
   task and pins released (pass); a callback on a terminated task and a freed
   `this` (violations). `validateFileName` and `validateBonjourName` are
   operators of `Application.tla`, checked in the same pass run.
4. **ParseEngine statements** (done): the statement
   methods as operators over a parser state, the code they emit, and a small
   VM that runs it, checked against a reference meaning of the source program
   (`JsSemantics.tla`). This covers loops, `if`, `switch`, `break`,
   `continue`, `return`, `var`, `delete`, `for..in`, and `function` and
   `class` statements with nested functions. Runs: one pass run, and one violation
   run for the switch divergences and the operand-stack leaks.
5. **ParseEngine expressions** (done): `expression`, `arithmeticPrimary`,
   `leftHandSideExpression`, `memberExpression`, `primaryExpression` and the
   `_opInfos` precedence table as a pure parser, checked by parsing the
   printed form of every tree of a bounded grammar and comparing the emitted
   operand stack with a reference precedence reading (`ExprParse.tla`).
6. **Natives and Duration** (done): all thirteen natives bound by the
   `Global` constructor, called by a Task that sleeps, waits and wakes through
   a model of the scheduler; the Duration constructor and `Time + Duration`
   on the delay path (`Natives.tla`). The `IPAddr` constructor and
   `toString` are natives too, with `toIPAddr` and `IPAddr::toString` as
   operators of `IPAddr.tla`.
7. **LuaEngine and the Task contract** (done): the load/execute/destructor
   life cycle over one `lua_State`, with every allocation failure the Lua
   library can report, composed with the Task model as its Lua frontend.
   Both frontends are checked against `TaskContract.tla`, the abstract
   lifecycle that spec 4.6, 7 and 8.6 promise of a Task.
8. **`for..in`** (done, within item 4): `forIteration` and the VM's
   iterator objects with `iterator`/`done`/`next`, the spec's invariant 7.
9. **The rest of Duration** (negation, arithmetic, comparison, `Time - Time`):
   no code in the repository calls it; to be checked against exact
   microsecond arithmetic if it is ever used.

What is not modelled, and why, is in section 9.

## 3. The Scanner model (`Scanner.tla`, `MC_Scanner.tla`)

**State.** `input` is the stream as a sequence of one-character strings,
bounded by `MaxLen`. `cur` is the scanner's cursor:
* `pos`, the bytes read from the stream;
* `last`, the pushback slot `_lastChar`;
* `line`, `_lineno`;
* `os`, `_ostring`, which is never cleared;
* `clob`, a history flag set if `putback` ever overwrote a full slot.

`tokens` records every token returned, with its first and last byte, its line
and its text. `done` records that `C_EOF` was returned.

**Actions.** One call of `getToken` is the one action `GetToken`. It models the
whole method (`Scanner.cpp` 375-424): the skip loop, the dispatch on the first
character, and the calls to `scanNumber`, `scanSpecial` and `scanIdentifier` in
the code's order. Each helper is a pure operator over the cursor record:
recursive operators for the loops, and a table (`SpecialCases`) for the body of
`scanSpecial`'s switch. `ScanSpecial` calls `SpecialSwitch(g2.c, g2.c)`,
exactly as the code does `switch(c2)`. C_EOF is the value `EOF`, and a 0xFF
byte in the stream is that same value, as with the code's `uint8_t`.

**Bounds.** Streams are up to 4 bytes long over 15 characters: a keyword-prefix
letter, another letter, `0`, `1`, `x`, `<`, `>`, `=`, `+`, `;`, `/`, `*`, a
quote, a space and a newline. That is every class `getToken` dispatches on
except 0xFF and bytes that no routine accepts. Four bytes are enough for the longest paths that matter: `0x1`
plus a follow byte, `<<=` plus one, `/**/`, and a newline pushed back after a
number. `MaxTokens` (5) bounds the calls. It exceeds `MaxLen`, so a
scanner that makes progress always reaches `C_EOF` within it. The passing run
explores 247,673 states in about 6 seconds.

**Runs.**

| Run | Expect | What it shows |
|---|---|---|
| `scanner_pass` | pass | `PushbackSingleSlot`: no path calls `putback` with the slot full. |
| `scanner_tokens` | violation | `ScannerCorrect` over all streams of up to 2 bytes of the passing run's alphabet and 0xFF. It is `TokensMatchSource` (every token is what its bytes spell), `LineNumberAtTokenStart` (spec 8, invariant 1: a token's line is 1 + the newlines before it) and `ReadsWholeInput` (`C_EOF` only once every byte is consumed). TLC's shortest counterexample is a lone operator character at the end of the stream, reported as `K_UNKNOWN`. |

The project allows few runs, so the other counterexamples are kept as
configurations of their own, each with an alphabet that isolates one fault
(`tlc -config <cfg> MC_Scanner`):

| Configuration | Property violated | What it shows |
|---|---|---|
| `Scanner_keyword.cfg` | `TokensMatchSource` | `i` scans as `K_IF`: `scanKeyword` compares only the identifier's length (line 88). |
| `Scanner_operator.cfg` | `TokensMatchSource` | `+=` scans as `==`: `scanSpecial` switches on the second character (line 182). |
| `Scanner_number.cfg` | `TokensMatchSource` | `1` has the text `11`: the first digit is pushed back after being stored (line 308). |
| `Scanner_slash.cfg` | `TokensMatchSource` | in `/o` the `o` is lost: `scanComment` does not push back the byte after a lone `/` (line 355). |
| `Scanner_cutop.cfg` | `TokensMatchSource` | a `+` at the end of the stream is `K_UNKNOWN` (line 178). |
| `Scanner_lineno.cfg` | `LineNumberAtTokenStart` | a token followed by a newline is reported on the next line (spec 8.1; line 370). |
| `Scanner_eofbyte.cfg` | `ReadsWholeInput` | a 0xFF byte ends the stream early (line 366). |

**Fairness.** None: no property is about what must eventually happen. A byte
no routine accepts is returned as `K_UNKNOWN` without being consumed (line
404), so the next call sees it again; spec 4.2 has the parser turn `Unknown`
into a diagnostic that ends the parse, so this is not checked. The runs use `CHECK_DEADLOCK FALSE` because the scanner really stops: after `C_EOF`
there is nothing left to do.

**Mutants.** Each property of the passing run is shown to catch a plausible
fault in a mapped definition:
* a `scanSpecial` without the `putback(c2); return c1;` after its switch,
  which returns no token for a second character no case accepts, breaks
  `TypeOK`;
* a `scanNumber` that pushes back both `0` and its follower breaks
  `PushbackSingleSlot`.

## 4. The handle store model (`IdStore.tla`, `MC_IdStore.tla`)

**State.** `values` and `marked` are `_values` and `_valueMarked` (slot `i` of
the code is element `i + 1`), `freeCount` is `_freeValueIdCount`. `phase` and
`idx` are the state of a running `gcSweep` loop. The environment is a mutator:
`refs` holds the `<<id, object>>` pairs it keeps (the roots), `dropped` those it
has let go of, `allocated` the objects it has created. `failed` records that an
`assert` of `add` or `remove` fired; nothing runs after it.

**Actions.** `Allocate(o)` is `add()` as a whole (`Add`): the reuse path takes the
first null slot (`FirstFree`) and decrements the count, and the append path
pushes and marks. `Release` drops a reference. `GcMark` is `gcClear()` followed
by `gcMark` of each root. `SweepStep` is one iteration of the sweep loop: the
test `Sweeps(i)` (non-null, unmarked, collectable), then `remove()`, then
`++i` at the index's width (`NextIndex`). `SweepEnd` is the loop exit.
`Global::gc` and `Global::addObject` are not in the repository, so the root set
is the mutator's handles (spec 4.5) and a collection runs between mutator
steps (spec 5). `Collectable` selects the store: the object store's sweep tests
`collectable()`, and the string store's sweep frees every unmarked entry.

**Bounds.** There are four objects, one of them non-collectable, in four slots
with a 3-bit index. That is enough for two frees followed by two reuses, for
a reuse after a reuse, and for a non-collectable object to be dropped. The run
reaches 12,362 states.

**Fairness.** `WF` on `SweepStep` and `SweepEnd`: `gcSweep` is a loop of one
thread that nothing suspends. Only `IdStore_wrap.cfg`'s `SweepTerminates`
uses it.

| Run | Expect | What it shows |
|---|---|---|
| `idstore_pass` | pass | `FreeCountMatches`: the count is the number of null slots, so `add` never reaches `assert(false)`. `RefsResolve`: every held id names its own object (spec 8.4) and no `assert` fires. |
| `idstore_stale_handle` | violation | `StaleHandleRefused`: a handle dropped before a collection passes `isValid` after `add` reuses its slot, and it names the new object. |

Two hazards no run reaches, with configurations that reproduce them:
`IdStore_wrap.cfg` gives a 2-bit index and four slots,
and the sweep never ends (`SweepTerminates`). The code's `uint16_t` index fails
in the same way at 65536 slots. `IdStore_sentinel.cfg` models the string
store, where the sweep frees slot 0 unless something marks it, and
`remove(0)` fails its `assert` (`SentinelKept`). Whether anything marks
slot 0 is up to `Global::gc`, which is not in the repository.

**Mutants.**
* `add` without the resize of `_valueMarked` breaks `TypeOK`.
* `remove` without `++_freeValueIdCount` breaks `FreeCountMatches`.
* a reuse loop that tests the mark bit instead of the pointer breaks
  `RefsResolve`.

## 5. The event and pinning model (`EventPinning.tla`, `MC_EventPinning.tla`)

**State.** `conn` and `shells` are the TCP connections and `_shells[]`.
`state` is each `Task`'s life cycle. `roots` holds the objects a running task
holds on its stack, and `live` holds the objects not yet freed. `pins` counts
`GC::addStaticObject` calls per function. `listening` is each task's
event-listening count. `pending` holds the lookups the host has not answered,
each the lambda's captures `[task, func, this]`. `fired` records what each
callback found when it ran: whether its task was running and whether the
function was live. `lookups` counts calls.

Not checked: whether the `IPAddr` instance passed as `this` is still alive
when the callback runs. `lookupHostname` pins only `funcValue` and captures
`thisValue` in the lambda. Whether a collection can then free it depends on
whether the collector sees the lambda's captures. The collector is not in the
repository, and spec 4.5 counts "every value currently referenced by an
in-flight event record" as a root.

**Actions.**
* `Connected` and `Disconnected` are the two arms of `TCPevent`.
* `TaskFinish` is a task returning when it listens for nothing.
* `Alloc` and `Drop` are the mutator.
* `LookupHostname` is the whole native: it pins the function when the argument
  is an object, calls `startEventListening`, and hands the host the lambda.
* `DnsComplete` is the lambda: `fireEvent`, then `removeStaticObject` and
  `stopEventListening`.
* `Gc` frees every object no running task roots and no pin keeps.

**Name checks** (`Application.tla`). `ValidateFileName` and
`ValidateBonjourName` are pure operators. A name is a null pointer or the
character codes before its terminating zero. `NameLoop` is the shared `for`
loop: `BadLength` once `i` reaches 31, `InvalidChar` at the first character
the check does not allow, `Ok` at the end. `NamesChecked` compares both checks
with a reference: a name is acceptable when it is not null, has 1 to 31
characters, and every character is in the allowed class (letters, digits and
`- . _ +` for file names; lower-case letters, digits and `-` for Bonjour
names). An acceptable name must give `Ok`. Any other name must give an error
it really has. The inputs (`MCNames`) are the null name and names of 0, 1, 2,
30, 31, 32 and 33 characters, all `a` except the first or last one. That one
character is on or next to an edge of an allowed range: space, `+ - . / 0 9 :
@ A Z [ _` and backquote, `a z {`. `MC_EventPinning` composes the checks with
the event model through the variable `checked`. An initial state either
starts the event model (`checked = NoneName`), or gives one name to both
checks and has no successor. So the names add 184 initial states and leave
the event model's behaviours as they are.

**Bounds.** Two connections and three tasks, so that a connection can be
reopened with a fresh task. There is one function and one `IPAddr` instance,
the non-collectable prototype, and a non-object callback. There are at most
two lookups, so two can be in flight on one task or on two. The run reaches
209,074 states, 184 of them the name checks' states.

**Fairness.** None. Whether the host answers every lookup is up to the DNS
layer, which is not in the repository, so no property says that a pin is
eventually released. A connection may stay open and a task may run for
ever, so the run has `CHECK_DEADLOCK FALSE`. With a bounded pool of tasks and
lookups a behaviour can stop with every connection closed.

| Run | Expect | What it shows |
|---|---|---|
| `events_pass` | pass | `ListeningMatchesPending`: each task's listening count is its unanswered lookups. `CallbackFunctionLive`: the pin keeps the function alive across collections. `NamesChecked`: the two name checks accept exactly the names of 1 to 31 allowed characters. |
| `events_callback_captures` | violation | `CallbackOnLiveTask`: when the DNS answer comes, the task whose `ExecutionUnit` the lambda captured is still running (spec 4.6: terminate unwinds the task and releases its event pin-set). The connection can close while a lookup is in flight; `TCPevent(Disconnected)` terminates the task and cancels nothing, and the lambda then calls `fireEvent` on the terminated task's `ExecutionUnit`. |

**Mutants.**
* `Disconnected` that also stops the task's event listening, as a cancel
  on terminate would, breaks `TypeOK`: the lambda later decrements the
  count below zero.
* `lookupHostname` without `addStaticObject` breaks `CallbackFunctionLive`.
* a lambda without `stopEventListening` breaks `ListeningMatchesPending`.
* a name loop whose length test is `i >= 32` breaks `NamesChecked`: it
  accepts a name of 32 characters.

## 6. The statement parser model (`ParseEngine.tla`, `JsSemantics.tla`, `MC_ParseEngine.tla`)

**Reference.** `JsSemantics.tla` gives a small syntax of statements: prints,
`;`, `break`, `continue`, blocks, `if`/`else`, `while`, `do`, `for`
(with a `var` or an expression init), `for..in` over an iterable of none
or two elements, `switch`, `return`, `var`, `delete`,
and `function` and `class` statements. It also gives their source text as tokens (`TextSeq`) and their
meaning (`Meaning`). A condition reads the next value of an oracle, a finite
sequence of booleans, and the observation is the sequence of prints with how
the run ended. The constant `FallThrough` selects the meaning of `switch`:
`TRUE` is JavaScript and spec S4, and `FALSE` runs the entered case's one
statement, with an empty case passing on to the next.

**Parser.** `ParseEngine.tla` translates the statement methods of
`ParseEngine.cpp` into operators from a parser state to a parser state. The
state holds the token position, the main and deferred code, the open deferred
blocks, `_breakStack`, `_continueStack`, the syntax-error flag and an
undefined-behaviour flag. Each method's sequence of calls is a chain of
`Bind`s in the code's order, and each `return true/false` is the `ok` field.
`Parser` (labels, matched jumps, deferred regions) is not in the repository.
It is modelled from spec 4.3 and 4.3.2:
* a label holds its address and the address of its matched jump;
* a jump holds an offset relative to itself;
* `matchJump` writes that offset into the buffer being emitted;
* a write outside the buffer, or over an instruction that is not a jump, is
  undefined behaviour;
* `expression()` is a single token (the expression grammar is
  `ExprParse.tla`, section 7).

`var` goes through `variableDeclarationList` and `variableDeclaration` (an
identifier, optionally `= expression`, then `emitMove` and `discardResult`).
A `function` statement pushes a new function on `_functions`, parses its
formal parameters and body into its own code, and emits the function's
constant and a `MOVE` into its name. `return` emits `RET 0` or `RET 1`, or
`THIS` then `RET 1` in a constructor. A `class` parses its members with
`classContentsStatement`: a field with a literal or no initialiser, a method,
or a `constructor` (a function with `ctor` set). The code of every function
is kept in `funcs`, so `TypeOK` and `JumpsPatched` look at all of it.



`for (var v : o)` and `for (x : o)` go through `forIteration`
(lines 357-401): the object's `iterator` is called with `NEW 1` and stored
in the loop variable; the head of the loop calls its `done()` and jumps out
on true; after the body (where `continue` lands) it calls `next()` and jumps
back. The name given to `forIteration` is the declared identifier for
`var`, and `Atom()` (line 471) for the expression form.

**VM.** `Compile` parses the program's text. If there is no syntax error and
no undefined behaviour, the VM runs the main code one instruction per action:
`ExecExpr`, `ExecPop`, `ExecCaseTest` (spec 4.4: it leaves the discriminant),
and `ExecJump`, `ExecLoad` (`ID`, `PUSHID`, `CLASS`, `DUP`), `ExecMove`
(which stores into the named local), `ExecPush` (an argument), `ExecDeref`
(a property of an object, a method bound to it), `ExecCall` (`CALL` and
`NEW`) and `ExecRet`. The heap is the locals by name, the iterators made
(each the count of elements it has left), and the pushed arguments. An
iterator obeys the contract of invariant 7: `done()` is true once `next()`
has been called as often as the object has elements. `Stop` ends the run at the end of the code, or on a fault: an
unpatched jump, a jump out of the code, or the step bound.

**Bounds.** `MaxSteps` = 100 (60 in the violation cfgs) exceeds any run of the programs checked on an
oracle of at most 3 values. The passing run's programs are:
* every loop (`while`, `do`, `for` with a `var` init) whose body is a print,
  `break`, `continue`, `;`, an `if` or `if`/`else` of these, or a block of
  two;
* an `if` around such a loop, and a loop around a loop;
* switches with two or three cases whose bodies are a print, a block or
  nothing, with and without `default`, some of them inside a loop with
  `continue`;
* `var` with one or two declarators, with and without initialisers;
  `return` with and without a value; a function whose body has a loop with
  `break` and `return`; a nested function; classes with a field, a method and
  a constructor;
* `for (var v : o)` over an empty and a two-element object, with each of the
  loop bodies above, inside a `while` with `break`, and around a `while` with
  `continue`.

Each program is followed by a print, is valid JavaScript, and is run on all
15 oracles. That makes 70,955 states, and every VM action fires.

| Run | Expect | What it shows |
|---|---|---|
| `parse_pass` | pass | `JumpsPatched`: every jump of every function's code is patched inside that code. `ParserBalanced`: the label stacks, deferred blocks, function and class stacks are back to empty. `CompiledMatchesSource` (with `FallThrough = FALSE`): every program compiles and prints what it means. `StackBalance`: a run that ends leaves the operand stack empty. |
| `parse_switch` | violation | `CompiledCorrect` (`CompiledMatchesSource`, `StackBalance` and `ParserMemorySafe`: no `back()` of an empty label stack and no `matchJump` over an instruction that is not a jump of the buffer being emitted) over the switch divergences, the stack leaks, the `for (x : o)` fault and the misfiled breaks. |

The violation run has five reproduction cfgs, one per finding:
* `ParseEngine_fallthrough.cfg`: with the JavaScript meaning,
  `switch (2) { case 1: p; case 2: q; default: n; }` prints `q`, not `q n`.
  Each case body ends in `JMP afterStatements` (line 286).
* `ParseEngine_switchbreak.cfg`: a `break` in a case body of a switch inside
  `while` records a deferred-buffer address (line 501). The loop patches it
  in the main code, over an instruction that is not a jump.
* `ParseEngine_stackleak.cfg` (`StackBalance`): `delete p;` emits no delete
  and no `discardResult` (line 97), and `for (p; c; n)` never discards the
  init's value (line 473). Each leaves a value on the operand stack, against
  spec invariant 3.
* `ParseEngine_fnbreak.cfg` (`ParserMemorySafe`): `_breakStack` is one stack
  for the whole parse, so a `break` in a function inside a loop binds to the
  outer loop's label. That loop then patches an address of the other
  function's code in its own (line 501). Its second program is a `break`
  outside every loop, which calls `back()` on the empty `_breakStack`
  (line 502). JavaScript rejects both programs; this code accepts them and
  corrupts memory.
* `ParseEngine_forin.cfg`: `for (v : o) p;` passes `Atom()`, the empty
  name, to `forIteration` (line 471). The iterator is stored into `v`, but
  `done()` is looked up on the unnamed local, which is undefined, and the
  run faults where the program should print `p p q`.

Not checked: a `for` or `switch` nested in a case body. Its body would start a
deferred block while one is being resumed, and how `Parser` handles that is
not in the repository. A case body of two statements is a syntax error in
this code: the case loop ends at the second statement. That is another
divergence from spec 4.3.2 ("parse the body statements"), and it is visible by
adding such a program to a run.

**Mutants.**
* `expression()` accepting any token breaks `TypeOK`.
* a loop that does not resolve its `break`s breaks `JumpsPatched`.
* a loop that does not pop `_continueStack` breaks `ParserBalanced`.
* `forLoopCondAndIt` resolving `continue` after `emitDeferred`, so that a
  `continue` skips the iterator, breaks `CompiledMatchesSource`.
* `variableDeclaration` without its `discardResult` breaks `StackBalance`.
* `forIteration` resolving its `continue`s after the `next()` call, so that
  a `continue` skips it and the loop never ends, breaks
  `CompiledMatchesSource`.

## 7. The expression parser model (`ExprParse.tla`, `MC_ExprParse.tla`)

`ExprParse.tla` translates `expression(minPrec)` (precedence climbing over
`_opInfos`, with the ternary, `&&` and `||`), `arithmeticPrimary` (unary
prefix operators and `( expression )`), `leftHandSideExpression` with its
call, index and member suffixes and postfix `++`/`--`, `memberExpression`
with `new`, and `primaryExpression` with identifiers, array and object
literals. They are pure operators from a token position to a token position
and an operand stack. The emitted code is abstracted to the expression tree it
computes: `emitDup`, `emitBinOp`, `emitUnOp` and `emitMove` push and combine
entries of a stack of trees. The jumps of `&&`, `||` and `?:` become the node
their two paths compute.

**Reference.** A tree is printed with the fewest parentheses that spec
4.3.4's precedence list allows. The ternary is printed as in JavaScript, so its
condition binds looser than every binary operator except assignment. Each
state of the model is one tree, and `ExpressionRoundTrip` says that parsing
the printed tokens consumes all of them and leaves exactly that tree on the
stack.

**Bounds.** Trees over the identifiers `a` and `b` with up to two operators.
That covers every binary operator at each precedence level, assignment and
`+=`, prefix and postfix operators, the ternary, calls with zero to two
arguments, members, indexes, `new` with and without arguments, and array and
object literals. That makes 34,986 states, all of them initial. The pass
run leaves out two shapes where the code diverges: a ternary whose condition
is a binary expression, and a suffix on a parenthesised expression. Those
shapes are the violation run's.

| Run | Expect | What it shows |
|---|---|---|
| `expr_pass` | pass | `ExpressionRoundTrip` and `TypeOK` over every tree of the bounded grammar. |
| `expr_divergence` | violation | `ExpressionRoundTrip` over the divergent trees. `a + b ? a : b` parses as `a + (b ? a : b)`, because `expression()` tests for `?` right after each operand (line 610; `ExprParse_ternary.cfg`). `(a + b).c` stops after the parenthesis, because `arithmeticPrimary` skips the suffix loop (line 565; `ExprParse_parensuffix.cfg`). `new a.c()` calls a member of `new a` (line 710; `ExprParse_newmember.cfg`). |

**Mutants.** A member suffix that skips one token too many after `.name`
breaks `TypeOK`. An operator loop that parses every right operand at the
operator's own precedence, as if every operator were right associative,
breaks `ExpressionRoundTrip`.

## 8. The natives model (`Natives.tla`, `MC_Natives.tla`)

`Natives.tla` models the thirteen functions the `Global` constructor binds:
* `toInt`, `toUInt` and `toFloat`, with `allowWhitespace`;
* `print`, `println` and `printf`;
* `currentTime`, `delay` and `waitForEvent`;
* `arguments`, `meminfo`, `import` and `importString`;
* the script `IPAddr` constructor and its `toString` (`IPAddr.cpp`).

The constructor takes a dotted-quad string, parsed by `toIPAddr`
(`IPAddr.tla`), or four integers. It returns `OutOfRange` if any of the four
is outside 0..255, and otherwise stores the octets in the object, the `obj`
variable. `toString` prints the object's octets in decimal, joined by `.`,
and refuses arguments with `WrongNumberOfParams`. `String::split`,
`String::toUInt` and `String(uint8_t)` are not in the repository; they are
modelled by what their names promise.

Each is an operator from the Task's operand stack and argument count to a
`CallReturnValue` and a new stack, read by negative offsets from the top as
in `Global.cpp`. `CallNative` runs the next statement of a Task's program,
pops its arguments and keeps the results it reports. The pieces of the
environment the code reads (whether the heap has room, the heap statistics,
whether a load succeeds) are chosen from small sets. `Wake`,
`DeliverEvent`, `Finish` and `Advance` model the scheduler from spec 4.6: a
delay sleeps until `now + Duration(ms, ms)`, and `waitForEvent` sleeps until
an event comes. The `Duration` constructor, `us()` and `Time + Duration` are
translated from `SystemTime.h`, with `MaxValue` computed the way the code
computes it.

**Bounds.** Programs of one or two calls. The calls give each conversion
every string of a small table, with and without `allowWhitespace`, and cover:
* printing zero to two values;
* delays below, at and above `MaxValue`;
* `arguments` with and without room for its Array;
* `meminfo` on a heap with room and on an exhausted one;
* imports that load, fail, or have no argument;
* `IPAddr("10.0.0.1")` and `IPAddr("192.168.0.255")`, then `toString()`;
  `IPAddr(a, 0, 255, d)` for (a, d) = (10, 1), (256, 1) and (10, -1),
  then `toString()`; and `toString(0)`.

The clock moves in 1 ms steps up to 6 ms. Lua Tasks run one script of each
class (it runs, it throws, it has a syntax error), with every allocation
failure point. That makes 34,621 states.
Deadlock checking is off, because a Task that has finished and a clock at
`MaxTime` are meant to stop.

| Run | Expect | What it shows |
|---|---|---|
| `natives_pass` | pass | `StackBalance`: the stack holds exactly what each native reports. `ResultsMatchArgs`: each native's result or error is the one a reference reading of its arguments gives; for `IPAddr`, `toString` gives back the address the constructor was given, and an octet outside 0..255 is `OutOfRange`. `OutputMatchesArgs`: the printed text is every print's arguments in order. |
| `natives_pass` (Lua) | pass | `LuaStateSafe`: the `lua_State` is never used after `lua_close` or closed twice, and it is freed once the engine is destroyed. |
| `task_contract` | violation | `ContractRefined`: the Task model, under both frontends, does not implement `TaskContract`. The cfgs below isolate each cause. |

The cfgs that isolate each cause of the `task_contract` violation:
* `Natives_delay.cfg`: `delay(5)` wakes after 3 ms. `MaxValue` is
  `(1 << (sizeof(int32_t) - Shift)) - 1` = 3, because `sizeof` counts bytes
  (SystemTime.h:60).
* `Natives_delayarg.cfg`: `delay(3, 0)` does not sleep, because `delay`
  reads `top()`, the last argument (Global.cpp:69).
* `Natives_meminfo.cfg`: `meminfo` on an exhausted heap uses the object
  that `Mad<MaterObject>::create` failed to make (Global.cpp:216). `Mad` is
  not in the repository, so the model treats this as a fault of the
  process. Spec 7 lets an allocation failure end only the Task.
* `Natives_luaload.cfg`: `LuaEngine::load` has no `return`
  (LuaEngine.cpp:76). A script that compiled can be reported as rejected,
  and a rejected one as loaded.
* `Natives_contract.cfg` with out-of-memory: after a NULL `luaL_newstate`,
  `load` goes on to `luaL_openlibs(NULL)` (line 53). An allocation failure
  in `luaL_openlibs` or `luaL_ref` is unprotected and aborts the process.

**The Lua frontend** (`LuaEngine.tla`). The variables are the engine's
members (`_state`, `_nerrors`, `_error`, `_functionIndex`), plus:
* `stateMem`, the allocator's view of the `lua_State`;
* `loadRet` and `crv`, what `load` and `execute` returned;
* `aborted`, set when the process faults or aborts.

Its actions are `Load`, `Execute` and `Destroy`, one for each of `load`,
`execute` and the destructor. Each models the whole function. The Lua
library is not in the repository, so its calls follow the Lua 5.3 manual:
* `luaL_newstate` may return NULL;
* `luaL_openlibs` and `luaL_ref` raise an unprotected error on allocation
  failure, and the panic handler then aborts;
* `lua_load` and `lua_pcall` return a status (`LUA_ERRMEM` among them).

The value `load` returns is undefined behaviour, so it is either boolean.
In `Natives.tla`, `LuaLoad`, `LuaRun` and `LuaRelease` drive the engine
through `INSTANCE LuaEngine`.

**Refinement.** `Contract == INSTANCE TaskContract WITH ...` maps the
Task's state onto the abstract one:
* the Task's status goes to the abstract status (ready to running, done to
  finished, error to failed);
* `now` goes to the clock;
* `woke.from + woke.req * 1000` goes to the earliest wake-up time;
* "a valid program of its language" goes to `valid`;
* `allocFailed` goes to `memFailed`.

`ContractRefined == Contract!Spec` is the property.

**Mutants.**
* `currentTime` pushing `Float(t, 6)` for `Float(t, -6)` breaks `TypeOK`.
* `toUInt` pushing its result but reporting none breaks `StackBalance`.
* a conversion that reads `allowWhitespace` at the string's offset breaks
  `ResultsMatchArgs`. So does `meminfo` reporting the whole heap as
  allocated, and so does an `IPAddr` range check of `> 256`, which stores
  256 as octet 0.
* `print` dropping its last argument breaks `OutputMatchesArgs`.
* `execute` closing the state but leaving `_state` set breaks
  `LuaStateSafe`: the destructor closes it a second time.

## 9. Not modelled

* `parse.tab.cpp`, the Bison tables: generated code.
* Lines 426-644 of `Scanner.cpp`: a second scanner inside `#if 0`, never
  compiled.
* `Value::format`, `toString` and `printError`: pure output. The natives
  that call them are modelled, and their text is given by tables over the
  few values the model uses.
* The Lua library itself: it is not in the repository. Its calls are
  modelled by what the Lua 5.3 manual says they return (section 8).
  `readStream`'s byte loop is abstracted to the class of the script it
  feeds.
* Function and class expressions, `this`, and literals other than integers in
  the expression grammar. One integer stands for every constant.
* `runLoop` and the constructor of `Application` (`Application.cpp`):
  `mount()` and the loop call into `FS.h` and system code, which are not in
  the repository.
* An `IPAddr` string that `toIPAddr` rejects, and a constructor call with a
  count other than 1 or 4. The code ignores `toIPAddr`'s `false`, and the
  result is then the default `IPAddr` of `IPAddr.h`, which is not in the
  repository. The model keeps such octets as `Unset`, but the runs give no
  such input, because the spec says nothing of what they should give.
* The rest of `Duration` (`ms()`, negation, arithmetic, comparison,
  `Time - Time`): no code in the repository calls it.
* The accessors of `Value.h` and `Global.h` beyond the values and handle
  operations the models use.
* The prototype objects the `Global` constructor creates (Array, JSON, TCP,
  FS...): their code is not in the repository.
* `UDPSocket.h` and `Function.h`: declarations and one-line accessors.
