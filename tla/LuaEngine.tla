----------------------------- MODULE LuaEngine -----------------------------
(***************************************************************************)
(* The Lua frontend of src/src/LuaEngine.cpp: LuaEngine::load, execute and *)
(* the destructor, over the one lua_State an engine creates.              *)
(*                                                                         *)
(* The Lua library is not in the repository.  Its calls are modelled by    *)
(* what the Lua 5.3 reference manual says they do: luaL_newstate returns   *)
(* NULL when it cannot allocate; luaL_openlibs and luaL_ref run outside    *)
(* protected mode, so an allocation failure there is an unprotected error, *)
(* which calls the panic function luaL_newstate installs and then abort(); *)
(* lua_load and lua_pcall catch errors and return a status; lua_close     *)
(* frees the state.  stateMem is the allocator's view of the lua_State,   *)
(* which sees a call on a freed state or a second lua_close.               *)
(*                                                                         *)
(* The script is abstracted to what load and execute tell apart: it      *)
(* compiles and runs, it compiles and raises an error when run, or it has *)
(* a syntax error.  readStream feeds lua_load one byte at a time and ends *)
(* the chunk by returning nullptr; that is all of the script it sees.      *)
(***************************************************************************)
EXTENDS Integers

CONSTANTS
    Scripts,            \* the scripts, a subset of {"runs", "throws", "syntax"}
    MayRunOutOfMemory   \* whether an allocation inside the Lua library can fail

Null == "null"

(* Where the first allocation of load fails, if one does: in              *)
(* luaL_newstate, in luaL_openlibs, inside lua_load, or in luaL_ref.       *)
FailPoints ==
    IF MayRunOutOfMemory THEN {"none", "newstate", "openlibs", "load", "ref"}
    ELSE {"none"}

VARIABLES
    script,         \* the source the Stream holds
    luaState,       \* _state: Null or "L", the state luaL_newstate made
    nerrors,        \* _nerrors
    luaError,       \* _error
    functionIndex,  \* _functionIndex: -1, or the registry reference
    stateMem,       \* the lua_State's memory: "none", "live", "freed", "corrupt"
    allocFailed,    \* an allocation inside load failed
    loadRet,        \* what load returned to its caller: "none" or a boolean
    crv,            \* what execute returned: "none", "Finished", "InternalError"
    aborted,        \* the process faulted or called abort()
    destroyed       \* ~LuaEngine has run

luaVars == <<script, luaState, nerrors, luaError, functionIndex, stateMem,
             allocFailed, loadRet, crv, aborted, destroyed>>

(* The members' initialisers of LuaEngine.                                 *)
Fresh ==
    /\ luaState = Null
    /\ nerrors = 0
    /\ luaError = "OK"
    /\ functionIndex = -1
    /\ stateMem = "none"
    /\ allocFailed = FALSE
    /\ loadRet = "none"
    /\ crv = "none"
    /\ aborted = FALSE
    /\ destroyed = FALSE

Init == script \in Scripts /\ Fresh

(* A call of the Lua API on the state: the allocator sees a freed state    *)
(* being used.                                                             *)
Use(mem) == IF mem = "live" THEN "live" ELSE "corrupt"

(* lua_close: frees a live state; a second close is a double free.        *)
Close(mem) == IF mem = "live" THEN "freed" ELSE "corrupt"

(* load(stream): luaL_newstate; on NULL set OutOfMemory and nerrors, and  *)
(* go on to luaL_openlibs(NULL), which dereferences it.  Otherwise         *)
(* luaL_openlibs, lua_load with readStream, then on LUA_OK set OK and take *)
(* luaL_ref of the chunk; on an error keep the message, set ParseError for *)
(* LUA_ERRSYNTAX and InternalError for the others, lua_close and null      *)
(* _state.  The function ends without a return statement, so its caller   *)
(* reads whatever the build leaves in the return register: either bool.   *)
Load ==
    /\ loadRet = "none" /\ ~aborted /\ ~destroyed
    /\ \E f \in FailPoints, ret \in BOOLEAN :
       LET status == CASE f = "load" -> "LUA_ERRMEM"
                       [] script = "syntax" -> "LUA_ERRSYNTAX"
                       [] OTHER -> "LUA_OK"
       IN
       \* luaL_ref runs only after a LUA_OK
       /\ allocFailed' = (f # "none" /\ (f = "ref" => status = "LUA_OK"))
       /\ CASE f = "newstate" ->
                 /\ luaError' = "OutOfMemory" /\ nerrors' = 1 /\ aborted' = TRUE
                 /\ UNCHANGED <<luaState, functionIndex, stateMem, loadRet>>
            [] f = "openlibs" ->
                 /\ luaState' = "L" /\ stateMem' = "live" /\ aborted' = TRUE
                 /\ UNCHANGED <<nerrors, luaError, functionIndex, loadRet>>
            [] status = "LUA_OK" /\ f = "ref" ->
                 /\ luaState' = "L" /\ stateMem' = "live" /\ aborted' = TRUE
                 /\ luaError' = "OK" /\ nerrors' = 0
                 /\ UNCHANGED <<functionIndex, loadRet>>
            [] status = "LUA_OK" ->
                 /\ luaState' = "L" /\ stateMem' = "live"
                 /\ luaError' = "OK" /\ nerrors' = 0 /\ functionIndex' = "ref"
                 /\ loadRet' = ret /\ aborted' = FALSE
            [] OTHER ->
                 /\ luaError' = IF status = "LUA_ERRSYNTAX" THEN "ParseError" ELSE "InternalError"
                 /\ nerrors' = 1
                 /\ stateMem' = Close("live") /\ luaState' = Null
                 /\ loadRet' = ret /\ aborted' = FALSE
                 /\ UNCHANGED functionIndex
    /\ UNCHANGED <<script, crv, destroyed>>

(* The statuses lua_pcall can return for the script: 0, LUA_ERRRUN (2)   *)
(* for a script that throws, LUA_ERRMEM (4) when it runs out of memory.   *)
PcallStatuses ==
    (IF script = "runs" THEN {0} ELSE {2}) \cup (IF MayRunOutOfMemory THEN {4} ELSE {})

(* Mutant: execute closes the state but leaves _state set.                 *)
ExecuteKeepMut ==
    /\ crv = "none" /\ ~aborted /\ ~destroyed
    /\ IF luaState = Null
       THEN /\ crv' = "InternalError"
            /\ UNCHANGED <<luaState, stateMem>>
       ELSE \E status \in PcallStatuses :
            /\ stateMem' = Close(Use(stateMem))
            /\ crv' = IF status = 0 THEN "Finished" ELSE "InternalError"
            /\ UNCHANGED luaState
    /\ UNCHANGED <<script, nerrors, luaError, functionIndex, allocFailed,
                   loadRet, aborted, destroyed>>

(* execute(): InternalError without a state; else push the chunk with     *)
(* lua_rawgeti, lua_pcall it (a non-zero status is printed), lua_close and *)
(* null _state, and return Finished for status 0, else InternalError.      *)
Execute ==
    /\ crv = "none" /\ ~aborted /\ ~destroyed
    /\ IF luaState = Null
       THEN /\ crv' = "InternalError"
            /\ UNCHANGED <<luaState, stateMem>>
       ELSE \E status \in PcallStatuses :
            /\ stateMem' = Close(Use(stateMem))
            /\ luaState' = Null
            /\ crv' = IF status = 0 THEN "Finished" ELSE "InternalError"
    /\ UNCHANGED <<script, nerrors, luaError, functionIndex, allocFailed,
                   loadRet, aborted, destroyed>>

(* ~LuaEngine: lua_close a state that _state still holds.                  *)
Destroy ==
    /\ ~destroyed /\ ~aborted
    /\ destroyed' = TRUE
    /\ IF luaState # Null
       THEN stateMem' = Close(stateMem) /\ luaState' = Null
       ELSE UNCHANGED <<stateMem, luaState>>
    /\ UNCHANGED <<script, nerrors, luaError, functionIndex, allocFailed,
                   loadRet, crv, aborted>>
=============================================================================
