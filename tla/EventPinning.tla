---------------------------- MODULE EventPinning ----------------------------
(***************************************************************************)
(* Shell tasks, hostname lookups and the collector.                        *)
(*                                                                         *)
(* MyShellSocket::TCPevent (src/src/Application.cpp) creates one shell     *)
(* Task per TCP connection and terminates it when the connection closes.   *)
(* A running task may call IPAddrProto::lookupHostname                     *)
(* (src/lib/m8rscript/src/IPAddr.cpp), which pins the callback with        *)
(* GC::addStaticObject, calls eu->startEventListening() and hands the host *)
(* a lambda that captures thisValue, the raw ExecutionUnit* and funcValue. *)
(* When DNS completes the host runs the lambda: fireEvent on that eu, then *)
(* removeStaticObject and stopEventListening.  Between the call and the    *)
(* answer the connection can close (Task::terminate) and the collector can *)
(* run.                                                                    *)
(*                                                                         *)
(* Object lifetimes are abstracted to the set of live objects; the         *)
(* collector frees every collectable object that no running task holds and *)
(* no pin keeps (the root set of spec 4.5: the VM stack and the static     *)
(* objects; the lambda's captures are not roots).  GC, the static-object   *)
(* list, Task and ExecutionUnit are not in the repository and are modelled *)
(* from spec 4.5 and 4.6.                                                  *)
(***************************************************************************)
EXTENDS Naturals, FiniteSets

CONSTANTS
    Conns,       \* connection ids (0 .. TCP::MaxConnections - 1)
    Tasks,       \* the Task objects Task::create may return
    Funcs,       \* script functions a task may pass as the callback
    Addrs,       \* IPAddr instances a task may call lookupHostname on
    Proto,       \* the IPAddr prototype: a non-collectable thisValue
    NoFunc,      \* a callback argument that is not an object
    MaxLookups   \* bound on the lookupHostname calls of a behaviour

ASSUME MaxLookups \in Nat

Objects == Funcs \cup Addrs
NoTask == "null"

VARIABLES
    conn,       \* conn[c]: "open" between Connected and Disconnected
    shells,     \* _shells[c]: a task or NoTask (nullptr)
    state,      \* state[t]: "unborn", "running", "finished", "terminated", "failed"
    roots,      \* roots[t]: the objects on t's VM stack
    live,       \* the objects allocated and not yet freed
    pins,       \* pins[f]: how often f is in the static-object list
    listening,  \* listening[t]: t's event-listening count
    pending,    \* lambdas handed to the host and not yet run
    fired,      \* one record per fireEvent the host has made
    lookups     \* the lookupHostname calls so far

vars == <<conn, shells, state, roots, live, pins, listening, pending, fired, lookups>>

Running == {t \in Tasks : state[t] = "running"}
Rooted == UNION {roots[t] : t \in Running}
PendingOf(t) == {r \in pending : r.task = t}

-----------------------------------------------------------------------------
Init ==
    /\ conn = [c \in Conns |-> "closed"]
    /\ shells = [c \in Conns |-> NoTask]
    /\ state = [t \in Tasks |-> "unborn"]
    /\ roots = [t \in Tasks |-> {}]
    /\ live = {}
    /\ pins = [f \in Funcs |-> 0]
    /\ listening = [t \in Tasks |-> 0]
    /\ pending = {}
    /\ fired = {}
    /\ lookups = 0

(* TCPevent(Connected): _shells[id] = Task::create(...); on success        *)
(* Task::run, on error _shells[id] = nullptr and tcp->disconnect(id),      *)
(* which later delivers Disconnected.                                      *)
Connected(c, t) ==
    /\ conn[c] = "closed"
    /\ state[t] = "unborn"
    /\ conn' = [conn EXCEPT ![c] = "open"]
    /\ \/ /\ state' = [state EXCEPT ![t] = "running"]
          /\ shells' = [shells EXCEPT ![c] = t]
       \/ /\ state' = [state EXCEPT ![t] = "failed"]
          /\ shells' = [shells EXCEPT ![c] = NoTask]
    /\ UNCHANGED <<roots, live, pins, listening, pending, fired, lookups>>

(* Mut: terminate also stops the task's event listening, as a fix that    *)
(* cancels on terminate would, while the lambda still stops it later.      *)
DisconnectedStopMut(c) ==
    /\ conn[c] = "open"
    /\ conn' = [conn EXCEPT ![c] = "closed"]
    /\ shells' = [shells EXCEPT ![c] = NoTask]
    /\ IF shells[c] # NoTask
       THEN /\ state' = [state EXCEPT ![shells[c]] = "terminated"]
            /\ roots' = [roots EXCEPT ![shells[c]] = {}]
            /\ listening' = [listening EXCEPT ![shells[c]] = @ - 1]
       ELSE UNCHANGED <<state, roots, listening>>
    /\ UNCHANGED <<live, pins, pending, fired, lookups>>

(* TCPevent(Disconnected): if _shells[id], Task::terminate and null it.    *)
(* Termination unwinds the task's stack; its pending lookups are left as   *)
(* they are.                                                               *)
Disconnected(c) ==
    /\ conn[c] = "open"
    /\ conn' = [conn EXCEPT ![c] = "closed"]
    /\ shells' = [shells EXCEPT ![c] = NoTask]
    /\ IF shells[c] # NoTask
       THEN /\ state' = [state EXCEPT ![shells[c]] = "terminated"]
            /\ roots' = [roots EXCEPT ![shells[c]] = {}]
       ELSE UNCHANGED <<state, roots>>
    /\ UNCHANGED <<live, pins, listening, pending, fired, lookups>>

(* A shell task's program ends; a task still listening for events waits.   *)
TaskFinish(t) ==
    /\ state[t] = "running" /\ listening[t] = 0
    /\ state' = [state EXCEPT ![t] = "finished"]
    /\ roots' = [roots EXCEPT ![t] = {}]
    /\ UNCHANGED <<conn, shells, live, pins, listening, pending, fired, lookups>>

(* A running task creates an object and keeps it on its stack.             *)
Alloc(t, o) ==
    /\ t \in Running
    /\ o \notin live /\ \A u \in Tasks : o \notin roots[u]
    /\ o \notin {r.func : r \in pending} \cup {r.this : r \in pending}
    /\ \A e \in fired : o \notin {e.func, e.this}
    /\ live' = live \cup {o}
    /\ roots' = [roots EXCEPT ![t] = @ \cup {o}]
    /\ UNCHANGED <<conn, shells, state, pins, listening, pending, fired, lookups>>

(* A running task pops an object from its stack.                           *)
Drop(t, o) ==
    /\ t \in Running /\ o \in roots[t]
    /\ roots' = [roots EXCEPT ![t] = @ \ {o}]
    /\ UNCHANGED <<conn, shells, state, live, pins, listening, pending, fired, lookups>>

(* lookupHostname(hostname, func) with nparams >= 2 (fewer returns at once *)
(* and changes nothing): pin funcValue if it is an object, start listening *)
(* Mut: funcValue not pinned.                                              *)
LookupHostnameMut(t, f, th) ==
    /\ t \in Running /\ lookups < MaxLookups
    /\ f \in (roots[t] \cap Funcs) \cup {NoFunc}
    /\ th \in (roots[t] \cap Addrs) \cup {Proto}
    /\ listening' = [listening EXCEPT ![t] = @ + 1]
    /\ pending' = pending \cup {[id |-> lookups, task |-> t, func |-> f, this |-> th]}
    /\ lookups' = lookups + 1
    /\ UNCHANGED <<conn, shells, state, roots, live, fired, pins>>

(* and hand the host the lambda.                                           *)
LookupHostname(t, f, th) ==
    /\ t \in Running /\ lookups < MaxLookups
    /\ f \in (roots[t] \cap Funcs) \cup {NoFunc}
    /\ th \in (roots[t] \cap Addrs) \cup {Proto}
    /\ pins' = IF f \in Funcs THEN [pins EXCEPT ![f] = @ + 1] ELSE pins
    /\ listening' = [listening EXCEPT ![t] = @ + 1]
    /\ pending' = pending \cup {[id |-> lookups, task |-> t, func |-> f, this |-> th]}
    /\ lookups' = lookups + 1
    /\ UNCHANGED <<conn, shells, state, roots, live, fired>>

(* Mut: the lambda without eu->stopEventListening().                      *)
DnsCompleteNoStopMut(r) ==
    /\ r \in pending
    /\ fired' = fired \cup {[id |-> r.id, func |-> r.func, this |-> r.this,
                             taskLive |-> r.task \in Running,
                             funcLive |-> r.func \in live \cup {NoFunc}]}
    /\ pins' = IF r.func \in Funcs THEN [pins EXCEPT ![r.func] = @ - 1] ELSE pins
    /\ pending' = pending \ {r}
    /\ UNCHANGED <<conn, shells, state, roots, live, lookups, listening>>

(* The host runs the lambda: build the IPAddr result and name string,       *)
(* eu->fireEvent(funcValue, thisValue, args), removeStaticObject(func) if   *)
(* it is an object, eu->stopEventListening().  fired records what the call *)
(* found: whether eu's task was still running, and whether func was still  *)
(* a live object.                                                          *)
DnsComplete(r) ==
    /\ r \in pending
    /\ fired' = fired \cup {[id |-> r.id, func |-> r.func, this |-> r.this,
                             taskLive |-> r.task \in Running,
                             funcLive |-> r.func \in live \cup {NoFunc}]}
    /\ pins' = IF r.func \in Funcs THEN [pins EXCEPT ![r.func] = @ - 1] ELSE pins
    /\ listening' = [listening EXCEPT ![r.task] = @ - 1]
    /\ pending' = pending \ {r}
    /\ UNCHANGED <<conn, shells, state, roots, live, lookups>>

(* A collection (Global::gc at a safe point): free every live object that *)
(* no running task holds and no pin keeps.                                 *)
Gc ==
    /\ \E o \in live : o \notin Rooted /\ (o \in Funcs => pins[o] = 0)
    /\ live' = {o \in live : o \in Rooted \/ (o \in Funcs /\ pins[o] > 0)}
    /\ UNCHANGED <<conn, shells, state, roots, pins, listening, pending, fired, lookups>>

Next ==
    \/ \E c \in Conns, t \in Tasks : Connected(c, t)
    \/ \E c \in Conns : Disconnected(c)
    \/ \E t \in Tasks : TaskFinish(t)
    \/ \E t \in Tasks, o \in Objects : Alloc(t, o) \/ Drop(t, o)
    \/ \E t \in Tasks, f \in Funcs \cup {NoFunc}, th \in Addrs \cup {Proto} :
          LookupHostname(t, f, th)
    \/ \E r \in pending : DnsComplete(r)
    \/ Gc

Spec == Init /\ [][Next]_vars
-----------------------------------------------------------------------------
(* Properties                                                              *)

TypeOK ==
    /\ conn \in [Conns -> {"open", "closed"}]
    /\ shells \in [Conns -> Tasks \cup {NoTask}]
    /\ state \in [Tasks -> {"unborn", "running", "finished", "terminated", "failed"}]
    /\ roots \in [Tasks -> SUBSET Objects]
    /\ live \subseteq Objects
    /\ pins \in [Funcs -> Nat]
    /\ listening \in [Tasks -> Nat]
    /\ lookups \in 0..MaxLookups

(* Each task's event-listening count is the number of its lookups the host *)
(* has not answered: startEventListening in lookupHostname and             *)
(* stopEventListening in the lambda pair up across terminations and        *)
(* collections, so a task never waits for an event that cannot come.       *)
ListeningMatchesPending ==
    \A t \in Tasks : listening[t] = Cardinality(PendingOf(t))

(* GC soundness for callbacks (spec 8.4): the function fireEvent calls is  *)
(* still a live object, even when the task dropped it and the collector    *)
(* ran while the lookup was in flight; the pin is what keeps it.           *)
CallbackFunctionLive ==
    \A e \in fired : e.funcLive

(* The DNS callback runs on a live task.  Spec 4.6: Task.terminate makes  *)
(* the VM unwind and releases the task's event pin-set, so that its        *)
(* closures become collectable; an answer that arrives later has no task   *)
(* to run in.  The lambda holds the raw ExecutionUnit* it captured, and    *)
(* TCPevent(Disconnected) terminates the task without cancelling the       *)
(* lookup, so fireEvent finds a terminated task.                           *)
CallbackOnLiveTask ==
    \A e \in fired : e.taskLive
=============================================================================
