---------------------------- MODULE SparkContext ----------------------------
(***************************************************************************)
(* The life of SparkContext objects in a driver with several threads: the  *)
(* constructor, which registers the new context under the class lock and   *)
(* then initialises it without the lock, getOrCreate, which holds the lock *)
(* (an RLock) throughout, and stop, which shuts down the JVM's context and *)
(* the accumulator server and unregisters under the lock.  The first call  *)
(* launches the JVM, and waits for it with the lock held.                  *)
(***************************************************************************)
EXTENDS Integers, FiniteSets

CONSTANTS
  Threads,
  Contexts,   \* the objects that may be created, the bound on creations
  None,
  Programs,   \* what a program does: which of "SparkContext" and "getOrCreate" it
              \* calls, and how often it may call stop() on one context
  ExitCodes   \* external: how the JVM process may end before it wrote its port

ASSUME SparkContextAssumption ==
  /\ None \notin Contexts \union Threads
  /\ Programs \subseteq [calls : SUBSET {"SparkContext", "getOrCreate"}, stops : Nat]
  /\ ExitCodes \subseteq {"exit 0", "exit 1"}

VARIABLES
  program,  \* what this program does
  active,   \* SparkContext._active_spark_context
  lock,     \* the thread that holds SparkContext._lock
  gateway,  \* SparkContext._gateway is set
  proc,     \* external: the JVM process: "none", "starting", "port" (written), an exit code
  jvm,      \* external: the running JavaSparkContext; there is at most one
  jsc,      \* the contexts whose _jsc is set
  server,   \* the contexts whose accumulator server runs
  pc,       \* where each thread is
  call,     \* the call each thread is in
  ctx,      \* the context that call is about
  born,     \* the objects created
  ready,    \* those whose initialisation succeeded
  known,    \* those that a call returned
  stops     \* the calls of stop on each

vars == <<program, active, lock, gateway, proc, jvm, jsc, server, pc, call, ctx, born, ready,
          known, stops>>
launched == <<program, gateway, proc>>

Init ==
  /\ program \in Programs
  /\ active = None /\ lock = None /\ jvm = None /\ gateway = FALSE /\ proc = "none"
  /\ jsc = {} /\ server = {} /\ born = {} /\ ready = {} /\ known = {}
  /\ pc = [t \in Threads |-> "idle"]
  /\ call = [t \in Threads |-> "stop"]
  /\ ctx = [t \in Threads |-> None]
  /\ stops = [c \in Contexts |-> 0]

Goto(t, p) == pc' = [pc EXCEPT ![t] = p]
Enter(t, name, c, p) ==
  /\ pc[t] = "idle"
  /\ call' = [call EXCEPT ![t] = name]
  /\ ctx' = [ctx EXCEPT ![t] = c]
  /\ Goto(t, p)

(* Leaving the call gives back the lock that getOrCreate holds.            *)
Leave(t) ==
  /\ Goto(t, "idle")
  /\ lock' = IF lock = t THEN None ELSE lock

-----------------------------------------------------------------------------
(* SparkContext(): __init__ until the lock.                                *)
New(t, c) ==
  /\ "SparkContext" \in program.calls
  /\ c \notin born
  /\ Enter(t, "SparkContext", c, "ensure")
  /\ born' = born \union {c}
  /\ UNCHANGED <<launched, active, lock, jvm, jsc, server, ready, known, stops>>

(* _ensure_initialized: launch the gateway first if there is none.         *)
LaunchGateway(t) ==
  /\ pc[t] = "ensure"
  /\ lock \in {None, t}
  /\ ~gateway
  /\ lock' = t
  /\ proc' = "starting"
  /\ Goto(t, "launch")
  /\ UNCHANGED <<program, active, gateway, jvm, jsc, server, call, ctx, born, ready, known, stops>>

(* External: the JVM writes its port, or ends.                             *)
StartJvm ==
  /\ proc = "starting"
  /\ proc' \in {"port"} \union ExitCodes
  /\ UNCHANGED <<program, active, lock, gateway, jvm, jsc, server, pc, call, ctx, born, ready,
                 known, stops>>

(* "while not proc.poll()": the loop goes on as long as poll() is None or  *)
(* 0 and there is no file.  Any other exit code raises an exception.       *)
GatewayUp(t) ==
  /\ pc[t] = "launch"
  /\ proc = "port"
  /\ gateway' = TRUE
  /\ Goto(t, "ensure")
  /\ UNCHANGED <<program, active, lock, proc, jvm, jsc, server, call, ctx, born, ready, known,
                 stops>>

(* Mutant: the exception leaves the lock to the thread.                    *)
GatewayExitedKeepsLock(t) ==
  /\ pc[t] = "launch"
  /\ proc = "exit 1"
  /\ proc' = "none"
  /\ Goto(t, "idle")
  /\ UNCHANGED <<program, active, lock, gateway, jvm, jsc, server, call, ctx, born, ready, known,
                 stops>>

GatewayExited(t) ==
  /\ pc[t] = "launch"
  /\ proc = "exit 1"
  /\ proc' = "none"
  /\ Leave(t)
  /\ UNCHANGED <<program, active, gateway, jvm, jsc, server, call, ctx, born, ready, known, stops>>

(* The lock is given back, but for the one that getOrCreate took.          *)
Unlock(t) == lock' = IF call[t] = "getOrCreate" THEN t ELSE None

(* Mutant: a context that is already active is not noticed.                *)
EnsureUnchecked(t) ==
  /\ pc[t] = "ensure"
  /\ lock \in {None, t}
  /\ gateway
  /\ active' = ctx[t]
  /\ Goto(t, "init")
  /\ Unlock(t)
  /\ UNCHANGED <<launched, jvm, jsc, server, call, ctx, born, ready, known, stops>>

(* Register, or raise ValueError if a context is active.                   *)
EnsureInitialized(t) ==
  /\ pc[t] = "ensure"
  /\ lock \in {None, t}
  /\ gateway
  /\ IF active = None THEN active' = ctx[t] /\ Goto(t, "init")
                      ELSE Goto(t, "idle") /\ UNCHANGED active
  /\ Unlock(t)
  /\ UNCHANGED <<launched, jvm, jsc, server, call, ctx, born, ready, known, stops>>

(* getOrCreate: the active context, ...                                    *)
GetActive(t) ==
  /\ "getOrCreate" \in program.calls
  /\ lock = None
  /\ active # None
  /\ Enter(t, "getOrCreate", active, "idle")
  /\ known' = known \union {active}
  /\ UNCHANGED <<launched, active, lock, jvm, jsc, server, born, ready, stops>>

(* Mutant: the lock is given back before the context is created.           *)
CreateUnlocked(t, c) ==
  /\ "getOrCreate" \in program.calls
  /\ lock = None
  /\ active = None
  /\ c \notin born
  /\ Enter(t, "SparkContext", c, "ensure")
  /\ born' = born \union {c}
  /\ UNCHANGED <<launched, active, lock, jvm, jsc, server, ready, known, stops>>

(* ... or a new one, created while the lock is held.                       *)
Create(t, c) ==
  /\ "getOrCreate" \in program.calls
  /\ lock = None
  /\ active = None
  /\ c \notin born
  /\ Enter(t, "getOrCreate", c, "ensure")
  /\ lock' = t
  /\ born' = born \union {c}
  /\ UNCHANGED <<launched, active, jvm, jsc, server, ready, known, stops>>

-----------------------------------------------------------------------------
(* _do_init: JavaSparkContext(jconf), which the JVM refuses while another  *)
(* context runs, then the accumulator server, then the rest.  Each part    *)
(* may raise, and does if somebody stopped the context meanwhile; __init__ *)
(* then calls stop().                                                      *)
InitContext(t) ==
  /\ pc[t] = "init"
  /\ jvm = None
  /\ jvm' = ctx[t]
  /\ jsc' = jsc \union {ctx[t]}
  /\ Goto(t, "serve")
  /\ UNCHANGED <<launched, active, lock, server, call, ctx, born, ready, known, stops>>

StartServer(t) ==
  /\ pc[t] = "serve"
  /\ server' = server \union {ctx[t]}
  /\ Goto(t, "finish")
  /\ UNCHANGED <<launched, active, lock, jvm, jsc, call, ctx, born, ready, known, stops>>

Initialized(t) ==
  /\ pc[t] = "finish"
  /\ ctx[t] \in jsc
  /\ ready' = ready \union {ctx[t]}
  /\ known' = known \union {ctx[t]}
  /\ Leave(t)
  /\ UNCHANGED <<launched, active, jvm, jsc, server, call, ctx, born, stops>>

(* Mutant: __init__ does not call stop() when the initialisation fails.    *)
InitFailsNoStop(t) ==
  /\ pc[t] \in {"init", "serve", "finish"}
  /\ Leave(t)
  /\ UNCHANGED <<launched, active, jvm, jsc, server, call, ctx, born, ready, known, stops>>

InitFails(t) ==
  /\ pc[t] \in {"init", "serve", "finish"}
  /\ Goto(t, "stop")
  /\ UNCHANGED <<launched, active, lock, jvm, jsc, server, call, ctx, born, ready, known, stops>>

-----------------------------------------------------------------------------
(* stop().                                                                 *)
Stop(t, c) ==
  /\ c \in known
  /\ stops[c] < program.stops
  /\ Enter(t, "stop", c, "stop")
  /\ stops' = [stops EXCEPT ![c] = @ + 1]
  /\ UNCHANGED <<launched, active, lock, jvm, jsc, server, born, ready, known>>

StopJvm(t) ==
  /\ pc[t] = "stop"
  /\ IF ctx[t] \in jsc THEN /\ jvm' = IF jvm = ctx[t] THEN None ELSE jvm
                            /\ Goto(t, "stop jsc")
                       ELSE Goto(t, "stop server") /\ UNCHANGED jvm
  /\ UNCHANGED <<launched, active, lock, jsc, server, call, ctx, born, ready, known, stops>>

ClearJsc(t) ==
  /\ pc[t] = "stop jsc"
  /\ jsc' = jsc \ {ctx[t]}
  /\ Goto(t, "stop server")
  /\ UNCHANGED <<launched, active, lock, jvm, server, call, ctx, born, ready, known, stops>>

StopServer(t) ==
  /\ pc[t] = "stop server"
  /\ server' = server \ {ctx[t]}
  /\ Goto(t, "stop active")
  /\ UNCHANGED <<launched, active, lock, jvm, jsc, call, ctx, born, ready, known, stops>>

(* Mutant: the class lock is no RLock, so that stop() within getOrCreate   *)
(* waits for itself.                                                       *)
ClearActiveNotReentrant(t) ==
  /\ pc[t] = "stop active"
  /\ lock = None
  /\ active' = None
  /\ Leave(t)
  /\ UNCHANGED <<launched, jvm, jsc, server, call, ctx, born, ready, known, stops>>

ClearActive(t) ==
  /\ pc[t] = "stop active"
  /\ lock \in {None, t}
  /\ active' = None
  /\ Leave(t)
  /\ UNCHANGED <<launched, jvm, jsc, server, call, ctx, born, ready, known, stops>>

-----------------------------------------------------------------------------
(* What a thread does once it is in a call, and the calls it may make.     *)
Step(t) ==
  \/ LaunchGateway(t) \/ GatewayUp(t) \/ GatewayExited(t)
  \/ EnsureInitialized(t) \/ InitContext(t) \/ StartServer(t) \/ Initialized(t)
  \/ InitFails(t) \/ StopJvm(t) \/ ClearJsc(t) \/ StopServer(t) \/ ClearActive(t)

Next ==
  \/ StartJvm
  \/ \E t \in Threads :
       \/ Step(t)
       \/ GetActive(t)
       \/ \E c \in Contexts : New(t, c) \/ Create(t, c) \/ Stop(t, c)

(* A thread that is in a call goes on, and the JVM process writes its port *)
(* or ends; nobody has to make a call.                                     *)
Spec ==
  Init /\ [][Next]_vars /\ WF_vars(StartJvm) /\ \A t \in Threads : WF_vars(Step(t))

-----------------------------------------------------------------------------
(* Types, and a thread that holds the lock is in getOrCreate or launches   *)
(* the gateway.                                                            *)
TypeOK ==
  /\ program \in Programs
  /\ active \in Contexts \union {None}
  /\ lock \in Threads \union {None}
  /\ lock # None => /\ pc[lock] # "idle"
                    /\ call[lock] = "getOrCreate" \/ ~gateway \/ pc[lock] = "ensure"
  /\ gateway \in BOOLEAN /\ proc \in {"none", "starting", "port", "exit 0", "exit 1"}
  /\ jvm \in Contexts \union {None}
  /\ jsc \subseteq born /\ server \subseteq born /\ ready \subseteq born
  /\ known \subseteq born /\ born \subseteq Contexts
  /\ pc \in [Threads -> {"idle", "ensure", "launch", "init", "serve", "finish", "stop",
                         "stop jsc", "stop server", "stop active"}]
  /\ call \in [Threads -> {"SparkContext", "getOrCreate", "stop"}]
  /\ ctx \in [Threads -> Contexts \union {None}]
  /\ stops \in [Contexts -> 0..program.stops]

(* All contexts are made in one way, and each is stopped once.  With both  *)
(* ways getOrCreate returns a context whose constructor has not finished,  *)
(* and that may be stopped under it; a second stop() unregisters whatever  *)
(* context is registered by then.                                          *)
OneWay == \E way \in {"SparkContext", "getOrCreate"} : program.calls \subseteq {way}
Disciplined == OneWay /\ program.stops = 1

(* "Only one SparkContext should be active per JVM", and "register it as a *)
(* singleton object": no two contexts hold JVM objects or run accumulator  *)
(* servers at the same time, and the one that runs in the JVM is the       *)
(* registered one, so that getOrCreate returns it and does not try to      *)
(* create a second one.                                                    *)
SingletonRegistered ==
  Disciplined =>
    /\ Cardinality(jsc \union server) <= 1
    /\ jvm # None => active = jvm

(* "If an error occurs, clean up in order to allow future SparkContext     *)
(* creation": when no call is in progress, nothing is left registered or   *)
(* running, or it is one context that was initialised.                     *)
CleanedUp ==
  Disciplined /\ (\A t \in Threads : pc[t] = "idle") =>
    \/ active = None /\ jvm = None /\ jsc = {} /\ server = {}
    \/ active \in ready /\ jvm = active /\ jsc = {active} /\ server = {active}

(* What a call returns has been initialised, whichever thread did it.      *)
ReturnedInitialized == OneWay => known \subseteq ready

(* The lock is given back, whichever way the launch and the initialisation *)
(* end: "Wait for the file to appear, or for the process to exit".  It is  *)
(* not if the JVM exits with code 0 before it wrote its port: "while not   *)
(* proc.poll()" takes that for a process that still runs.                  *)
LockReleased == lock # None ~> lock = None \/ proc = "exit 0"
=============================================================================
