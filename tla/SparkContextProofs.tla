------------------------- MODULE SparkContextProofs -------------------------
(***************************************************************************)
(* Theorems about SparkContext for any number of threads and contexts, and *)
(* for programs of every kind.                                             *)
(***************************************************************************)
EXTENDS SparkContext, FiniteSetTheorems, TLAPS

(***************************************************************************)
(* The inductive invariant.  First the types.                              *)
(***************************************************************************)
Launching == {"ensure", "launch"}
Initializing == {"init", "serve", "finish"}
Ending == {"stop", "stop jsc", "stop server", "stop active"}
Owning == Initializing \union Ending

Types ==
  /\ program \in Programs
  /\ active \in born \union {None}
  /\ lock \in Threads \union {None}
  /\ gateway \in BOOLEAN /\ proc \in {"none", "starting", "port", "exit 0", "exit 1"}
  /\ jvm \in Contexts \union {None}
  /\ jsc \subseteq born /\ server \subseteq born /\ ready \subseteq born
  /\ known \subseteq born /\ born \subseteq Contexts
  /\ pc \in [Threads -> {"idle"} \union Launching \union Owning]
  /\ call \in [Threads -> {"SparkContext", "getOrCreate", "stop"}]
  /\ ctx \in [Threads -> Contexts \union {None}]
  /\ stops \in [Contexts -> 0..program.stops]
  /\ \A t \in Threads : pc[t] # "idle" => ctx[t] \in born

(* The lock: getOrCreate holds it from end to end, so that no context gets *)
(* registered before its own; the launch of the gateway holds it.          *)
Locked(t) ==
  /\ pc[t] = "launch" => lock = t /\ ~gateway
  /\ pc[t] # "idle" /\ call[t] = "getOrCreate" => lock = t
  /\ pc[t] \in Launching /\ call[t] = "getOrCreate" => active = None
  /\ lock = t => /\ pc[t] # "idle"
                 /\ call[t] = "getOrCreate" \/ ~gateway \/ pc[t] = "ensure"
  /\ pc[t] # "idle" /\ call[t] # "stop" => call[t] \in program.calls
  /\ pc[t] \in Launching \union Initializing => call[t] # "stop"

Locking == \A t \in Threads : Locked(t)

(* If getOrCreate makes all contexts, the registered one is initialised or *)
(* is being made by the thread that holds the lock.                        *)
Returned ==
  OneWay =>
    /\ known \subseteq ready
    /\ "getOrCreate" \in program.calls =>
         active \in ready \union {None}
           \/ \E u \in Threads : lock = u /\ pc[u] \in Owning /\ active = ctx[u]

(* If moreover a context is stopped once, one thread at most is at work on *)
(* one, and it is the registered one; and a context that was returned and  *)
(* not stopped yet is registered, with nobody at work on it.               *)
OneOwner ==
  Disciplined =>
    /\ \A t \in Threads : pc[t] \in Owning => active = ctx[t]
    /\ \A t, u \in Threads : pc[t] \in Owning /\ pc[u] \in Owning => t = u
    /\ \A t \in Threads : pc[t] \in Owning /\ call[t] = "stop" =>
         stops[ctx[t]] = 1 /\ ctx[t] \in known
    /\ \A c \in known : stops[c] = 0 =>
         active = c /\ \A t \in Threads : pc[t] \notin Owning

(* What exists of a context c, by where the thread at work on it is.       *)
Stage(p, c) ==
  /\ p = "init" => jvm = None /\ jsc = {} /\ server = {}
  /\ p = "serve" => jvm = c /\ jsc = {c} /\ server = {}
  /\ p = "finish" => jvm = c /\ jsc = {c} /\ server = {c}
  /\ p = "stop" => \/ jvm = None /\ jsc = {} /\ server = {}
                   \/ jvm = c /\ jsc = {c} /\ server \subseteq {c}
  /\ p = "stop jsc" => jvm = None /\ jsc \subseteq {c} /\ server \subseteq {c}
  /\ p = "stop server" => jvm = None /\ jsc = {} /\ server \subseteq {c}
  /\ p = "stop active" => jvm = None /\ jsc = {} /\ server = {}

AllOrNothing ==
  \/ active = None /\ jvm = None /\ jsc = {} /\ server = {}
  \/ active \in ready /\ jvm = active /\ jsc = {active} /\ server = {active}

Parts ==
  Disciplined =>
    /\ \A t \in Threads : Stage(pc[t], ctx[t])
    /\ (\A t \in Threads : pc[t] \notin Owning) => AllOrNothing

ContextInv == Types /\ Locking /\ Returned /\ OneOwner /\ Parts

(* How often a context may be stopped, and once more.                      *)
LEMMA ProgramStops ==
  ASSUME program \in Programs
  PROVE  program.stops \in Nat
  BY SparkContextAssumption

LEMMA Counts ==
  ASSUME NEW n \in Nat
  PROVE  0 \in 0..n /\ \A i \in 0..n : i < n => i + 1 \in 0..n
  OBVIOUS

LEMMA ContextInit == Init => ContextInv
  <1> SUFFICES ASSUME Init PROVE ContextInv
    OBVIOUS
  <1> USE SparkContextAssumption DEF Init, Launching, Initializing, Ending, Owning
  <1>1. Types
    <2>1. stops \in [Contexts -> 0..program.stops]
      <3>1. program \in Programs /\ stops = [c \in Contexts |-> 0]
        OBVIOUS
      <3> HIDE DEF Init
      <3>2. 0 \in 0..program.stops
        BY <3>1, ProgramStops, Counts
      <3> QED
        BY <3>1, <3>2
    <2> QED
      BY <2>1 DEF Types
  <1>2. Locking
    BY DEF Locking, Locked
  <1>3. Returned /\ OneOwner /\ Parts
    BY DEF Returned, OneOwner, Parts, Stage, AllOrNothing
  <1> QED
    BY <1>1, <1>2, <1>3 DEF ContextInv

LEMMA TypesStep ==
  Types /\ [Next]_vars => Types'
  <1> SUFFICES ASSUME Types, [Next]_vars
               PROVE  Types'
    OBVIOUS
  <1> USE SparkContextAssumption
      DEF Types, Goto, Enter, Leave, Unlock, launched, Launching, Initializing, Ending,
          Owning
  <1>1. ASSUME StartJvm PROVE Types'
    BY <1>1 DEF StartJvm
  <1>2. ASSUME NEW t \in Threads, LaunchGateway(t) PROVE Types'
    BY <1>2 DEF LaunchGateway
  <1>3. ASSUME NEW t \in Threads, GatewayUp(t) PROVE Types'
    BY <1>3 DEF GatewayUp
  <1>4. ASSUME NEW t \in Threads, GatewayExited(t) PROVE Types'
    BY <1>4 DEF GatewayExited
  <1>5. ASSUME NEW t \in Threads, EnsureInitialized(t) PROVE Types'
    BY <1>5 DEF EnsureInitialized
  <1>6. ASSUME NEW t \in Threads, InitContext(t) PROVE Types'
    BY <1>6 DEF InitContext
  <1>7. ASSUME NEW t \in Threads, StartServer(t) PROVE Types'
    BY <1>7 DEF StartServer
  <1>8. ASSUME NEW t \in Threads, Initialized(t) PROVE Types'
    BY <1>8 DEF Initialized
  <1>9. ASSUME NEW t \in Threads, InitFails(t) PROVE Types'
    BY <1>9 DEF InitFails
  <1>10. ASSUME NEW t \in Threads, StopJvm(t) PROVE Types'
    BY <1>10 DEF StopJvm
  <1>11. ASSUME NEW t \in Threads, ClearJsc(t) PROVE Types'
    BY <1>11 DEF ClearJsc
  <1>12. ASSUME NEW t \in Threads, StopServer(t) PROVE Types'
    BY <1>12 DEF StopServer
  <1>13. ASSUME NEW t \in Threads, ClearActive(t) PROVE Types'
    BY <1>13 DEF ClearActive
  <1>14. ASSUME NEW t \in Threads, GetActive(t) PROVE Types'
    BY <1>14 DEF GetActive
  <1>15. ASSUME NEW t \in Threads, NEW c \in Contexts, New(t, c) PROVE Types'
    BY <1>15 DEF New
  <1>16. ASSUME NEW t \in Threads, NEW c \in Contexts, Create(t, c) PROVE Types'
    BY <1>16 DEF Create
  <1>17. ASSUME NEW t \in Threads, NEW c \in Contexts, Stop(t, c) PROVE Types'
    <2>1. stops' \in [Contexts -> 0..program.stops]
      <3>1. program \in Programs
        OBVIOUS
      <3>2. program.stops \in Nat
        BY <3>1, ProgramStops
      <3>3. stops[c] \in 0..program.stops /\ stops[c] < program.stops
        BY <1>17, <3>2 DEF Stop
      <3>4. stops[c] + 1 \in 0..program.stops
        BY <3>2, <3>3, Counts
      <3>5. stops' = [stops EXCEPT ![c] = stops[c] + 1] /\ stops \in [Contexts -> 0..program.stops]
        BY <1>17 DEF Stop
      <3> HIDE DEF Types
      <3> QED
        BY <3>4, <3>5
    <2>2. UNCHANGED <<program, gateway, proc, active, lock, jvm, jsc, server, born, ready, known>>
      BY <1>17 DEF Stop
    <2>3. /\ pc' = [pc EXCEPT ![t] = "stop"] /\ call' = [call EXCEPT ![t] = "stop"]
          /\ ctx' = [ctx EXCEPT ![t] = c] /\ c \in born
      BY <1>17 DEF Stop
    <2> QED
      BY <2>1, <2>2, <2>3
  <1>18. CASE UNCHANGED vars
    BY <1>18 DEF vars
  <1> QED
    BY <1>1, <1>2, <1>3, <1>4, <1>5, <1>6, <1>7, <1>8, <1>9, <1>10, <1>11, <1>12,
       <1>13, <1>14, <1>15, <1>16, <1>17, <1>18
    DEF Next, Step

LEMMA LockingStep ==
  Types /\ Locking /\ [Next]_vars => Locking'
  <1> SUFFICES ASSUME Types, Locking, [Next]_vars
               PROVE  Locking'
    OBVIOUS
  <1> USE SparkContextAssumption
      DEF Types, Locking, Locked, Goto, Enter, Leave, Unlock, launched, Launching,
          Initializing, Ending, Owning
  <1>1. ASSUME StartJvm PROVE Locking'
    BY <1>1 DEF StartJvm
  <1>2. ASSUME NEW t \in Threads, LaunchGateway(t) PROVE Locking'
    <2> SUFFICES ASSUME NEW u \in Threads PROVE Locked(u)'
      OBVIOUS
    <2>1. CASE u = t
      BY <1>2, <2>1 DEF LaunchGateway
    <2>2. CASE u # t
      <3>1. lock # u /\ lock' # u
        <4>1. lock \in {None, t} /\ lock' = t
          BY <1>2 DEF LaunchGateway
        <4>2. u # None
          OBVIOUS
        <4> HIDE DEF Types, Locking
        <4> QED
          BY <2>2, <4>1, <4>2
      <3>2. pc'[u] = pc[u] /\ UNCHANGED <<program, call, active>>
        BY <1>2, <2>2 DEF LaunchGateway
      <3>3. Locked(u)
        OBVIOUS
      <3> HIDE DEF Types
      <3> QED
        BY <3>1, <3>2, <3>3
    <2> QED
      BY <2>1, <2>2
  <1>3. ASSUME NEW t \in Threads, GatewayUp(t) PROVE Locking'
    BY <1>3 DEF GatewayUp
  <1>4. ASSUME NEW t \in Threads, GatewayExited(t) PROVE Locking'
    BY <1>4 DEF GatewayExited
  <1>5. ASSUME NEW t \in Threads, EnsureInitialized(t) PROVE Locking'
    <2> SUFFICES ASSUME NEW u \in Threads PROVE Locked(u)'
      OBVIOUS
    <2>1. CASE u = t
      BY <1>5, <2>1 DEF EnsureInitialized
    <2>2. CASE u # t
      BY <1>5, <2>2 DEF EnsureInitialized
    <2> QED
      BY <2>1, <2>2
  <1>6. ASSUME NEW t \in Threads, InitContext(t) PROVE Locking'
    BY <1>6 DEF InitContext
  <1>7. ASSUME NEW t \in Threads, StartServer(t) PROVE Locking'
    BY <1>7 DEF StartServer
  <1>8. ASSUME NEW t \in Threads, Initialized(t) PROVE Locking'
    BY <1>8 DEF Initialized
  <1>9. ASSUME NEW t \in Threads, InitFails(t) PROVE Locking'
    BY <1>9 DEF InitFails
  <1>10. ASSUME NEW t \in Threads, StopJvm(t) PROVE Locking'
    <2>1. /\ pc[t] = "stop"
          /\ \E p \in {"stop jsc", "stop server"} : pc' = [pc EXCEPT ![t] = p]
          /\ UNCHANGED <<program, active, lock, gateway, call>>
      BY <1>10 DEF StopJvm
    <2>2. pc \in [Threads -> {"idle"} \union Launching \union Owning]
      OBVIOUS
    <2>3. \A u \in Threads : Locked(u)
      OBVIOUS
    <2> SUFFICES ASSUME NEW u \in Threads PROVE Locked(u)'
      OBVIOUS
    <2> HIDE DEF Types, Locking
    <2>4. CASE u = t
      <3>1. pc'[u] \in {"stop jsc", "stop server"} /\ pc[u] = "stop"
        BY <2>1, <2>2, <2>4
      <3> QED
        BY <2>1, <2>3, <3>1
    <2>5. CASE u # t
      <3>1. pc'[u] = pc[u]
        BY <2>1, <2>2, <2>5
      <3> QED
        BY <2>1, <2>3, <3>1
    <2> QED
      BY <2>4, <2>5
  <1>11. ASSUME NEW t \in Threads, ClearJsc(t) PROVE Locking'
    BY <1>11 DEF ClearJsc
  <1>12. ASSUME NEW t \in Threads, StopServer(t) PROVE Locking'
    BY <1>12 DEF StopServer
  <1>13. ASSUME NEW t \in Threads, ClearActive(t) PROVE Locking'
    BY <1>13 DEF ClearActive
  <1>14. ASSUME NEW t \in Threads, GetActive(t) PROVE Locking'
    BY <1>14 DEF GetActive
  <1>15. ASSUME NEW t \in Threads, NEW c \in Contexts, New(t, c) PROVE Locking'
    BY <1>15 DEF New
  <1>16. ASSUME NEW t \in Threads, NEW c \in Contexts, Create(t, c) PROVE Locking'
    <2> SUFFICES ASSUME NEW u \in Threads PROVE Locked(u)'
      OBVIOUS
    <2>1. CASE u = t
      BY <1>16, <2>1 DEF Create
    <2>2. CASE u # t
      BY <1>16, <2>2 DEF Create
    <2> QED
      BY <2>1, <2>2
  <1>17. ASSUME NEW t \in Threads, NEW c \in Contexts, Stop(t, c) PROVE Locking'
    <2> SUFFICES ASSUME NEW u \in Threads PROVE Locked(u)'
      OBVIOUS
    <2>1. CASE u = t
      BY <1>17, <2>1 DEF Stop
    <2>2. CASE u # t
      BY <1>17, <2>2 DEF Stop
    <2> QED
      BY <2>1, <2>2
  <1>18. CASE UNCHANGED vars
    BY <1>18 DEF vars
  <1> QED
    BY <1>1, <1>2, <1>3, <1>4, <1>5, <1>6, <1>7, <1>8, <1>9, <1>10, <1>11, <1>12,
       <1>13, <1>14, <1>15, <1>16, <1>17, <1>18
    DEF Next, Step


(***************************************************************************)
(* Frames: the steps that leave each conjunct as it is.                    *)
(***************************************************************************)
LEMMA ReturnedFrame ==
  ASSUME Returned, UNCHANGED <<program, active, known>>, ready \subseteq ready',
         \A u \in Threads : lock = u /\ pc[u] \in Owning
                              => lock' = u /\ pc'[u] \in Owning /\ ctx'[u] = ctx[u]
  PROVE  Returned'
  BY DEF Returned, OneWay

LEMMA OneOwnerFrame ==
  ASSUME OneOwner, UNCHANGED <<program, active, known, stops>>,
         \A u \in Threads : pc'[u] \in Owning
                              => pc[u] \in Owning /\ ctx'[u] = ctx[u] /\ call'[u] = call[u]
  PROVE  OneOwner'
  BY DEF OneOwner, Disciplined, OneWay

LEMMA PartsFrame ==
  ASSUME Parts, UNCHANGED <<program, active, jvm, jsc, server, ready>>,
         \A u \in Threads : \/ pc'[u] = pc[u] /\ ctx'[u] = ctx[u]
                            \/ pc[u] \notin Owning /\ pc'[u] \notin Owning
  PROVE  Parts'
  BY DEF Parts, Disciplined, OneWay, Stage, AllOrNothing, Owning, Initializing, Ending

(* The steps of the one thread at work on a context.                       *)
LEMMA PartsOwner ==
  ASSUME OneOwner, UNCHANGED program, NEW t \in Threads,
         Disciplined => \A u \in Threads : u # t => pc[u] \notin Owning,
         \A u \in Threads : u # t => pc'[u] = pc[u] /\ ctx'[u] = ctx[u],
         Disciplined => Stage(pc[t], ctx[t])',
         Disciplined /\ pc'[t] \notin Owning => AllOrNothing'
  PROVE  Parts'
  BY DEF Parts, Disciplined, OneWay, Stage, Owning, Initializing, Ending

(* Where a step leaves the threads.                                        *)
LEMMA Moved ==
  ASSUME Types, NEW t \in Threads, NEW p, pc' = [pc EXCEPT ![t] = p]
  PROVE  pc'[t] = p /\ \A u \in Threads : u # t => pc'[u] = pc[u]
  BY DEF Types

LEMMA Entered ==
  ASSUME Types, NEW t \in Threads, NEW name, NEW c, NEW p, Enter(t, name, c, p)
  PROVE  /\ pc[t] = "idle" /\ pc'[t] = p /\ ctx'[t] = c /\ call'[t] = name
         /\ \A u \in Threads : u # t => pc'[u] = pc[u] /\ ctx'[u] = ctx[u] /\ call'[u] = call[u]
  BY DEF Types, Enter, Goto

(***************************************************************************)
(* The steps, by what they do to the contexts: nothing; a part of the work *)
(* on one; its registration.                                               *)
(***************************************************************************)
Aside ==
  /\ UNCHANGED <<program, active, known, stops, ready, jvm, jsc, server>>
  /\ \A u \in Threads : \/ pc[u] \notin Owning /\ pc'[u] \notin Owning
                        \/ /\ pc'[u] = pc[u] /\ ctx'[u] = ctx[u] /\ call'[u] = call[u]
                           /\ lock = u => lock' = u

Works(t) ==
  /\ UNCHANGED <<program, active, known, stops, ready, ctx, call, lock>>
  /\ pc[t] \in Owning /\ pc'[t] \in Owning
  /\ \A u \in Threads : u # t => pc'[u] = pc[u]

Registers(t) ==
  /\ active = None /\ active' = ctx[t]
  /\ pc[t] = "ensure" /\ pc'[t] = "init" /\ ctx[t] \in Contexts
  /\ \A u \in Threads : u # t => pc'[u] = pc[u]
  /\ call[t] = "getOrCreate" => lock' = t
  /\ call[t] # "stop" /\ call[t] \in program.calls
  /\ UNCHANGED <<program, known, stops, ready, jvm, jsc, server, ctx, call>>

LEMMA EnsureSteps ==
  ASSUME Types, Locking, NEW t \in Threads, EnsureInitialized(t)
  PROVE  Aside \/ Registers(t)
  <1>1. /\ pc[t] = "ensure" /\ lock \in {None, t}
        /\ UNCHANGED <<program, known, stops, ready, jvm, jsc, server, ctx, call>>
    BY DEF EnsureInitialized, launched
  <1>2. Locked(t)
    BY DEF Locking
  <1>3. CASE active = None
    <2>1. active' = ctx[t] /\ pc'[t] = "init" /\ \A u \in Threads : u # t => pc'[u] = pc[u]
      BY <1>3, Moved DEF EnsureInitialized, Goto
    <2>2. call[t] = "getOrCreate" => lock' = t
      BY DEF EnsureInitialized, Unlock
    <2>3. ctx[t] \in Contexts
      BY <1>1 DEF Types
    <2> QED
      BY <1>1, <1>2, <1>3, <2>1, <2>2, <2>3 DEF Registers, Locked, Launching
  <1>4. CASE active # None
    <2>1. active' = active /\ pc'[t] = "idle" /\ \A u \in Threads : u # t => pc'[u] = pc[u]
      BY <1>4, Moved DEF EnsureInitialized, Goto
    <2>2. \A u \in Threads : u # t => lock # u
      BY <1>1, SparkContextAssumption
    <2> QED
      BY <1>1, <2>1, <2>2 DEF Aside, Owning, Initializing, Ending
  <1> QED
    BY <1>3, <1>4

LEMMA AsideSteps ==
  ASSUME Types, Locking, NEW t \in Threads, NEW c \in Contexts,
         LaunchGateway(t) \/ GatewayUp(t) \/ GatewayExited(t) \/ New(t, c) \/ Create(t, c)
  PROVE  Aside
  <1> USE DEF Aside, Owning, Initializing, Ending, launched
  <1>1. CASE LaunchGateway(t)
    <2>1. pc[t] = "ensure" /\ pc'[t] = "launch" /\ \A u \in Threads : u # t => pc'[u] = pc[u]
      BY <1>1, Moved DEF LaunchGateway, Goto
    <2>2. \A u \in Threads : u # t => lock # u
      BY <1>1, SparkContextAssumption DEF LaunchGateway
    <2> QED
      BY <1>1, <2>1, <2>2 DEF LaunchGateway
  <1>2. CASE GatewayUp(t)
    <2>1. pc[t] = "launch" /\ pc'[t] = "ensure" /\ \A u \in Threads : u # t => pc'[u] = pc[u]
      BY <1>2, Moved DEF GatewayUp, Goto
    <2> QED
      BY <1>2, <2>1 DEF GatewayUp
  <1>3. CASE GatewayExited(t)
    <2>1. pc[t] = "launch" /\ pc'[t] = "idle" /\ \A u \in Threads : u # t => pc'[u] = pc[u]
      BY <1>3, Moved DEF GatewayExited, Leave, Goto
    <2>2. \A u \in Threads : u # t => lock # u
      BY <2>1 DEF Locking, Locked
    <2> QED
      BY <1>3, <2>1, <2>2 DEF GatewayExited
  <1>4. CASE New(t, c)
    <2>1. Enter(t, "SparkContext", c, "ensure")
      BY <1>4 DEF New
    <2>2. /\ pc[t] = "idle" /\ pc'[t] = "ensure"
          /\ \A u \in Threads : u # t => pc'[u] = pc[u] /\ ctx'[u] = ctx[u] /\ call'[u] = call[u]
      BY <2>1, Entered
    <2> QED
      BY <1>4, <2>2 DEF New
  <1>5. CASE Create(t, c)
    <2>1. Enter(t, "getOrCreate", c, "ensure")
      BY <1>5 DEF Create
    <2>2. \A u \in Threads : lock # u
      BY <1>5, SparkContextAssumption DEF Create
    <2>3. /\ pc[t] = "idle" /\ pc'[t] = "ensure"
          /\ \A u \in Threads : u # t => pc'[u] = pc[u] /\ ctx'[u] = ctx[u] /\ call'[u] = call[u]
      BY <2>1, Entered
    <2> QED
      BY <1>5, <2>2, <2>3 DEF Create
  <1> QED
    BY <1>1, <1>2, <1>3, <1>4, <1>5

LEMMA OtherAside ==
  ASSUME StartJvm \/ UNCHANGED vars
  PROVE  Aside
  BY DEF StartJvm, vars, Aside

LEMMA WorkSteps ==
  ASSUME Types, NEW t \in Threads,
         \/ InitContext(t) \/ StartServer(t) \/ InitFails(t)
         \/ StopJvm(t) \/ ClearJsc(t) \/ StopServer(t)
  PROVE  Works(t)
  <1> USE Moved DEF Works, Owning, Initializing, Ending, Goto, launched
  <1>1. CASE InitContext(t)
    BY <1>1 DEF InitContext
  <1>2. CASE StartServer(t)
    BY <1>2 DEF StartServer
  <1>3. CASE InitFails(t)
    BY <1>3 DEF InitFails
  <1>4. CASE StopJvm(t)
    BY <1>4 DEF StopJvm
  <1>5. CASE ClearJsc(t)
    BY <1>5 DEF ClearJsc
  <1>6. CASE StopServer(t)
    BY <1>6 DEF StopServer
  <1> QED
    BY <1>1, <1>2, <1>3, <1>4, <1>5, <1>6

LEMMA StepKinds ==
  ASSUME Types, Locking, [Next]_vars
  PROVE  \/ Aside
         \/ \E t \in Threads :
              \/ Works(t) \/ Registers(t) \/ Initialized(t) \/ ClearActive(t) \/ GetActive(t)
              \/ \E c \in Contexts : Stop(t, c)
  <1>1. CASE StartJvm \/ UNCHANGED vars
    BY <1>1, OtherAside
  <1>2. ASSUME NEW t \in Threads, LaunchGateway(t) \/ GatewayUp(t) \/ GatewayExited(t)
        PROVE  Aside
    <2>1. ctx[t] \in Contexts
      <3>1. pc[t] # "idle"
        BY <1>2 DEF LaunchGateway, GatewayUp, GatewayExited
      <3> QED
        BY <3>1 DEF Types
    <2> QED
      BY <1>2, <2>1, AsideSteps
  <1>3. ASSUME NEW t \in Threads, NEW c \in Contexts, New(t, c) \/ Create(t, c)
        PROVE  Aside
    BY <1>3, AsideSteps
  <1>4. ASSUME NEW t \in Threads, EnsureInitialized(t)
        PROVE  Aside \/ Registers(t)
    BY <1>4, EnsureSteps
  <1>5. ASSUME NEW t \in Threads,
               \/ InitContext(t) \/ StartServer(t) \/ InitFails(t)
               \/ StopJvm(t) \/ ClearJsc(t) \/ StopServer(t)
        PROVE  Works(t)
    BY <1>5, WorkSteps
  <1> QED
    BY <1>1, <1>2, <1>3, <1>4, <1>5 DEF Next, Step

(* The other steps: where they leave the threads.                          *)
LEMMA InitializedMoves ==
  ASSUME Types, NEW t \in Threads, Initialized(t)
  PROVE  /\ pc[t] = "finish" /\ pc'[t] = "idle"
         /\ \A u \in Threads : u # t => pc'[u] = pc[u]
         /\ known' = known \union {ctx[t]} /\ ready' = ready \union {ctx[t]}
         /\ UNCHANGED <<program, active, stops, jvm, jsc, server, ctx, call>>
         /\ \A u \in Threads : u # t /\ lock = u => lock' = u
  BY Moved DEF Initialized, Leave, Goto, launched

LEMMA ClearMoves ==
  ASSUME Types, NEW t \in Threads, ClearActive(t)
  PROVE  /\ pc[t] = "stop active" /\ pc'[t] = "idle"
         /\ \A u \in Threads : u # t => pc'[u] = pc[u]
         /\ active' = None
         /\ UNCHANGED <<program, known, ready, stops, jvm, jsc, server, ctx, call>>
  BY Moved DEF ClearActive, Leave, Goto, launched

LEMMA GetMoves ==
  ASSUME Types, NEW t \in Threads, GetActive(t)
  PROVE  /\ pc[t] = "idle" /\ pc'[t] = "idle"
         /\ \A u \in Threads : u # t => pc'[u] = pc[u] /\ ctx'[u] = ctx[u] /\ call'[u] = call[u]
         /\ "getOrCreate" \in program.calls /\ lock = None /\ active # None
         /\ known' = known \union {active}
         /\ UNCHANGED <<program, active, lock, ready, stops, jvm, jsc, server>>
  BY Entered DEF GetActive, launched

LEMMA StopMoves ==
  ASSUME Types, NEW t \in Threads, NEW c \in Contexts, Stop(t, c)
  PROVE  /\ pc[t] = "idle" /\ pc'[t] = "stop" /\ ctx'[t] = c /\ call'[t] = "stop"
         /\ \A u \in Threads : u # t => pc'[u] = pc[u] /\ ctx'[u] = ctx[u] /\ call'[u] = call[u]
         /\ c \in known /\ stops[c] < program.stops
         /\ stops' = [stops EXCEPT ![c] = stops[c] + 1]
         /\ UNCHANGED <<program, active, lock, known, ready, jvm, jsc, server>>
  BY Entered DEF Stop, launched

(***************************************************************************)
(* What getOrCreate returns has been initialised.                          *)
(***************************************************************************)
LEMMA ReturnedStep ==
  Types /\ Locking /\ Returned /\ [Next]_vars => Returned'
  <1> SUFFICES ASSUME Types, Locking, Returned, [Next]_vars PROVE Returned'
    OBVIOUS
  <1>1. CASE Aside
    BY <1>1, ReturnedFrame DEF Aside
  <1>2. ASSUME NEW t \in Threads, Works(t) PROVE Returned'
    <2>1. \A u \in Threads : lock = u /\ pc[u] \in Owning
            => lock' = u /\ pc'[u] \in Owning /\ ctx'[u] = ctx[u]
      BY <1>2 DEF Works
    <2> QED
      BY <1>2, <2>1, ReturnedFrame DEF Works
  <1>3. ASSUME NEW t \in Threads, NEW c \in Contexts, Stop(t, c) PROVE Returned'
    <2>1. \A u \in Threads : lock = u /\ pc[u] \in Owning
            => lock' = u /\ pc'[u] \in Owning /\ ctx'[u] = ctx[u]
      BY <1>3, StopMoves DEF Owning, Initializing, Ending
    <2> QED
      BY <1>3, <2>1, StopMoves, ReturnedFrame
  <1>4. ASSUME NEW t \in Threads, Registers(t) PROVE Returned'
    <2> SUFFICES ASSUME OneWay, "getOrCreate" \in program.calls
                 PROVE  \E u \in Threads : lock' = u /\ pc'[u] \in Owning /\ active' = ctx'[u]
      BY <1>4 DEF Registers, Returned, OneWay
    <2>1. call[t] = "getOrCreate"
      BY <1>4 DEF Registers, OneWay, Types
    <2> QED
      BY <1>4, <2>1 DEF Registers, Owning, Initializing
  <1>5. ASSUME NEW t \in Threads, Initialized(t) PROVE Returned'
    <2>1. /\ pc[t] = "finish"
          /\ known' = known \union {ctx[t]} /\ ready' = ready \union {ctx[t]}
          /\ UNCHANGED <<program, active>>
      BY <1>5, InitializedMoves
    <2> SUFFICES ASSUME OneWay, "getOrCreate" \in program.calls
                 PROVE  active \in ready' \union {None}
      BY <2>1 DEF Returned, OneWay
    <2>2. lock = t
      <3>1. call[t] = "getOrCreate"
        BY <2>1 DEF Locking, Locked, OneWay, Types, Initializing
      <3> QED
        BY <2>1, <3>1 DEF Locking, Locked
    <2>3. active \in ready \union {None} \/ active = ctx[t]
      BY <2>2 DEF Returned
    <2> QED
      BY <2>1, <2>3
  <1>6. ASSUME NEW t \in Threads, ClearActive(t) PROVE Returned'
    BY <1>6, ClearMoves DEF Returned, OneWay
  <1>7. ASSUME NEW t \in Threads, GetActive(t) PROVE Returned'
    <2>1. /\ "getOrCreate" \in program.calls /\ lock = None /\ active # None
          /\ known' = known \union {active}
          /\ UNCHANGED <<program, active, lock, ready>>
      BY <1>7, GetMoves
    <2>2. \A u \in Threads : lock # u
      BY <2>1, SparkContextAssumption
    <2> QED
      BY <2>1, <2>2 DEF Returned, OneWay
  <1> QED
    BY <1>1, <1>2, <1>3, <1>4, <1>5, <1>6, <1>7, StepKinds

(***************************************************************************)
(* One thread at a time is at work on a context.                           *)
(***************************************************************************)
(* A stop() and a registration find nobody at work, if each context is     *)
(* stopped once.                                                           *)
LEMMA StopAlone ==
  ASSUME Types, OneOwner, Disciplined, NEW t \in Threads, NEW c \in Contexts, Stop(t, c)
  PROVE  c \in known /\ stops[c] = 0 /\ active = c /\ \A u \in Threads : pc[u] \notin Owning
  <1>1. c \in known /\ stops[c] < program.stops
    BY StopMoves
  <1>2. stops[c] \in 0..program.stops /\ program.stops = 1
    BY DEF Disciplined, Types
  <1>3. stops[c] = 0
    BY <1>1, <1>2
  <1> QED
    BY <1>1, <1>3 DEF OneOwner

LEMMA RegistersAlone ==
  ASSUME Types, OneOwner, Disciplined, NEW t \in Threads, Registers(t)
  PROVE  \A u \in Threads : pc[u] \notin Owning
  <1>1. \A u \in Threads : pc[u] \in Owning => ctx[u] # None
    BY SparkContextAssumption DEF Types, Owning, Initializing, Ending
  <1> QED
    BY <1>1 DEF Registers, OneOwner

LEMMA OneOwnerStep ==
  Types /\ Locking /\ Returned /\ OneOwner /\ Parts /\ [Next]_vars => OneOwner'
  <1> SUFFICES ASSUME Types, Locking, Returned, OneOwner, Parts, [Next]_vars PROVE OneOwner'
    OBVIOUS
  <1>1. CASE Aside
    BY <1>1, OneOwnerFrame DEF Aside
  <1>2. ASSUME NEW t \in Threads, Works(t) PROVE OneOwner'
    BY <1>2, OneOwnerFrame DEF Works
  <1>3. ASSUME NEW t \in Threads, NEW c \in Contexts, Stop(t, c) PROVE OneOwner'
    <2> SUFFICES ASSUME Disciplined, OneOwner PROVE OneOwner'
      BY <1>3, StopMoves DEF OneOwner, Disciplined, OneWay
    <2>1. c \in known /\ c \in Contexts /\ stops[c] = 0
      BY <1>3, StopAlone
    <2>2. active = c /\ \A u \in Threads : pc[u] \notin Owning
      BY <1>3, StopAlone
    <2>3. stops' = [stops EXCEPT ![c] = 1] /\ DOMAIN stops = Contexts /\ known \subseteq Contexts
      <3>1. stops' = [stops EXCEPT ![c] = stops[c] + 1]
        BY <1>3, StopMoves
      <3>2. DOMAIN stops = Contexts /\ known \subseteq Contexts
        BY DEF Types
      <3> QED
        BY <2>1, <3>1, <3>2
    <2>4. \A d \in known : stops'[d] # 0
      BY <2>2, <2>3 DEF OneOwner
    <2>5. /\ pc'[t] = "stop" /\ ctx'[t] = c /\ call'[t] = "stop"
          /\ \A u \in Threads : u # t => pc'[u] \notin Owning
          /\ active' = active /\ known' = known
      BY <1>3, <2>2, StopMoves
    <2> QED
      BY <2>1, <2>2, <2>3, <2>4, <2>5 DEF OneOwner
  <1>4. ASSUME NEW t \in Threads, Registers(t) PROVE OneOwner'
    <2> SUFFICES ASSUME Disciplined PROVE OneOwner'
      BY <1>4 DEF Registers, OneOwner, Disciplined, OneWay
    <2>1. \A u \in Threads : pc[u] \notin Owning
      BY <1>4, RegistersAlone
    <2>2. \A c \in known : stops[c] # 0
      <3>1. known \subseteq Contexts
        BY DEF Types
      <3> QED
        BY <1>4, <3>1, SparkContextAssumption DEF Registers, OneOwner
    <2>3. /\ active' = ctx[t] /\ call[t] # "stop"
          /\ \A u \in Threads : u # t => pc'[u] \notin Owning
          /\ UNCHANGED <<known, stops, ctx, call>>
      BY <1>4, <2>1 DEF Registers
    <2> QED
      BY <2>2, <2>3 DEF OneOwner
  <1>5. ASSUME NEW t \in Threads, Initialized(t) PROVE OneOwner'
    <2> SUFFICES ASSUME Disciplined PROVE OneOwner'
      BY <1>5, InitializedMoves DEF OneOwner, Disciplined, OneWay
    <2>1. /\ pc[t] = "finish" /\ pc'[t] = "idle"
          /\ \A u \in Threads : u # t => pc'[u] = pc[u]
          /\ known' = known \union {ctx[t]}
          /\ UNCHANGED <<active, stops, ctx, call>>
      BY <1>5, InitializedMoves
    <2>2. pc[t] \in Owning
      BY <2>1 DEF Owning, Initializing
    <2>3. \A u \in Threads : pc'[u] \notin Owning
      BY <2>1, <2>2 DEF OneOwner, Owning, Initializing, Ending
    <2>4. active = ctx[t] /\ \A c \in known : stops[c] # 0
      BY <2>2 DEF OneOwner
    <2> QED
      BY <2>1, <2>3, <2>4 DEF OneOwner
  <1>6. ASSUME NEW t \in Threads, ClearActive(t) PROVE OneOwner'
    <2> SUFFICES ASSUME Disciplined PROVE OneOwner'
      BY <1>6, ClearMoves DEF OneOwner, Disciplined, OneWay
    <2>1. /\ pc[t] = "stop active" /\ pc'[t] = "idle"
          /\ \A u \in Threads : u # t => pc'[u] = pc[u]
          /\ UNCHANGED <<known, stops>>
      BY <1>6, ClearMoves
    <2>2. pc[t] \in Owning
      BY <2>1 DEF Owning, Ending
    <2>3. \A u \in Threads : pc'[u] \notin Owning
      BY <2>1, <2>2 DEF OneOwner, Owning, Initializing, Ending
    <2>4. \A c \in known : stops[c] # 0
      BY <2>2 DEF OneOwner
    <2> QED
      BY <2>1, <2>3, <2>4 DEF OneOwner
  <1>7. ASSUME NEW t \in Threads, GetActive(t) PROVE OneOwner'
    <2> SUFFICES ASSUME Disciplined PROVE OneOwner'
      BY <1>7, GetMoves DEF OneOwner, Disciplined, OneWay
    <2>1. /\ pc[t] = "idle" /\ pc'[t] = "idle"
          /\ \A u \in Threads : u # t => pc'[u] = pc[u] /\ ctx'[u] = ctx[u] /\ call'[u] = call[u]
          /\ "getOrCreate" \in program.calls /\ lock = None /\ active # None
          /\ known' = known \union {active}
          /\ UNCHANGED <<active, stops>>
      BY <1>7, GetMoves
    <2>2. \A u \in Threads : pc[u] \in Owning => call[u] = "stop"
      <3> SUFFICES ASSUME NEW u \in Threads, pc[u] \in Owning, call[u] # "stop" PROVE FALSE
        OBVIOUS
      <3>1. pc[u] # "idle" /\ lock # u
        BY <2>1, SparkContextAssumption DEF Owning, Initializing, Ending
      <3>2. call[u] = "getOrCreate"
        BY <2>1, <3>1 DEF Locking, Locked, Disciplined, OneWay, Types
      <3> QED
        BY <3>1, <3>2 DEF Locking, Locked
    <2>3. stops[active] = 0 => \A u \in Threads : pc[u] \notin Owning
      BY <2>2 DEF OneOwner
    <2>4. \A u \in Threads : pc'[u] = pc[u]
      BY <2>1
    <2>5. \A u \in Threads : pc[u] \in Owning => ctx'[u] = ctx[u] /\ call'[u] = call[u]
      BY <2>1 DEF Owning, Initializing, Ending
    <2> QED
      BY <2>1, <2>3, <2>4, <2>5 DEF OneOwner
  <1> QED
    BY <1>1, <1>2, <1>3, <1>4, <1>5, <1>6, <1>7, StepKinds

(***************************************************************************)
(* What exists of the contexts.                                            *)
(***************************************************************************)
LEMMA StageSteps ==
  ASSUME Types, Parts, Disciplined, NEW t \in Threads,
         \/ InitContext(t) \/ StartServer(t) \/ InitFails(t)
         \/ StopJvm(t) \/ ClearJsc(t) \/ StopServer(t)
  PROVE  Stage(pc[t], ctx[t])'
  <1>1. Stage(pc[t], ctx[t])
    BY DEF Parts
  <1>2. pc \in [Threads -> {"idle"} \union Launching \union Owning]
    BY DEF Types
  <1> USE <1>1, <1>2 DEF Stage, Goto, launched
  <1>3. CASE InitContext(t)
    BY <1>3 DEF InitContext
  <1>4. CASE StartServer(t)
    BY <1>4 DEF StartServer
  <1>5. CASE InitFails(t)
    BY <1>5 DEF InitFails
  <1>6. CASE StopJvm(t)
    BY <1>6 DEF StopJvm
  <1>7. CASE ClearJsc(t)
    BY <1>7 DEF ClearJsc
  <1>8. CASE StopServer(t)
    BY <1>8 DEF StopServer
  <1> QED
    BY <1>3, <1>4, <1>5, <1>6, <1>7, <1>8

LEMMA WorkParts ==
  ASSUME Types, OneOwner, Parts, NEW t \in Threads,
         \/ InitContext(t) \/ StartServer(t) \/ InitFails(t)
         \/ StopJvm(t) \/ ClearJsc(t) \/ StopServer(t)
  PROVE  Parts'
  <1>1. Works(t)
    BY WorkSteps
  <1>2. /\ \A u \in Threads : u # t => pc'[u] = pc[u] /\ ctx'[u] = ctx[u]
        /\ pc'[t] \in Owning /\ UNCHANGED program
    BY <1>1 DEF Works
  <1>3. Disciplined => \A u \in Threads : u # t => pc[u] \notin Owning
    BY <1>1 DEF Works, OneOwner
  <1>4. Disciplined => Stage(pc[t], ctx[t])'
    BY StageSteps
  <1> QED
    BY <1>2, <1>3, <1>4, PartsOwner

LEMMA PartsStep ==
  Types /\ Locking /\ OneOwner /\ Parts /\ [Next]_vars => Parts'
  <1> SUFFICES ASSUME Types, Locking, OneOwner, Parts, [Next]_vars PROVE Parts'
    OBVIOUS
  <1>1. CASE Aside
    BY <1>1, PartsFrame DEF Aside
  <1>2. ASSUME NEW t \in Threads, Registers(t) PROVE Parts'
    <2>1. /\ \A u \in Threads : u # t => pc'[u] = pc[u] /\ ctx'[u] = ctx[u]
          /\ pc'[t] = "init" /\ UNCHANGED <<program, jvm, jsc, server>> /\ active = None
      BY <1>2 DEF Registers
    <2>2. Disciplined => \A u \in Threads : pc[u] \notin Owning
      BY <1>2, RegistersAlone
    <2>3. Disciplined => jvm = None /\ jsc = {} /\ server = {}
      <3>1. None \notin ready
        BY SparkContextAssumption DEF Types
      <3> QED
        BY <2>1, <2>2, <3>1 DEF Parts, AllOrNothing
    <2>4. Disciplined => Stage(pc[t], ctx[t])'
      BY <2>1, <2>3 DEF Stage
    <2>5. pc'[t] \in Owning
      BY <2>1 DEF Owning, Initializing
    <2> QED
      BY <2>1, <2>2, <2>4, <2>5, PartsOwner
  <1>3. ASSUME NEW t \in Threads, Initialized(t) PROVE Parts'
    <2>1. /\ pc[t] = "finish" /\ pc'[t] = "idle"
          /\ \A u \in Threads : u # t => pc'[u] = pc[u] /\ ctx'[u] = ctx[u]
          /\ ready' = ready \union {ctx[t]}
          /\ UNCHANGED <<program, active, jvm, jsc, server>>
      BY <1>3, InitializedMoves
    <2>2. pc[t] \in Owning
      BY <2>1 DEF Owning, Initializing
    <2>3. Disciplined => active = ctx[t] /\ \A u \in Threads : u # t => pc[u] \notin Owning
      BY <2>2 DEF OneOwner
    <2>4. Disciplined => jvm = ctx[t] /\ jsc = {ctx[t]} /\ server = {ctx[t]}
      BY <2>1 DEF Parts, Stage
    <2>5. Disciplined => AllOrNothing'
      BY <2>1, <2>3, <2>4 DEF AllOrNothing
    <2>6. Stage(pc[t], ctx[t])'
      BY <2>1 DEF Stage
    <2> QED
      BY <2>1, <2>3, <2>5, <2>6, PartsOwner
  <1>4. ASSUME NEW t \in Threads, ClearActive(t) PROVE Parts'
    <2>1. /\ pc[t] = "stop active" /\ pc'[t] = "idle"
          /\ \A u \in Threads : u # t => pc'[u] = pc[u] /\ ctx'[u] = ctx[u]
          /\ active' = None
          /\ UNCHANGED <<program, jvm, jsc, server>>
      BY <1>4, ClearMoves
    <2>2. pc[t] \in Owning
      BY <2>1 DEF Owning, Ending
    <2>3. Disciplined => \A u \in Threads : u # t => pc[u] \notin Owning
      BY <2>2 DEF OneOwner
    <2>4. Disciplined => AllOrNothing'
      BY <2>1 DEF Parts, Stage, AllOrNothing
    <2>5. Stage(pc[t], ctx[t])'
      BY <2>1 DEF Stage
    <2> QED
      BY <2>1, <2>3, <2>4, <2>5, PartsOwner
  <1>5. ASSUME NEW t \in Threads, GetActive(t) PROVE Parts'
    <2>1. /\ UNCHANGED <<program, active, jvm, jsc, server, ready>>
          /\ \A u \in Threads : \/ pc'[u] = pc[u] /\ ctx'[u] = ctx[u]
                                \/ pc[u] \notin Owning /\ pc'[u] \notin Owning
      BY <1>5, GetMoves DEF Owning, Initializing, Ending
    <2> QED
      BY <2>1, PartsFrame
  <1>6. ASSUME NEW t \in Threads, NEW c \in Contexts, Stop(t, c) PROVE Parts'
    <2>1. /\ pc'[t] = "stop" /\ ctx'[t] = c
          /\ \A u \in Threads : u # t => pc'[u] = pc[u] /\ ctx'[u] = ctx[u]
          /\ UNCHANGED <<program, jvm, jsc, server>>
      BY <1>6, StopMoves
    <2>2. Disciplined => active = c /\ \A u \in Threads : pc[u] \notin Owning
      BY <1>6, StopAlone
    <2>3. Disciplined => jvm = c /\ jsc = {c} /\ server = {c}
      BY <2>2, SparkContextAssumption DEF Parts, AllOrNothing
    <2>4. Disciplined => Stage(pc[t], ctx[t])'
      BY <2>1, <2>3 DEF Stage
    <2>5. pc'[t] \in Owning
      BY <2>1 DEF Owning, Ending
    <2> QED
      BY <2>1, <2>2, <2>4, <2>5, PartsOwner
  <1>7. ASSUME NEW t \in Threads, NEW c \in Contexts,
               LaunchGateway(t) \/ GatewayUp(t) \/ GatewayExited(t) \/ EnsureInitialized(t)
                 \/ New(t, c) \/ Create(t, c)
        PROVE  Parts'
    BY <1>1, <1>2, <1>7, AsideSteps, EnsureSteps
  <1>8. ASSUME NEW t \in Threads,
               LaunchGateway(t) \/ GatewayUp(t) \/ GatewayExited(t) \/ EnsureInitialized(t)
        PROVE  Parts'
    <2>1. ctx[t] \in Contexts
      <3>1. pc[t] # "idle"
        BY <1>8 DEF LaunchGateway, GatewayUp, GatewayExited, EnsureInitialized
      <3> QED
        BY <3>1 DEF Types
    <2> QED
      BY <1>7, <1>8, <2>1
  <1>9. CASE StartJvm \/ UNCHANGED vars
    BY <1>1, <1>9, OtherAside
  <1> QED
    BY <1>3, <1>4, <1>5, <1>6, <1>7, <1>8, <1>9, WorkParts DEF Next, Step

LEMMA ContextStep == ContextInv /\ [Next]_vars => ContextInv'
  BY TypesStep, LockingStep, ReturnedStep, OneOwnerStep, PartsStep DEF ContextInv

LEMMA ContextAlways == Spec => []ContextInv
  BY ContextInit, ContextStep, PTL DEF Spec

-----------------------------------------------------------------------------
(* Types; whoever holds SparkContext._lock is in getOrCreate or launches   *)
(* the gateway.                                                            *)
THEOREM ContextTypeCorrect == Spec => []TypeOK
  <1>1. ContextInv => TypeOK
    <2> SUFFICES ASSUME ContextInv PROVE TypeOK
      OBVIOUS
    <2>1. lock # None => /\ pc[lock] # "idle"
                         /\ call[lock] = "getOrCreate" \/ ~gateway \/ pc[lock] = "ensure"
      BY DEF ContextInv, Types, Locking, Locked
    <2>2. pc \in [Threads -> {"idle", "ensure", "launch", "init", "serve", "finish", "stop",
                              "stop jsc", "stop server", "stop active"}]
      BY DEF ContextInv, Types, Launching, Owning, Initializing, Ending
    <2> QED
      BY <2>1, <2>2 DEF ContextInv, Types, TypeOK
  <1> QED
    BY <1>1, ContextAlways, PTL

(* One context at a time has JVM objects and an accumulator server, and it *)
(* is the registered one, if all contexts are made in one way and each is  *)
(* stopped once.                                                           *)
THEOREM ContextSingleton == Spec => []SingletonRegistered
  <1>1. ContextInv => SingletonRegistered
    <2> SUFFICES ASSUME ContextInv, Disciplined
                 PROVE  Cardinality(jsc \union server) <= 1 /\ (jvm # None => active = jvm)
      BY DEF SingletonRegistered
    <2>1. /\ Parts /\ OneOwner
          /\ pc \in [Threads -> {"idle"} \union Launching \union Owning]
      BY DEF ContextInv, Types
    <2>2. (\E c : jsc \union server \subseteq {c}) /\ (jvm # None => active = jvm)
      <3>1. CASE \A t \in Threads : pc[t] \notin Owning
        BY <2>1, <3>1 DEF Parts, AllOrNothing
      <3>2. ASSUME NEW t \in Threads, pc[t] \in Owning
            PROVE  jsc \union server \subseteq {ctx[t]} /\ (jvm # None => active = jvm)
        <4>1. Stage(pc[t], ctx[t]) /\ active = ctx[t]
          BY <2>1, <3>2 DEF Parts, OneOwner
        <4> QED
          BY <3>2, <4>1 DEF Stage, Owning, Initializing, Ending
      <3> QED
        BY <3>1, <3>2
    <2>3. PICK c : jsc \union server \subseteq {c}
      BY <2>2
    <2>4. jsc \union server = {} \/ jsc \union server = {c}
      BY <2>3
    <2>5. Cardinality(jsc \union server) \in {0, 1}
      BY <2>4, FS_EmptySet, FS_Singleton
    <2> QED
      BY <2>2, <2>5
  <1> QED
    BY <1>1, ContextAlways, PTL

(* Between calls, everything of one initialised context is there, or       *)
(* nothing of any: a constructor that failed left nothing behind.          *)
THEOREM ContextCleanedUp == Spec => []CleanedUp
  <1>1. ContextInv => CleanedUp
    BY DEF ContextInv, Parts, AllOrNothing, CleanedUp, Owning, Initializing, Ending
  <1> QED
    BY <1>1, ContextAlways, PTL

(* Every context that a call returned was initialised, whichever thread    *)
(* made it, however often contexts are stopped.                            *)
THEOREM ContextReturned == Spec => []ReturnedInitialized
  <1>1. ContextInv => ReturnedInitialized
    BY DEF ContextInv, Returned, ReturnedInitialized
  <1> QED
    BY <1>1, ContextAlways, PTL

=============================================================================
