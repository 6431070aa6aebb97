------------------------- MODULE PythonWorkerProofs -------------------------
(***************************************************************************)
(* Theorems about PythonWorker: what a task finds in the process, for any  *)
(* number of tasks with any broadcasts and resources.                      *)
(***************************************************************************)
EXTENDS PythonWorker, SequenceTheorems, TLAPS

(***************************************************************************)
(* The inductive invariant, by what it is about.                           *)
(***************************************************************************)
Locations ==
  {"wait", "context", "broadcasts", "command", "process", "report", "end", "exited"}

(* The JVM keeps the worker only while it waits, at the end of the stream. *)
Handshake ==
  /\ pc \in Locations /\ jvm \in {"idle", "busy", "dropped"}
  /\ jvm = "idle" => pc = "wait" /\ unread = "end of stream"
  /\ pc \notin {"wait", "exited"} => jvm = "busy"
  /\ pc = "wait" => jvm # "dropped"
  /\ pc = "exited" => jvm = "dropped"

(* The changes that were sent are those from the registry as it is to the  *)
(* broadcasts of the task; once they are made the registry is what the JVM *)
(* believes it to be.                                                      *)
Registry ==
  /\ sent = task.broadcasts
  /\ jvm = "busy" /\ pc \in {"wait", "context", "broadcasts"} =>
       /\ diff.remove = registry \ task.broadcasts
       /\ diff.add = task.broadcasts \ registry
  /\ jvm = "idle" \/ pc \in {"command", "process", "report", "end"} =>
       registry = task.broadcasts

(* Between two tasks no context is left; within one it is the task's own.  *)
Contexts ==
  /\ task.resources = <<>> \/ task.resources \in Resources
  /\ task.barrier \in BOOLEAN
  /\ pc \in {"report", "end", "wait", "context"} =>
       taskContext = NoContext /\ barrierContext = NoContext
  /\ pc \in {"broadcasts", "command", "process"} =>
       /\ taskContext = [task |-> n, barrier |-> task.barrier]
       /\ barrierContext = IF task.barrier THEN taskContext ELSE NoContext
       /\ resources = IF task.resources = <<>> THEN {}
                      ELSE {task.resources[Len(task.resources)]}

Accumulated == pc \in {"process", "report", "end"} => accums = {n}

WorkerInv == Handshake /\ Registry /\ Contexts /\ Accumulated

LEMMA WorkerInit == Init => WorkerInv
  <1> SUFFICES ASSUME Init PROVE WorkerInv
    OBVIOUS
  <1>1. Handshake
    BY DEF Init, Handshake, Locations
  <1>2. Registry
    BY DEF Init, Registry
  <1>3. Contexts
    BY DEF Init, Contexts
  <1>4. Accumulated
    BY DEF Init, Accumulated
  <1> QED
    BY <1>1, <1>2, <1>3, <1>4 DEF WorkerInv

LEMMA WorkerStep == WorkerInv /\ [Next]_vars => WorkerInv'
  <1> SUFFICES ASSUME WorkerInv, [Next]_vars PROVE WorkerInv'
    OBVIOUS
  <1> USE DEF WorkerInv, Handshake, Locations, Registry, Contexts, Accumulated, context, sending
  <1>1. CASE SendTask
    <2>1. task' \in Tasks /\ jvm' = "busy" /\ UNCHANGED <<pc, context, registry, accums, unread>>
      BY <1>1 DEF SendTask
    <2>2. pc = "wait" /\ registry = sent
      BY <1>1 DEF SendTask
    <2>3. Handshake' /\ Accumulated'
      BY <2>1, <2>2
    <2>4. Registry'
      BY <1>1, <2>1, <2>2 DEF SendTask
    <2>5. Contexts'
      BY <2>1, <2>2 DEF Tasks
    <2> QED
      BY <2>3, <2>4, <2>5
  <1>2. CASE ReadTask
    BY <1>2 DEF ReadTask
  <1>3. CASE ReadContext
    <2>1. Handshake' /\ Registry' /\ Accumulated'
      BY <1>3 DEF ReadContext
    <2>2. Contexts'
      <3>1. CASE task.barrier
        BY <1>3, <3>1 DEF ReadContext
      <3>2. CASE ~task.barrier
        BY <1>3, <3>2 DEF ReadContext, NoContext
      <3> QED
        BY <3>1, <3>2
    <2> QED
      BY <2>1, <2>2
  <1>4. CASE ReadBroadcasts
    BY <1>4 DEF ReadBroadcasts
  <1>5. CASE ReadCommand
    BY <1>5 DEF ReadCommand
  <1>6. CASE Process
    BY <1>6 DEF Process
  <1>7. CASE Fail
    BY <1>7 DEF Fail
  <1>8. CASE Report
    BY <1>8 DEF Report
  <1>9. CASE End
    <2>1. CASE unread = "end of stream"
      BY <1>9, <2>1 DEF End
    <2>2. CASE unread # "end of stream"
      BY <1>9, <2>2 DEF End
    <2> QED
      BY <2>1, <2>2
  <1>10. CASE UNCHANGED vars
    BY <1>10 DEF vars
  <1> QED
    BY <1>1, <1>2, <1>3, <1>4, <1>5, <1>6, <1>7, <1>8, <1>9, <1>10 DEF Next

LEMMA WorkerAlways == Spec => []WorkerInv
  BY WorkerInit, WorkerStep, PTL DEF Spec

(* The last of a sequence of at most one is its only element.              *)
LEMMA OnlyElement ==
  ASSUME NEW r \in Resources
  PROVE  LET kept == IF r = <<>> THEN {} ELSE {r[Len(r)]}
         IN  /\ kept \subseteq Elements(r)
             /\ Len(r) <= 1 => kept = Elements(r)
  <1>1. r \in Seq(Elements(r))
    BY PythonWorkerAssumption
  <1>2. Len(r) \in Nat /\ (r = <<>> <=> Len(r) = 0)
    BY <1>1, EmptySeq, LenProperties
  <1>3. CASE r = <<>>
    BY <1>2, <1>3 DEF Elements
  <1>4. CASE r # <<>>
    <2>1. Len(r) \in 1..Len(r)
      BY <1>2, <1>4
    <2>2. Len(r) <= 1 => 1..Len(r) = {Len(r)}
      BY <1>2, <2>1
    <2> QED
      BY <1>4, <2>1, <2>2 DEF Elements
  <1> QED
    BY <1>3, <1>4

-----------------------------------------------------------------------------
(* The registry holds the broadcasts of the task that runs and no others,  *)
(* though the JVM sends only what changed since the task before.           *)
THEOREM WorkerBroadcasts == Spec => []BroadcastsOfTask
  <1>1. WorkerInv => BroadcastsOfTask
    BY DEF WorkerInv, Handshake, Registry, BroadcastsOfTask
  <1> QED
    BY <1>1, WorkerAlways, PTL

(* A task that reuses the process of another sees no context and no        *)
(* resource of it.                                                         *)
THEOREM WorkerContext == Spec => []ContextOfTask
  <1>1. WorkerInv => ContextOfTask
    <2> SUFFICES ASSUME WorkerInv, pc = "process"
                 PROVE  /\ resources \subseteq Elements(task.resources)
                        /\ Len(task.resources) <= 1 => resources = Elements(task.resources)
      BY DEF WorkerInv, Contexts, ContextOfTask
    <2>1. resources = IF task.resources = <<>> THEN {}
                      ELSE {task.resources[Len(task.resources)]}
      BY DEF WorkerInv, Contexts
    <2>2. CASE task.resources \in Resources
      BY <2>1, <2>2, OnlyElement
    <2>3. CASE task.resources = <<>>
      <3>1. Elements(<<>>) = {}
        BY EmptySeq DEF Elements
      <3> QED
        BY <2>1, <2>3, <3>1
    <2> QED
      BY <2>2, <2>3 DEF WorkerInv, Contexts
  <1> QED
    BY <1>1, WorkerAlways, PTL

(* The accumulator updates that a task reports are its own.                *)
THEOREM WorkerAccumulators == Spec => []AccumulatorsOfTask
  <1>1. WorkerInv => AccumulatorsOfTask
    BY DEF WorkerInv, Accumulated, AccumulatorsOfTask
  <1> QED
    BY <1>1, WorkerAlways, PTL

(* The JVM gives a task only to a worker that waits with an empty socket.  *)
THEOREM WorkerReused == Spec => []ReusedAtEndOfStream
  <1>1. WorkerInv => ReusedAtEndOfStream
    BY DEF WorkerInv, Handshake, ReusedAtEndOfStream
  <1> QED
    BY <1>1, WorkerAlways, PTL
=============================================================================
