---------------------------- MODULE PythonWorker ----------------------------
(***************************************************************************)
(* A python worker process that the JVM uses for one task after another:   *)
(* main() of worker.py, called in the loop of daemon.py.  What outlives a  *)
(* task are the TaskContext singletons, the broadcast registry, of which   *)
(* the JVM sends only the changes, and the accumulator registry.           *)
(***************************************************************************)
EXTENDS Integers, Sequences

CONSTANTS
  Broadcasts,  \* the broadcast variables
  Resources,   \* the sequences of resource names a task may be given
  MaxTasks     \* bound: the tasks sent to the process

Elements(s) == {s[i] : i \in 1..Len(s)}

ASSUME PythonWorkerAssumption ==
  /\ MaxTasks \in Nat
  /\ \A r \in Resources : r \in Seq(Elements(r))

Tasks == [broadcasts : SUBSET Broadcasts, resources : Resources, barrier : BOOLEAN]

(* A context: the number of the task it describes, and its class.          *)
NoContext == [task |-> 0, barrier |-> FALSE]

VARIABLES
  pc,          \* "wait", "context", "broadcasts", "command", "process", "report", "end", "exited"
  n,           \* the number of the task
  task,        \* the task, as the JVM sent it
  diff,        \* the broadcasts to remove and to add
  sent,        \* external: the broadcasts the JVM believes the worker to have
  taskContext, \* TaskContext._taskContext
  barrierContext, \* BarrierTaskContext._taskContext
  resources,   \* taskContext._resources
  registry,    \* _broadcastRegistry
  accums,      \* _accumulatorRegistry: the tasks whose accumulators are in it
  unread,      \* what comes next on the socket: "data", "end of data" or "end of stream"
  jvm          \* external: "idle" (keeps the worker for reuse), "busy" or "dropped"

vars == <<pc, n, task, diff, sent, taskContext, barrierContext, resources, registry, accums,
          unread, jvm>>
context == <<taskContext, barrierContext, resources>>
sending == <<n, task, diff, sent>>

Init ==
  /\ pc = "wait" /\ n = 0 /\ jvm = "idle"
  /\ task = [broadcasts |-> {}, resources |-> <<>>, barrier |-> FALSE]
  /\ diff = [remove |-> {}, add |-> {}] /\ sent = {}
  /\ taskContext = NoContext /\ barrierContext = NoContext
  /\ resources = {} /\ registry = {} /\ accums = {}
  /\ unread = "end of stream"

(* The JVM, external: it sends a task, and the broadcasts as changes.      *)
SendTask ==
  /\ jvm = "idle"
  /\ n < MaxTasks
  /\ n' = n + 1
  /\ task' \in Tasks
  /\ diff' = [remove |-> sent \ task'.broadcasts, add |-> task'.broadcasts \ sent]
  /\ sent' = task'.broadcasts
  /\ jvm' = "busy"
  /\ UNCHANGED <<pc, context, registry, accums, unread>>

-----------------------------------------------------------------------------
ReadTask ==
  /\ pc = "wait"
  /\ jvm = "busy"
  /\ pc' = "context"
  /\ UNCHANGED <<sending, context, registry, accums, unread, jvm>>

(* _getOrCreate, twice: a context that is there is used again.             *)
ReadContext ==
  /\ pc = "context"
  /\ IF task.barrier
     THEN /\ barrierContext' = [task |-> n, barrier |-> TRUE]
          /\ taskContext' = barrierContext'
     ELSE /\ taskContext' = [task |-> n,
                             barrier |-> IF taskContext = NoContext THEN FALSE
                                                                    ELSE taskContext.barrier]
          /\ UNCHANGED barrierContext
  /\ resources' = IF task.resources = <<>> THEN {}
                  ELSE {task.resources[Len(task.resources)]}
  /\ pc' = "broadcasts"
  /\ UNCHANGED <<sending, registry, accums, unread, jvm>>

(* Mutant: the code of a removal is not recognised.                        *)
ReadBroadcastsKept ==
  /\ pc = "broadcasts"
  /\ registry' = registry \union diff.add
  /\ pc' = "command"
  /\ UNCHANGED <<sending, context, accums, unread, jvm>>

(* registry.pop raises KeyError for a broadcast that is not there.         *)
ReadBroadcasts ==
  /\ pc = "broadcasts"
  /\ diff.remove \subseteq registry
  /\ registry' = (registry \ diff.remove) \union diff.add
  /\ pc' = "command"
  /\ UNCHANGED <<sending, context, accums, unread, jvm>>

(* Mutant: the accumulators of earlier tasks stay registered.              *)
ReadCommandKept ==
  /\ pc = "command"
  /\ accums' = accums \union {n}
  /\ unread' = "data"
  /\ pc' = "process"
  /\ UNCHANGED <<sending, context, registry, jvm>>

(* _accumulatorRegistry.clear(), and the command brings its own.           *)
ReadCommand ==
  /\ pc = "command"
  /\ accums' = {n}
  /\ unread' = "data"
  /\ pc' = "process"
  /\ UNCHANGED <<sending, context, registry, jvm>>

(* Mutant: the contexts are not reset after the task.                      *)
ProcessKeepsContext ==
  /\ pc = "process"
  /\ unread' \in {"data", "end of data", "end of stream"}
  /\ pc' = "report"
  /\ UNCHANGED <<sending, context, registry, accums, jvm>>

(* process(): the function need not read all of its data, nor the end of   *)
(* it.  Then the contexts are reset.                                       *)
Process ==
  /\ pc = "process"
  /\ unread' \in {"data", "end of data", "end of stream"}
  /\ taskContext' = NoContext
  /\ barrierContext' = NoContext
  /\ pc' = "report"
  /\ UNCHANGED <<sending, resources, registry, accums, jvm>>

(* Anything up to here may raise: the error is sent, and sys.exit(-1).     *)
Fail ==
  /\ pc \in {"context", "broadcasts", "command", "process"}
  /\ pc' = "exited"
  /\ jvm' = "dropped"
  /\ UNCHANGED <<sending, context, registry, accums, unread>>

(* The times and the accumulators are written.                             *)
Report ==
  /\ pc = "report"
  /\ pc' = "end"
  /\ UNCHANGED <<sending, context, registry, accums, unread, jvm>>

(* Mutant: the worker offers itself for reuse in any case.                 *)
EndAlwaysReuse ==
  /\ pc = "end"
  /\ pc' = "wait" /\ jvm' = "idle"
  /\ UNCHANGED <<sending, context, registry, accums, unread>>

(* END_OF_STREAM is answered with itself, or the process ends.             *)
End ==
  /\ pc = "end"
  /\ IF unread = "end of stream" THEN pc' = "wait" /\ jvm' = "idle"
                                 ELSE pc' = "exited" /\ jvm' = "dropped"
  /\ UNCHANGED <<sending, context, registry, accums, unread>>

Next == SendTask \/ ReadTask \/ ReadContext \/ ReadBroadcasts \/ ReadCommand \/ Process
          \/ Fail \/ Report \/ End
Spec == Init /\ [][Next]_vars

-----------------------------------------------------------------------------
(* When the task's function runs, the registry holds its broadcasts and no *)
(* others, after any sequence of tasks with any changes between them; and  *)
(* no removal is sent for what is not there, which pop() would raise for.  *)
BroadcastsOfTask ==
  /\ pc = "broadcasts" => diff.remove \subseteq registry
  /\ pc = "process" => registry = task.broadcasts

(* "avoid residual context when worker reuse": the task's function sees    *)
(* its own task's context, one of the barrier class only in a barrier      *)
(* task, and no resource of an earlier task.  It has its own resource if   *)
(* there is one; of several only the last is kept, since the dictionary is *)
(* made anew for each.                                                     *)
ContextOfTask ==
  pc = "process" =>
    /\ taskContext = [task |-> n, barrier |-> task.barrier]
    /\ barrierContext = IF task.barrier THEN taskContext ELSE NoContext
    /\ resources \subseteq Elements(task.resources)
    /\ Len(task.resources) <= 1 => resources = Elements(task.resources)

(* What is reported are the updates of this task alone: those of an        *)
(* earlier one would be added a second time by the driver.                 *)
AccumulatorsOfTask == pc \in {"report", "end"} => accums = {n}

(* A worker that the JVM keeps has read its socket to the end.             *)
ReusedAtEndOfStream == jvm = "idle" => unread = "end of stream" /\ pc = "wait"
=============================================================================
