---------------------------- MODULE PythonDaemon ----------------------------
(***************************************************************************)
(* daemon.py of the bundled pyspark: it forks a worker process for every   *)
(* connection the JVM opens, kills the workers whose pid the JVM writes to *)
(* its stdin, and hangs up on all of them when stdin is closed or SIGTERM  *)
(* arrives.  SIGCHLD is ignored, so that the pid of a process that ended   *)
(* is free at once.  A forked child inherits that SIGHUP is ignored, until *)
(* worker() restores the default.                                          *)
(***************************************************************************)
EXTENDS Integers, Sequences, FiniteSets

CONSTANTS
  Conns,   \* the connections the JVM may open, the bound on forks
  Pids,
  None

ASSUME PythonDaemonAssumption == None \notin Conns \union Pids

VARIABLES
  daemon,   \* "up", in shutdown(code): "exit 0" or "exit 1", or the exit code: "0" or "1"
  jvm,      \* external: "up", or "gone" and stdin is closed
  fresh,    \* the connections not opened yet
  backlog,  \* those the daemon has not accepted
  open,     \* those that the JVM has not closed
  conn,     \* the connection of each worker process; None: the pid is free
  state,    \* "forked", "acked" or "ready", of each worker process
  told,     \* external: the pid the JVM read from a connection
  stdin,    \* the pids written to the daemon and not read
  asked     \* the connections whose worker the JVM asked to be killed

vars == <<daemon, jvm, fresh, backlog, open, conn, state, told, stdin, asked>>
workers == <<conn, state>>

Init ==
  /\ daemon = "up" /\ jvm = "up"
  /\ fresh = Conns /\ backlog = {} /\ open = {}
  /\ conn = [p \in Pids |-> None]
  /\ state = [p \in Pids |-> "ready"]
  /\ told = [c \in Conns |-> None]
  /\ stdin = <<>> /\ asked = {}

Running == {p \in Pids : conn[p] # None}

-----------------------------------------------------------------------------
(* The JVM, external, as daemon.py is made for it.                         *)
Connect(c) ==
  /\ jvm = "up" /\ daemon = "up"
  /\ c \in fresh
  /\ fresh' = fresh \ {c}
  /\ backlog' = backlog \union {c}
  /\ open' = open \union {c}
  /\ UNCHANGED <<daemon, jvm, workers, told, stdin, asked>>

(* A worker is given up: its pid goes to the daemon, the connection is     *)
(* closed.                                                                 *)
Destroy(c) ==
  /\ jvm = "up"
  /\ c \in open
  /\ told[c] # None
  /\ stdin' = Append(stdin, told[c])
  /\ asked' = asked \union {c}
  /\ open' = open \ {c}
  /\ UNCHANGED <<daemon, jvm, fresh, backlog, workers, told>>

(* An idle worker is let go, or the JVM ends.                              *)
Close(c) ==
  /\ jvm = "up"
  /\ c \in open
  /\ told[c] # None
  /\ open' = open \ {c}
  /\ UNCHANGED <<daemon, jvm, fresh, backlog, workers, told, stdin, asked>>

CloseStdin ==
  /\ jvm = "up"
  /\ jvm' = "gone"
  /\ UNCHANGED <<daemon, fresh, backlog, open, workers, told, stdin, asked>>

CloseAll ==
  /\ jvm = "gone"
  /\ open # {}
  /\ open' = {}
  /\ UNCHANGED <<daemon, jvm, fresh, backlog, workers, told, stdin, asked>>

-----------------------------------------------------------------------------
(* manager().                                                              *)
KillWorker ==
  /\ daemon = "up"
  /\ stdin # <<>>
  /\ stdin' = Tail(stdin)
  /\ conn' = [conn EXCEPT ![Head(stdin)] = None]
  /\ UNCHANGED <<daemon, jvm, fresh, backlog, open, state, told, asked>>

(* Mutant: the connection stays in the backlog.                            *)
ForkTwice(c, p) ==
  /\ daemon = "up"
  /\ c \in backlog
  /\ conn[p] = None
  /\ conn' = [conn EXCEPT ![p] = c]
  /\ state' = [state EXCEPT ![p] = "forked"]
  /\ UNCHANGED <<daemon, jvm, fresh, backlog, open, told, stdin, asked>>

Fork(c, p) ==
  /\ daemon = "up"
  /\ c \in backlog
  /\ conn[p] = None
  /\ backlog' = backlog \ {c}
  /\ conn' = [conn EXCEPT ![p] = c]
  /\ state' = [state EXCEPT ![p] = "forked"]
  /\ UNCHANGED <<daemon, jvm, fresh, open, told, stdin, asked>>

(* SIGHUP ends the workers that do not ignore it.                          *)
HangUp ==
  /\ conn' = [p \in Pids |-> IF state[p] = "ready" THEN None ELSE conn[p]]
  /\ UNCHANGED <<jvm, fresh, backlog, open, state, told, stdin, asked>>

(* No pid is free: fork fails, is tried once more, and the error is raised.*)
(* shutdown(code): SIGHUP, then sys.exit, which runs the finally clause of *)
(* manager: shutdown(1), SIGHUP again.                                     *)
Shutdown(code) == daemon = "up" /\ daemon' = code /\ HangUp
StdinClosed == jvm = "gone" /\ stdin = <<>> /\ Shutdown("exit 0")
Sigterm == Shutdown("exit 1")
ForkFails == backlog # {} /\ Running = Pids /\ Shutdown("exit 1")
Finally == daemon \in {"exit 0", "exit 1"} /\ daemon' = "1" /\ HangUp

-----------------------------------------------------------------------------
(* The forked process: it writes its pid, then worker() restores SIGHUP.   *)
Ack(p) ==
  /\ conn[p] # None
  /\ state[p] = "forked"
  /\ state' = [state EXCEPT ![p] = "acked"]
  /\ told' = IF conn[p] \in open THEN [told EXCEPT ![conn[p]] = p] ELSE told
  /\ UNCHANGED <<daemon, jvm, fresh, backlog, open, conn, stdin, asked>>

EnterWorker(p) ==
  /\ conn[p] # None
  /\ state[p] = "acked"
  /\ state' = [state EXCEPT ![p] = "ready"]
  /\ UNCHANGED <<daemon, jvm, fresh, backlog, open, conn, told, stdin, asked>>

(* Mutant: a closed connection is only noticed by a worker to be killed.   *)
ExitNever(p) ==
  /\ conn[p] # None
  /\ state[p] = "ready"
  /\ conn[p] \in asked
  /\ conn' = [conn EXCEPT ![p] = None]
  /\ UNCHANGED <<daemon, jvm, fresh, backlog, open, state, told, stdin, asked>>

(* The connection is closed: reading a task or waiting for the close ends. *)
Exit(p) ==
  /\ conn[p] # None
  /\ state[p] = "ready"
  /\ conn[p] \notin open
  /\ conn' = [conn EXCEPT ![p] = None]
  /\ UNCHANGED <<daemon, jvm, fresh, backlog, open, state, told, stdin, asked>>

(* A worker may die at any time.                                           *)
Crash(p) ==
  /\ conn[p] # None
  /\ conn' = [conn EXCEPT ![p] = None]
  /\ UNCHANGED <<daemon, jvm, fresh, backlog, open, state, told, stdin, asked>>

-----------------------------------------------------------------------------
Manager == KillWorker \/ StdinClosed \/ ForkFails \/ Finally \/ \E c \in Conns, p \in Pids : Fork(c, p)
Worker(p) == Ack(p) \/ EnterWorker(p) \/ Exit(p)

Next ==
  \/ Manager
  \/ Sigterm
  \/ CloseStdin \/ CloseAll
  \/ \E c \in Conns : Connect(c) \/ Destroy(c) \/ Close(c)
  \/ \E p \in Pids : Worker(p) \/ Crash(p)

(* The daemon's loop and the worker processes run on; a JVM that is gone   *)
(* has its sockets closed by the system.  Nothing else has to happen.      *)
Spec ==
  /\ Init /\ [][Next]_vars
  /\ WF_vars(KillWorker) /\ WF_vars(StdinClosed) /\ WF_vars(Finally) /\ WF_vars(CloseAll)
  /\ \A p \in Pids : WF_vars(Worker(p))

-----------------------------------------------------------------------------
(* Types, and a connection has one worker at most.                         *)
TypeOK ==
  /\ daemon \in {"up", "exit 0", "exit 1", "0", "1"}
  /\ jvm \in {"up", "gone"}
  /\ backlog \subseteq Conns \ fresh /\ open \subseteq Conns \ fresh
  /\ conn \in [Pids -> Conns \union {None}]
  /\ state \in [Pids -> {"forked", "acked", "ready"}]
  /\ told \in [Conns -> Pids \union {None}]
  /\ \A i \in 1..Len(stdin) : stdin[i] \in Pids
  /\ asked \subseteq Conns
  /\ \A p, q \in Running : conn[p] = conn[q] => p = q

(* Once the JVM is gone, no process stays behind: the daemon ends, and so  *)
(* does every worker, the ones that SIGHUP could not reach included.       *)
NoOrphans == jvm = "gone" ~> daemon \in {"0", "1"} /\ Running = {}
=============================================================================
