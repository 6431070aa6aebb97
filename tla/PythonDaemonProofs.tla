------------------------- MODULE PythonDaemonProofs -------------------------
(***************************************************************************)
(* A theorem about PythonDaemon, for any number of connections and pids.   *)
(***************************************************************************)
EXTENDS PythonDaemon, SequenceTheorems, TLAPS

(***************************************************************************)
(* The inductive invariant: a connection that is not opened yet, or waits  *)
(* to be accepted, has no worker.  The pids that the JVM writes are those  *)
(* it was told.                                                            *)
(***************************************************************************)
Served ==
  /\ \A p \in Pids : conn[p] \notin fresh \union backlog
  /\ \A p, q \in Pids : conn[p] = conn[q] /\ conn[p] # None => p = q

DaemonInv ==
  /\ daemon \in {"up", "exit 0", "exit 1", "0", "1"}
  /\ jvm \in {"up", "gone"}
  /\ backlog \subseteq Conns \ fresh /\ open \subseteq Conns \ fresh /\ fresh \subseteq Conns
  /\ conn \in [Pids -> Conns \union {None}]
  /\ state \in [Pids -> {"forked", "acked", "ready"}]
  /\ told \in [Conns -> Pids \union {None}]
  /\ stdin \in Seq(Pids)
  /\ asked \subseteq Conns
  /\ Served

LEMMA DaemonInit == Init => DaemonInv
  <1> SUFFICES ASSUME Init PROVE DaemonInv
    OBVIOUS
  <1>1. Served
    BY PythonDaemonAssumption DEF Init, Served
  <1>2. stdin \in Seq(Pids)
    BY EmptySeq DEF Init
  <1> QED
    BY <1>1, <1>2 DEF Init, DaemonInv

(* What ends processes only, ends no more than that.                       *)
LEMMA Ended ==
  ASSUME DaemonInv, conn' \in [Pids -> Conns \union {None}],
         \A p \in Pids : conn'[p] \in {conn[p], None},
         UNCHANGED <<fresh, backlog>>
  PROVE  Served'
  BY PythonDaemonAssumption DEF DaemonInv, Served

LEMMA DaemonStep == DaemonInv /\ [Next]_vars => DaemonInv'
  <1> SUFFICES ASSUME DaemonInv, [Next]_vars PROVE DaemonInv'
    OBVIOUS
  <1> USE PythonDaemonAssumption
  <1>1. ASSUME NEW c \in Conns, Connect(c) PROVE DaemonInv'
    BY <1>1 DEF Connect, DaemonInv, Served, workers
  <1>2. ASSUME NEW c \in Conns, Destroy(c) PROVE DaemonInv'
    <2>1. told[c] \in Pids /\ stdin' = Append(stdin, told[c])
      BY <1>2 DEF Destroy, DaemonInv
    <2>2. stdin' \in Seq(Pids)
      BY <2>1, AppendProperties DEF DaemonInv
    <2>3. Served'
      BY <1>2 DEF Destroy, workers, DaemonInv, Served
    <2> QED
      BY <1>2, <2>2, <2>3 DEF Destroy, workers, DaemonInv
  <1>3. ASSUME NEW c \in Conns, Close(c) PROVE DaemonInv'
    BY <1>3 DEF Close, DaemonInv, Served, workers
  <1>4. CASE CloseStdin \/ CloseAll
    BY <1>4 DEF CloseStdin, CloseAll, DaemonInv, Served, workers
  <1>5. CASE KillWorker
    <2>1. Head(stdin) \in Pids /\ stdin' \in Seq(Pids)
      BY <1>5, HeadTailProperties, EmptySeq DEF KillWorker, DaemonInv
    <2>2. /\ conn' \in [Pids -> Conns \union {None}]
          /\ \A p \in Pids : conn'[p] \in {conn[p], None}
      BY <1>5, <2>1 DEF KillWorker, DaemonInv
    <2>3. Served'
      BY <1>5, <2>2, Ended DEF KillWorker
    <2> QED
      BY <1>5, <2>1, <2>2, <2>3 DEF KillWorker, DaemonInv
  <1>6. ASSUME NEW c \in Conns, NEW p \in Pids, Fork(c, p) PROVE DaemonInv'
    <2>1. conn' = [conn EXCEPT ![p] = c] /\ backlog' = backlog \ {c} /\ fresh' = fresh
      BY <1>6 DEF Fork
    <2>2. c \in backlog /\ c \notin fresh /\ \A q \in Pids : conn[q] # c
      BY <1>6 DEF Fork, DaemonInv, Served
    <2>3. \A q \in Pids : conn'[q] = IF q = p THEN c ELSE conn[q]
      BY <2>1 DEF DaemonInv
    <2>4. Served'
      BY <2>1, <2>2, <2>3 DEF DaemonInv, Served
    <2> QED
      BY <1>6, <2>4 DEF Fork, DaemonInv
  <1>7. ASSUME HangUp, daemon' \in {"exit 0", "exit 1", "1"} PROVE DaemonInv'
    <2>1. /\ conn' \in [Pids -> Conns \union {None}]
          /\ \A p \in Pids : conn'[p] \in {conn[p], None}
      BY <1>7 DEF HangUp, DaemonInv
    <2>2. Served'
      BY <1>7, <2>1, Ended DEF HangUp
    <2> QED
      BY <1>7, <2>1, <2>2 DEF HangUp, DaemonInv
  <1>8. ASSUME NEW p \in Pids, Ack(p) PROVE DaemonInv'
    <2>1. told' \in [Conns -> Pids \union {None}]
      BY <1>8 DEF Ack, DaemonInv
    <2> QED
      BY <1>8, <2>1 DEF Ack, DaemonInv, Served
  <1>9. ASSUME NEW p \in Pids, EnterWorker(p) PROVE DaemonInv'
    BY <1>9 DEF EnterWorker, DaemonInv, Served
  <1>10. ASSUME NEW p \in Pids, Exit(p) \/ Crash(p) PROVE DaemonInv'
    <2>1. /\ conn' \in [Pids -> Conns \union {None}]
          /\ \A q \in Pids : conn'[q] \in {conn[q], None}
      BY <1>10 DEF Exit, Crash, DaemonInv
    <2>2. Served'
      BY <1>10, <2>1, Ended DEF Exit, Crash
    <2> QED
      BY <1>10, <2>1, <2>2 DEF Exit, Crash, DaemonInv
  <1>11. CASE StdinClosed \/ Sigterm \/ ForkFails \/ Finally
    BY <1>11, <1>7 DEF StdinClosed, Sigterm, ForkFails, Finally, Shutdown
  <1>12. CASE UNCHANGED vars
    BY <1>12 DEF vars, workers, DaemonInv, Served
  <1> QED
    BY <1>1, <1>2, <1>3, <1>4, <1>5, <1>6, <1>8, <1>9, <1>10, <1>11, <1>12
    DEF Next, Manager, Worker

-----------------------------------------------------------------------------
(* Types; no connection is ever served by two worker processes.            *)
THEOREM DaemonTypeCorrect == Spec => []TypeOK
  <1>1. DaemonInv => TypeOK
    <2> SUFFICES ASSUME DaemonInv PROVE TypeOK
      OBVIOUS
    <2>1. \A i \in 1..Len(stdin) : stdin[i] \in Pids
      BY ElementOfSeq DEF DaemonInv
    <2>2. \A p, q \in Running : conn[p] = conn[q] => p = q
      BY DEF DaemonInv, Served, Running
    <2> QED
      BY <2>1, <2>2 DEF DaemonInv, TypeOK
  <1> QED
    BY <1>1, DaemonInit, DaemonStep, PTL DEF Spec
=============================================================================
