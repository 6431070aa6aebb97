---------------------------- MODULE SparkSession ----------------------------
(***************************************************************************)
(* SparkSession.builder.getOrCreate, with which both Spark jobs of the     *)
(* pipeline begin, beside SparkSession.stop, SparkContext.stop and         *)
(* newSession.  getOrCreate holds the builder's lock; stop holds none, so  *)
(* its four parts and those of getOrCreate interleave.  Contexts, sessions *)
(* of the JVM and Python's session objects are numbered as they appear; 0  *)
(* is None.  What a context does by itself is in SparkContext.             *)
(***************************************************************************)
EXTENDS Integers, Sequences

CONSTANTS
  Threads,
  Programs,     \* what a program does: whether calls of its threads overlap, and
                \* whether it stops a session again that was stopped; in either case
                \* it may call getOrCreate again after one that raised
  MaxSessions,  \* bound: the session objects made
  MaxContexts   \* bound: the contexts made

ASSUME SparkSessionAssumption ==
  /\ Programs \subseteq [overlap : BOOLEAN, again : BOOLEAN]
  /\ 0 \notin Threads
  /\ MaxSessions \in Nat /\ MaxContexts \in Nat

VARIABLES
  program,       \* what this program does
  contexts,      \* how many contexts were made
  jsc,           \* the contexts whose _jsc is set: they run
  active,        \* SparkContext._active_spark_context
  jsessions,     \* external: the context of each session of the JVM
  jdefault,      \* external: the JVM's default session
  sessions,      \* [sc, jsession] of each session object
  instantiated,  \* SparkSession._instantiatedSession
  lock,          \* the thread that holds Builder._lock
  pc,            \* where each thread is
  self,          \* the context, then the session, that getOrCreate is about
  known,         \* the session objects that calls returned
  dead,          \* history: getOrCreate returned a session that did not run
  beside,        \* history: a stop() was under way at some moment of the call that
                 \* holds the lock
  raised         \* history: why getOrCreate raised, its new contexts and its options
                 \* apart

vars == <<program, contexts, jsc, active, jsessions, jdefault, sessions, instantiated, lock,
          pc, self, known, dead, beside, raised>>
sparkContext == <<contexts, jsc, active>>
jvm == <<jsessions, jdefault>>
builder == <<lock, self>>
history == <<dead, beside, raised>>

Init ==
  /\ program \in Programs
  /\ contexts = 0 /\ jsc = {} /\ active = 0
  /\ jsessions = <<>> /\ jdefault = 0
  /\ sessions = <<>> /\ instantiated = 0
  /\ lock = 0 /\ self = 0 /\ dead = FALSE /\ beside = FALSE /\ raised = {}
  /\ pc = [t \in Threads |-> "idle"]
  /\ known = {}

Goto(t, p) == pc' = [pc EXCEPT ![t] = p]
MayCall(t) ==
  /\ pc[t] = "idle"
  /\ program.overlap \/ \A u \in Threads : pc[u] = "idle"

Running == {s \in 1..Len(sessions) : sessions[s].sc \in jsc}
DefaultRuns == jdefault # 0 /\ jsessions[jdefault] \in jsc
StopUnderWay == \E u \in Threads : pc[u] \in {"stop session", "stop context"}

-----------------------------------------------------------------------------
(* Builder.getOrCreate: the instantiated session, or a new one.            *)
Return(s) ==
  /\ known' = known \union {s}
  /\ dead' = (dead \/ sessions[s].sc \notin jsc)
  /\ UNCHANGED <<beside, raised>>

(* Mutant: a session whose context was stopped is not noticed.             *)
GetOldSession(t) ==
  /\ MayCall(t) /\ lock = 0
  /\ instantiated # 0
  /\ Return(instantiated)
  /\ UNCHANGED <<program, sparkContext, jvm, sessions, instantiated, lock, pc, self>>

GetSession(t) ==
  /\ MayCall(t) /\ lock = 0
  /\ instantiated \in Running
  /\ Return(instantiated)
  /\ UNCHANGED <<program, sparkContext, jvm, sessions, instantiated, lock, pc, self>>

(* Mutant: the lock is not taken.                                          *)
NeedSessionUnlocked(t) ==
  /\ MayCall(t) /\ lock = 0
  /\ instantiated \notin Running
  /\ beside' = StopUnderWay
  /\ Goto(t, "context")
  /\ UNCHANGED <<program, sparkContext, jvm, sessions, instantiated, builder, known, dead,
                 raised>>

NeedSession(t) ==
  /\ MayCall(t) /\ lock = 0
  /\ instantiated \notin Running
  /\ lock' = t
  /\ beside' = StopUnderWay
  /\ Goto(t, "context")
  /\ UNCHANGED <<program, sparkContext, jvm, sessions, instantiated, self, known, dead,
                 raised>>

(* SparkContext.getOrCreate(): "This SparkContext may be an existing one". *)
GetContext(t) ==
  /\ pc[t] = "context"
  /\ active # 0
  /\ self' = active
  /\ Goto(t, "session")
  /\ UNCHANGED <<program, sparkContext, jvm, sessions, instantiated, lock, known, history>>

NewContext(t) ==
  /\ pc[t] = "context"
  /\ active = 0 /\ jsc = {}
  /\ contexts < MaxContexts
  /\ contexts' = contexts + 1
  /\ active' = contexts'
  /\ jsc' = jsc \union {contexts'}
  /\ self' = contexts'
  /\ Goto(t, "session")
  /\ UNCHANGED <<program, jvm, sessions, instantiated, lock, known, history>>

(* Mutant: the context that failed is not stopped.                     *)
InitFailsNoStop(t) ==
  /\ pc[t] = "context"
  /\ active = 0
  /\ contexts < MaxContexts
  /\ contexts' = contexts + 1
  /\ jsc' = jsc \union {contexts'}
  /\ lock' = 0
  /\ Goto(t, "idle")
  /\ UNCHANGED <<program, active, jvm, sessions, instantiated, self, known, history>>

(* SparkContext() raises: the gateway exits, or _do_init fails and stop()  *)
(* clears what it did.                                                     *)
InitFails(t) ==
  /\ pc[t] = "context"
  /\ active = 0
  /\ lock' = 0
  /\ Goto(t, "idle")
  /\ UNCHANGED <<program, sparkContext, jvm, sessions, instantiated, self, known, history>>

Construct(t, jsession) ==
  /\ Len(sessions) < MaxSessions
  /\ sessions' = Append(sessions, [sc |-> self, jsession |-> jsession])
  /\ self' = Len(sessions')
  /\ Goto(t, "register")
  /\ UNCHANGED <<program, sparkContext, jdefault, instantiated, lock, known, history>>

(* Mutant: isStopped() of the JVM's default session is not asked.          *)
AdoptAnyDefault(t) ==
  pc[t] = "session" /\ jdefault # 0 /\ Construct(t, jdefault) /\ UNCHANGED jsessions

(* SparkSession(sc): with the JVM's default session if its context runs,   *)
(* or with a new one, which needs the context's _jsc.                      *)
AdoptDefault(t) ==
  pc[t] = "session" /\ DefaultRuns /\ Construct(t, jdefault) /\ UNCHANGED jsessions

NewSession(t) ==
  /\ pc[t] = "session"
  /\ ~DefaultRuns /\ self \in jsc
  /\ jsessions' = Append(jsessions, self)
  /\ Construct(t, Len(jsessions'))

(* The JVM refuses a second context, or self._jsc.sc() raises              *)
(* AttributeError: a stop() has cleared _jsc.                              *)
Fail(t) ==
  /\ \/ /\ pc[t] = "context" /\ active = 0 /\ jsc # {}
        /\ raised' = raised \union {"refused"}
     \/ /\ pc[t] = "session" /\ ~DefaultRuns /\ self \notin jsc
        /\ raised' = raised \union {IF beside THEN "overtaken" ELSE "stopped"}
  /\ lock' = 0
  /\ Goto(t, "idle")
  /\ UNCHANGED <<program, sparkContext, jvm, sessions, instantiated, self, known, dead,
                 beside>>

(* Mutant: every session that is made becomes the instantiated one.        *)
RegisterAny(s, jsession) == instantiated' = s /\ jdefault' = jsession

(* "we need to renew the instantiated SparkSession", if it does not run.   *)
Register(s, jsession) ==
  IF instantiated \notin Running
  THEN instantiated' = s /\ jdefault' = jsession
  ELSE UNCHANGED <<instantiated, jdefault>>

(* The session is there; an option that the JVM refuses raises all the     *)
(* same.                                                                   *)
EndGetOrCreate(t) ==
  /\ pc[t] = "register"
  /\ Register(self, sessions[self].jsession)
  /\ Return(self) \/ UNCHANGED <<known, history>>
  /\ lock' = 0
  /\ Goto(t, "idle")
  /\ UNCHANGED <<program, sparkContext, jsessions, sessions, self>>

-----------------------------------------------------------------------------
(* newSession() of a session that runs: one of Python and one of the JVM   *)
(* for the same context.                                                   *)
ChildSession(t, s) ==
  /\ MayCall(t)
  /\ s \in known \intersect Running
  /\ Len(sessions) < MaxSessions
  /\ jsessions' = Append(jsessions, jsessions[sessions[s].jsession])
  /\ sessions' = Append(sessions, [sc |-> sessions[s].sc, jsession |-> Len(jsessions')])
  /\ known' = known \union {Len(sessions')}
  /\ Register(Len(sessions'), Len(jsessions'))
  /\ UNCHANGED <<program, sparkContext, builder, history, pc>>

-----------------------------------------------------------------------------
(* SparkSession.stop, and stop() of the session's context alone.           *)
Stop(t, s, next) ==
  /\ MayCall(t)
  /\ s \in known
  /\ s \in Running \/ program.again
  /\ jsc' = jsc \ {sessions[s].sc}
  /\ beside' = (beside \/ lock # 0)
  /\ Goto(t, next)
  /\ UNCHANGED <<program, contexts, active, jvm, sessions, instantiated, builder, known, dead,
                 raised>>

Deactivate(t) ==
  /\ pc[t] \in {"stop session", "stop context"}
  /\ active' = 0
  /\ Goto(t, IF pc[t] = "stop session" THEN "clear" ELSE "idle")
  /\ UNCHANGED <<program, contexts, jsc, jvm, sessions, instantiated, builder, known,
                 history>>

ClearDefaultSession(t) ==
  /\ pc[t] = "clear"
  /\ jdefault' = 0
  /\ Goto(t, "forget")
  /\ UNCHANGED <<program, sparkContext, jsessions, sessions, instantiated, builder, known,
                 history>>

Forget(t) ==
  /\ pc[t] = "forget"
  /\ instantiated' = 0
  /\ Goto(t, "idle")
  /\ UNCHANGED <<program, sparkContext, jvm, sessions, builder, known, history>>

-----------------------------------------------------------------------------
Next == \E t \in Threads :
  \/ GetSession(t) \/ NeedSession(t) \/ GetContext(t) \/ NewContext(t)
  \/ InitFails(t) \/ AdoptDefault(t) \/ NewSession(t) \/ Fail(t) \/ EndGetOrCreate(t)
  \/ Deactivate(t) \/ ClearDefaultSession(t) \/ Forget(t)
  \/ \E s \in 1..Len(sessions) :
       ChildSession(t, s) \/ Stop(t, s, "stop session") \/ Stop(t, s, "stop context")

Spec == Init /\ [][Next]_vars

-----------------------------------------------------------------------------
(* Types, and the lock is held exactly while a thread is in getOrCreate.   *)
TypeOK ==
  /\ program \in Programs
  /\ contexts \in 0..MaxContexts /\ jsc \subseteq 1..contexts /\ active \in 0..contexts
  /\ \A j \in 1..Len(jsessions) : jsessions[j] \in 1..contexts
  /\ jdefault \in 0..Len(jsessions)
  /\ \A s \in 1..Len(sessions) : sessions[s].jsession \in 1..Len(jsessions)
  /\ instantiated \in 0..Len(sessions) /\ known \subseteq 1..Len(sessions)
  /\ dead \in BOOLEAN /\ beside \in BOOLEAN
  /\ raised \subseteq {"refused", "overtaken", "stopped"}
  /\ \A t \in Threads : (lock = t) <=> pc[t] \in {"context", "session", "register"}

(* A session object works through a session of the JVM; both are of the    *)
(* same context, after any sequence of stops and of new contexts.          *)
OfOneContext ==
  \A s \in 1..Len(sessions) : jsessions[sessions[s].jsession] = sessions[s].sc

(* "Otherwise, we will use invalid SparkSession when we call               *)
(* Builder.getOrCreate": the session it returns runs, unless another       *)
(* thread's stop() overtakes it: stop() does not take the builder's lock.  *)
ReturnedRuns == ~program.overlap => ~dead

(* The calls of a program overlap nowhere, and it stops nothing twice.     *)
Disciplined == ~program.overlap /\ ~program.again

(* getOrCreate returns the existing session or makes one: it may raise if  *)
(* the JVM does not start a context or take an option, and from then on it *)
(* works as before.  Other than that it raises only if a stop() of another *)
(* thread is under way beside the call, for it may find the context's _jsc *)
(* cleared.  A second stop() of an old session unregisters the context     *)
(* that runs; with it, no such promise.                                    *)
NoNeedlessFailure ==
  /\ ~program.again => raised \subseteq {"overtaken"}
  /\ Disciplined => raised = {}

(* "assigns the newly created SparkSession as the global default": it is   *)
(* what getOrCreate returns from then on, as long as its context runs.  A  *)
(* second stop() of an old session makes the builder forget it.            *)
DefaultKept ==
  [][Disciplined /\ (instantiated \in Running) => (instantiated' = instantiated)]_vars
=============================================================================
