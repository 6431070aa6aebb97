------------------------- MODULE SparkSessionProofs -------------------------
(***************************************************************************)
(* Theorems about SparkSession for any number of threads, sessions and     *)
(* contexts, and for programs of every kind.                               *)
(***************************************************************************)
EXTENDS SparkSession, TLAPS

(***************************************************************************)
(* The inductive invariant.  The types first, by what they are about; they *)
(* imply TypeOK.                                                           *)
(***************************************************************************)
InGetOrCreate == {"context", "session", "register"}
InStop == {"stop session", "stop context", "clear", "forget"}
Busy == InGetOrCreate \union InStop

ContextTypes ==
  /\ program \in Programs
  /\ contexts \in 0..MaxContexts /\ contexts \in Nat
  /\ jsc \subseteq 1..contexts /\ active \in 0..contexts

SessionTypes ==
  /\ jsessions \in Seq(Nat) /\ sessions \in Seq([sc : Nat, jsession : Nat])
  /\ \A j \in 1..Len(jsessions) : jsessions[j] \in 1..contexts
  /\ \A s \in 1..Len(sessions) : sessions[s].jsession \in 1..Len(jsessions)
  /\ jdefault \in 0..Len(jsessions)
  /\ instantiated \in 0..Len(sessions) /\ known \subseteq 1..Len(sessions)
  /\ dead \in BOOLEAN

ThreadTypes ==
  /\ self \in Nat
  /\ pc \in [Threads -> Busy \union {"idle"}]
  /\ \A t \in Threads : (lock = t) <=> pc[t] \in InGetOrCreate

(* Only the latest context may run or be registered, and it is the one     *)
(* that getOrCreate makes a session for.                                   *)
Latest ==
  /\ jsc \subseteq {contexts} /\ active \in {0, contexts}
  /\ \A t \in Threads :
       /\ pc[t] = "session" => self = contexts /\ contexts # 0
       /\ pc[t] = "register" => self \in 1..Len(sessions)

(* Without overlap one thread at most is in a call; what is registered     *)
(* runs unless a stop() is about to unregister it, and the context of the  *)
(* session that getOrCreate is making goes on running.                     *)
OneBusy ==
  ~program.overlap => \A t, u \in Threads : pc[t] \in Busy /\ pc[u] \in Busy => t = u

RegisteredRuns ==
  ~program.overlap =>
    /\ active # 0 => \/ active \in jsc
                     \/ \E u \in Threads : pc[u] \in {"stop session", "stop context"}
    /\ \A t \in Threads :
         /\ pc[t] = "session" => self \in jsc
         /\ pc[t] = "register" => sessions[self].sc \in jsc

(* If moreover nothing is stopped twice, a stop() leaves no context that   *)
(* runs, and a context that runs is registered.                            *)
Stopping ==
  Disciplined =>
    /\ \A t \in Threads : pc[t] \in InStop => jsc = {}
    /\ jsc # {} => active # 0

(* In a program that stops nothing twice a context runs only if it is      *)
(* registered, one stop() at most is about to unregister it, and a call of *)
(* getOrCreate has that stop() beside it if its context does not run.      *)
AboutToUnregister(t) == pc[t] \in {"stop session", "stop context"}

HistoryTypes ==
  /\ lock \in Threads \union {0} /\ beside \in BOOLEAN
  /\ raised \subseteq {"refused", "overtaken", "stopped"}

AloneRegistered ==
  ~program.again =>
    /\ jsc \subseteq {active}
    /\ \A t, u \in Threads : AboutToUnregister(t) /\ AboutToUnregister(u) => t = u
    /\ \A t \in Threads : AboutToUnregister(t) => jsc = {} /\ active # 0
    /\ active # 0 /\ active \notin jsc => \E t \in Threads : AboutToUnregister(t)
    /\ \A t \in Threads : AboutToUnregister(t) /\ lock # 0 => beside
    /\ \A t \in Threads : pc[t] = "session" /\ ~beside => self \in jsc

(* Without overlap no stop() is ever beside a call of getOrCreate.         *)
Undisturbed == ~program.overlap => lock = 0 \/ ~beside

Types == ContextTypes /\ SessionTypes /\ ThreadTypes
SessionInv ==
  /\ Types /\ Latest /\ OfOneContext
  /\ OneBusy /\ RegisteredRuns /\ Stopping
  /\ HistoryTypes /\ AloneRegistered /\ Undisturbed
  /\ ReturnedRuns /\ NoNeedlessFailure

LEMMA SessionInit == Init => SessionInv
  <1> SUFFICES ASSUME Init PROVE SessionInv
    OBVIOUS
  <1> USE SparkSessionAssumption DEF Init
  <1>1. Types
    <2>1. ContextTypes
      BY DEF ContextTypes
    <2>2. SessionTypes
      <3>1. /\ <<>> \in Seq(Nat) /\ <<>> \in Seq([sc : Nat, jsession : Nat])
            /\ Len(<<>>) = 0
        OBVIOUS
      <3>2. jsessions = <<>> /\ sessions = <<>>
        OBVIOUS
      <3>3. known = {} /\ dead = FALSE
        OBVIOUS
      <3>4. Len(jsessions) = 0 /\ Len(sessions) = 0
        BY <3>1, <3>2
      <3>5. jsessions \in Seq(Nat) /\ sessions \in Seq([sc : Nat, jsession : Nat])
        BY <3>1, <3>2
      <3>6. jdefault = 0 /\ instantiated = 0
        OBVIOUS
      <3> HIDE DEF Init
      <3>7. jdefault \in 0..Len(jsessions) /\ instantiated \in 0..Len(sessions)
        BY <3>4, <3>6
      <3>8. /\ \A j \in 1..Len(jsessions) : jsessions[j] \in 1..contexts
            /\ \A s \in 1..Len(sessions) : sessions[s].jsession \in 1..Len(jsessions)
        BY <3>4
      <3>9. known \subseteq 1..Len(sessions) /\ dead \in BOOLEAN
        BY <3>3
      <3> QED
        BY <3>5, <3>7, <3>8, <3>9 DEF SessionTypes
    <2>3. ThreadTypes
      BY DEF ThreadTypes, Busy, InGetOrCreate, InStop
    <2> QED
      BY <2>1, <2>2, <2>3 DEF Types
  <1>2. Latest /\ OfOneContext
    BY DEF Latest, OfOneContext
  <1>3. OneBusy /\ RegisteredRuns /\ Stopping
    BY DEF OneBusy, RegisteredRuns, Stopping, Busy, InGetOrCreate, InStop
  <1>4. ReturnedRuns /\ NoNeedlessFailure
    BY DEF ReturnedRuns, NoNeedlessFailure
  <1>5. HistoryTypes /\ AloneRegistered /\ Undisturbed
    BY DEF HistoryTypes, AloneRegistered, AboutToUnregister, Undisturbed
  <1> QED
    BY <1>1, <1>2, <1>3, <1>4, <1>5 DEF SessionInv

(* A sequence with one more element.                                       *)
LEMMA Appended ==
  ASSUME NEW S, NEW q \in Seq(S), NEW e \in S
  PROVE  /\ Append(q, e) \in Seq(S)
         /\ Len(q) \in Nat
         /\ Len(Append(q, e)) = Len(q) + 1
         /\ Append(q, e)[Len(q) + 1] = e
         /\ \A i \in 1..Len(q) : Append(q, e)[i] = q[i]
  OBVIOUS

(* An element of a sequence.                                               *)
LEMMA ElementOf ==
  ASSUME NEW S, NEW q \in Seq(S), NEW i \in 1..Len(q)
  PROVE  q[i] \in S
  OBVIOUS

(* The lock keeps all threads but one out of getOrCreate.                  *)
LEMMA OneInside ==
  ASSUME ThreadTypes, NEW t \in Threads, NEW u \in Threads,
         pc[t] \in InGetOrCreate, pc[u] \in InGetOrCreate
  PROVE  t = u
  BY DEF ThreadTypes

(* What SparkSession(sc), newSession() and SparkContext() change.          *)
Adopts(t) ==
  /\ pc[t] = "session" /\ pc' = [pc EXCEPT ![t] = "register"]
  /\ jdefault \in 1..Len(jsessions) /\ jsessions[jdefault] \in jsc
  /\ self' = Len(sessions) + 1 /\ self' \in Nat
  /\ sessions' \in Seq([sc : Nat, jsession : Nat])
  /\ Len(sessions') = Len(sessions) + 1
  /\ \A i \in 1..Len(sessions) : sessions'[i] = sessions[i]
  /\ sessions'[Len(sessions) + 1] = [sc |-> self, jsession |-> jdefault]
  /\ UNCHANGED <<program, contexts, jsc, active, jsessions, jdefault, instantiated, lock,
                 known, dead>>

MakesSession(t) ==
  /\ pc[t] = "session" /\ pc' = [pc EXCEPT ![t] = "register"]
  /\ self \in jsc
  /\ self' = Len(sessions) + 1 /\ self' \in Nat
  /\ jsessions' \in Seq(Nat) /\ Len(jsessions') = Len(jsessions) + 1
  /\ \A i \in 1..Len(jsessions) : jsessions'[i] = jsessions[i]
  /\ jsessions'[Len(jsessions) + 1] = self
  /\ sessions' \in Seq([sc : Nat, jsession : Nat])
  /\ Len(sessions') = Len(sessions) + 1
  /\ \A i \in 1..Len(sessions) : sessions'[i] = sessions[i]
  /\ sessions'[Len(sessions) + 1] = [sc |-> self, jsession |-> Len(jsessions) + 1]
  /\ UNCHANGED <<program, contexts, jsc, active, jdefault, instantiated, lock, known, dead>>

MakesChild(t, s) ==
  /\ MayCall(t) /\ s \in known /\ sessions[s].sc \in jsc
  /\ jsessions' \in Seq(Nat) /\ Len(jsessions') = Len(jsessions) + 1
  /\ \A i \in 1..Len(jsessions) : jsessions'[i] = jsessions[i]
  /\ jsessions'[Len(jsessions) + 1] = jsessions[sessions[s].jsession]
  /\ sessions' \in Seq([sc : Nat, jsession : Nat])
  /\ Len(sessions') = Len(sessions) + 1
  /\ \A i \in 1..Len(sessions) : sessions'[i] = sessions[i]
  /\ sessions'[Len(sessions) + 1] = [sc |-> sessions[s].sc, jsession |-> Len(jsessions) + 1]
  /\ \/ instantiated' = Len(sessions) + 1 /\ jdefault' = Len(jsessions) + 1
     \/ UNCHANGED <<instantiated, jdefault>>
  /\ known' = known \union {Len(sessions) + 1}
  /\ UNCHANGED <<program, contexts, jsc, active, lock, self, dead, pc>>

MakesContext(t) ==
  /\ pc[t] = "context" /\ pc' = [pc EXCEPT ![t] = "session"]
  /\ active = 0 /\ jsc = {}
  /\ contexts' = contexts + 1 /\ contexts' \in 1..MaxContexts
  /\ active' = contexts' /\ jsc' = {contexts'} /\ self' = contexts'
  /\ UNCHANGED <<program, jsessions, jdefault, sessions, instantiated, lock, known, dead>>

LEMMA AdoptFacts ==
  ASSUME Types, NEW t \in Threads, AdoptDefault(t)
  PROVE  Adopts(t)
  <1>1. /\ pc[t] = "session" /\ pc' = [pc EXCEPT ![t] = "register"]
        /\ sessions' = Append(sessions, [sc |-> self, jsession |-> jdefault])
        /\ self' = Len(sessions')
        /\ jdefault # 0 /\ jsessions[jdefault] \in jsc
        /\ UNCHANGED <<program, contexts, jsc, active, jsessions, jdefault, instantiated,
          lock,
                       known, dead>>
    BY DEF AdoptDefault, Construct, DefaultRuns, Goto, sparkContext, history
  <1>2. sessions \in Seq([sc : Nat, jsession : Nat]) /\ Len(jsessions) \in Nat
    BY DEF Types, SessionTypes
  <1>3. jdefault \in 1..Len(jsessions)
    BY <1>1, <1>2 DEF Types, SessionTypes
  <1>4. [sc |-> self, jsession |-> jdefault] \in [sc : Nat, jsession : Nat]
    BY <1>2, <1>3 DEF Types, ThreadTypes
  <1> QED
    BY <1>1, <1>2, <1>3, <1>4, Appended DEF Adopts

LEMMA NewFacts ==
  ASSUME Types, NEW t \in Threads, NewSession(t)
  PROVE  MakesSession(t)
  <1>1. /\ pc[t] = "session" /\ pc' = [pc EXCEPT ![t] = "register"]
        /\ self \in jsc
        /\ jsessions' = Append(jsessions, self)
        /\ sessions' = Append(sessions, [sc |-> self, jsession |-> Len(jsessions')])
        /\ self' = Len(sessions')
        /\ UNCHANGED <<program, contexts, jsc, active, jdefault, instantiated, lock,
          known, dead>>
    BY DEF NewSession, Construct, Goto, sparkContext, history
  <1>2. /\ sessions \in Seq([sc : Nat, jsession : Nat])
        /\ jsessions \in Seq(Nat) /\ self \in Nat
    BY DEF Types, SessionTypes, ThreadTypes
  <1>3. /\ jsessions' \in Seq(Nat) /\ Len(jsessions') = Len(jsessions) + 1
        /\ \A i \in 1..Len(jsessions) : jsessions'[i] = jsessions[i]
        /\ jsessions'[Len(jsessions) + 1] = self
        /\ Len(jsessions) \in Nat
    BY <1>1, <1>2, Appended
  <1>4. [sc |-> self, jsession |-> Len(jsessions) + 1] \in [sc : Nat, jsession : Nat]
    BY <1>2, <1>3
  <1> QED
    BY <1>1, <1>2, <1>3, <1>4, Appended DEF MakesSession

LEMMA ChildFacts ==
  ASSUME Types, NEW t \in Threads, NEW s \in 1..Len(sessions), ChildSession(t, s)
  PROVE  MakesChild(t, s)
  <1>1. /\ MayCall(t) /\ s \in known /\ sessions[s].sc \in jsc
        /\ jsessions' = Append(jsessions, jsessions[sessions[s].jsession])
        /\ sessions' = Append(sessions, [sc |-> sessions[s].sc,
          jsession |-> Len(jsessions')])
        /\ known' = known \union {Len(sessions')}
        /\ \/ instantiated' = Len(sessions') /\ jdefault' = Len(jsessions')
           \/ UNCHANGED <<instantiated, jdefault>>
        /\ UNCHANGED <<program, contexts, jsc, active, lock, self, dead, pc>>
    BY DEF ChildSession, Register, Running, sparkContext, builder, history
  <1>2. /\ sessions \in Seq([sc : Nat, jsession : Nat])
        /\ jsessions \in Seq(Nat)
        /\ sessions[s].jsession \in 1..Len(jsessions)
    BY DEF Types, SessionTypes
  <1>3. jsessions[sessions[s].jsession] \in Nat /\ sessions[s].sc \in Nat
    <2>1. s \in 1..Len(sessions)
      OBVIOUS
    <2>2. sessions[s] \in [sc : Nat, jsession : Nat]
      BY <1>2, <2>1, ElementOf
    <2> QED
      BY <1>2, <2>2
  <1>4. /\ jsessions' \in Seq(Nat) /\ Len(jsessions') = Len(jsessions) + 1
        /\ \A i \in 1..Len(jsessions) : jsessions'[i] = jsessions[i]
        /\ jsessions'[Len(jsessions) + 1] = jsessions[sessions[s].jsession]
        /\ Len(jsessions) \in Nat
    BY <1>1, <1>2, <1>3, Appended
  <1>5. [sc |-> sessions[s].sc, jsession |-> Len(jsessions) + 1] \in [sc : Nat,
    jsession : Nat]
    BY <1>3, <1>4
  <1> QED
    BY <1>1, <1>2, <1>4, <1>5, Appended DEF MakesChild

LEMMA ContextFacts ==
  ASSUME Types, NEW t \in Threads, NewContext(t)
  PROVE  MakesContext(t)
  BY SparkSessionAssumption DEF Types, ContextTypes, NewContext, Goto, jvm, history, MakesContext

(* Of the types, what the next lemmas need.                                *)
Basics ==
  /\ Len(sessions) \in Nat /\ Len(jsessions) \in Nat
  /\ \A s \in 1..Len(sessions) : sessions[s].jsession \in 1..Len(jsessions)
  /\ \A j \in 1..Len(jsessions) : jsessions[j] \in 1..contexts
  /\ jdefault \in 0..Len(jsessions) /\ instantiated \in 0..Len(sessions)
  /\ contexts \in Nat /\ self \in Nat
  /\ pc \in [Threads -> Busy \union {"idle"}]

LEMMA TypesBasics == Types => Basics
  <1> SUFFICES ASSUME Types PROVE Basics
    OBVIOUS
  <1>1. Len(sessions) \in Nat /\ Len(jsessions) \in Nat
    BY DEF Types, SessionTypes
  <1>2. /\ \A s \in 1..Len(sessions) : sessions[s].jsession \in 1..Len(jsessions)
        /\ \A j \in 1..Len(jsessions) : jsessions[j] \in 1..contexts
        /\ jdefault \in 0..Len(jsessions) /\ instantiated \in 0..Len(sessions)
    BY DEF Types, SessionTypes
  <1>3. /\ contexts \in Nat /\ self \in Nat
        /\ pc \in [Threads -> Busy \union {"idle"}]
    BY DEF Types, ContextTypes, ThreadTypes
  <1> QED
    BY <1>1, <1>2, <1>3 DEF Basics

(* The steps that make contexts and sessions, one conjunct at a time.      *)
LEMMA TakesThreads ==
  ASSUME Types, NEW t \in Threads, GetContext(t)
  PROVE  ThreadTypes'
  <1>1. active \in Nat
    BY DEF Types, ContextTypes
  <1>2. self' \in Nat
    BY <1>1 DEF GetContext
  <1> QED
    BY <1>2 DEF Types, ThreadTypes, GetContext, Goto, Busy, InGetOrCreate

LEMMA ContextThreads ==
  ASSUME Types, NEW t \in Threads, MakesContext(t)
  PROVE  ThreadTypes'
  <1>1. self' \in Nat
    BY TypesBasics DEF Basics, MakesContext
  <1> QED
    BY <1>1 DEF Types, ThreadTypes, MakesContext, Busy, InGetOrCreate

LEMMA ContextLatest ==
  ASSUME Types, Latest, NEW t \in Threads, MakesContext(t)
  PROVE  Latest'
  <1>1. Basics
    BY TypesBasics
  <1>2. \A u \in Threads : pc'[u] \in InGetOrCreate => u = t
    BY <1>1, OneInside DEF Basics, MakesContext, InGetOrCreate, Types
  <1>3. pc'[t] = "session"
    BY <1>1 DEF Basics, MakesContext
  <1> QED
    BY <1>1, <1>2, <1>3 DEF Basics, MakesContext, Latest, InGetOrCreate

LEMMA ContextStopping ==
  ASSUME Types, OneBusy, NEW t \in Threads, MakesContext(t)
  PROVE  Stopping'
  <1>1. Basics
    BY TypesBasics
  <1>2. ASSUME Disciplined', NEW u \in Threads
        PROVE  pc'[u] \notin InStop
    <2>1. ~program.overlap
      BY <1>2 DEF MakesContext, Disciplined
    <2>2. CASE u = t
      BY <1>1, <2>2 DEF Basics, MakesContext, InStop
    <2>3. CASE u # t
      BY <1>1, <2>1, <2>3 DEF Basics, MakesContext, OneBusy, Busy, InGetOrCreate
    <2> QED
      BY <2>2, <2>3
  <1>3. active' # 0
    BY <1>1 DEF Basics, MakesContext
  <1> QED
    BY <1>2, <1>3 DEF Stopping

LEMMA AdoptTypes ==
  ASSUME Types, NEW t \in Threads, Adopts(t)
  PROVE  SessionTypes'
  <1>1. jsessions' \in Seq(Nat) /\ sessions' \in Seq([sc : Nat, jsession : Nat])
    BY DEF Types, SessionTypes, Adopts
  <1>2. \A j \in 1..Len(jsessions') : jsessions'[j] \in 1..contexts'
    BY DEF Types, SessionTypes, Adopts
  <1>3. ASSUME NEW s \in 1..Len(sessions')
        PROVE  sessions'[s].jsession \in 1..Len(jsessions')
    <2>1. Len(sessions) \in Nat
      BY DEF Types, SessionTypes
    <2>2. CASE s = Len(sessions) + 1
      BY <2>2 DEF Adopts
    <2>3. CASE s \in 1..Len(sessions)
      BY <2>3 DEF Types, SessionTypes, Adopts
    <2> QED
      BY <2>1, <2>2, <2>3 DEF Adopts
  <1>4. jdefault' \in 0..Len(jsessions') /\ dead' \in BOOLEAN
    BY DEF Types, SessionTypes, Adopts
  <1>5. instantiated' \in 0..Len(sessions') /\ known' \subseteq 1..Len(sessions')
    <2>1. Len(sessions) \in Nat
      BY DEF Types, SessionTypes
    <2> QED
      BY <2>1 DEF Types, SessionTypes, Adopts
  <1> QED
    BY <1>1, <1>2, <1>3, <1>4, <1>5 DEF SessionTypes

LEMMA AdoptLatest ==
  ASSUME Types, Latest, NEW t \in Threads, Adopts(t)
  PROVE  Latest'
  <1>1. Basics
    BY TypesBasics
  <1> QED
    BY <1>1, OneInside DEF Basics, Adopts, Latest, InGetOrCreate, Types

LEMMA AdoptContext ==
  ASSUME Types, OfOneContext, Latest, NEW t \in Threads, Adopts(t)
  PROVE  OfOneContext'
  <1>1. Basics
    BY TypesBasics
  <1> SUFFICES ASSUME NEW i \in 1..Len(sessions')
               PROVE  jsessions'[sessions'[i].jsession] = sessions'[i].sc
    BY DEF OfOneContext
  <1>2. CASE i = Len(sessions) + 1
    BY <1>1, <1>2 DEF Basics, Adopts, Latest
  <1>3. CASE i \in 1..Len(sessions)
    BY <1>1, <1>3 DEF Basics, Adopts, OfOneContext
  <1> QED
    BY <1>1, <1>2, <1>3 DEF Basics, Adopts

LEMMA AdoptRegistered ==
  ASSUME Types, RegisteredRuns, NEW t \in Threads, Adopts(t)
  PROVE  RegisteredRuns'
  <1>1. Basics
    BY TypesBasics
  <1>2. \A u \in Threads : pc'[u] \in InGetOrCreate => u = t
    BY <1>1, OneInside DEF Basics, Adopts, InGetOrCreate, Types
  <1>3. pc'[t] = "register" /\ \A u \in Threads : u # t => pc'[u] = pc[u]
    BY <1>1 DEF Basics, Adopts
  <1>4. ~program.overlap => sessions'[self'].sc \in jsc'
    <2>1. sessions'[self'].sc = self /\ pc[t] = "session" /\ jsc' = jsc
      BY DEF Adopts
    <2> QED
      BY <2>1 DEF RegisteredRuns
  <1>5. ASSUME ~program'.overlap, active' # 0
        PROVE  \/ active' \in jsc'
               \/ \E u \in Threads : pc'[u] \in {"stop session", "stop context"}
    BY <1>3, <1>5 DEF Adopts, RegisteredRuns
  <1> QED
    BY <1>2, <1>3, <1>4, <1>5 DEF Adopts, RegisteredRuns, InGetOrCreate

LEMMA NewTypes ==
  ASSUME Types, NEW t \in Threads, MakesSession(t)
  PROVE  SessionTypes'
  <1>1. Basics
    BY TypesBasics
  <1>2. /\ Len(sessions') = Len(sessions) + 1 /\ Len(jsessions') = Len(jsessions) + 1
        /\ Len(sessions) \in Nat /\ Len(jsessions) \in Nat
    BY <1>1 DEF Basics, MakesSession
  <1>3. ASSUME NEW j \in 1..Len(jsessions')
        PROVE  jsessions'[j] \in 1..contexts'
    <2>1. CASE j = Len(jsessions) + 1
      BY <2>1 DEF MakesSession, Types, ContextTypes
    <2>2. CASE j \in 1..Len(jsessions)
      BY <2>2 DEF MakesSession, Types, SessionTypes
    <2> QED
      BY <1>2, <2>1, <2>2
  <1>4. ASSUME NEW i \in 1..Len(sessions')
        PROVE  sessions'[i].jsession \in 1..Len(jsessions')
    <2>1. i = Len(sessions) + 1 \/ i \in 1..Len(sessions)
      BY <1>2
    <2>2. CASE i = Len(sessions) + 1
      BY <1>1, <2>2 DEF MakesSession, Basics
    <2>3. CASE i \in 1..Len(sessions)
      <3>1. sessions'[i] = sessions[i]
        BY <2>3 DEF MakesSession
      <3>2. sessions[i].jsession \in 1..Len(jsessions)
        BY <1>1, <2>3 DEF Basics
      <3> QED
        BY <1>2, <3>1, <3>2
    <2> QED
      BY <2>1, <2>2, <2>3
  <1>5. jdefault' \in 0..Len(jsessions') /\ dead' \in BOOLEAN
    BY <1>1, <1>2 DEF Basics, Types, SessionTypes, MakesSession
  <1>6. instantiated' \in 0..Len(sessions') /\ known' \subseteq 1..Len(sessions')
    BY <1>1, <1>2 DEF Basics, Types, SessionTypes, MakesSession
  <1>7. jsessions' \in Seq(Nat) /\ sessions' \in Seq([sc : Nat, jsession : Nat])
    BY DEF MakesSession
  <1> QED
    BY <1>3, <1>4, <1>5, <1>6, <1>7 DEF SessionTypes

LEMMA NewLatest ==
  ASSUME Types, Latest, NEW t \in Threads, MakesSession(t)
  PROVE  Latest'
  <1>1. Basics
    BY TypesBasics
  <1> QED
    BY <1>1, OneInside DEF Basics, MakesSession, Latest, InGetOrCreate, Types

LEMMA NewOfOneContext ==
  ASSUME Types, OfOneContext, NEW t \in Threads, MakesSession(t)
  PROVE  OfOneContext'
  <1>1. Basics
    BY TypesBasics
  <1> SUFFICES ASSUME NEW i \in 1..Len(sessions')
               PROVE  jsessions'[sessions'[i].jsession] = sessions'[i].sc
    BY DEF OfOneContext
  <1>2. CASE i = Len(sessions) + 1
    BY <1>1, <1>2 DEF Basics, MakesSession
  <1>3. CASE i \in 1..Len(sessions)
    <2>1. sessions'[i] = sessions[i] /\ sessions[i].jsession \in 1..Len(jsessions)
      BY <1>1, <1>3 DEF MakesSession, Basics
    <2>2. jsessions'[sessions[i].jsession] = jsessions[sessions[i].jsession]
      BY <2>1 DEF MakesSession
    <2>3. jsessions[sessions[i].jsession] = sessions[i].sc
      BY <1>3 DEF OfOneContext
    <2> QED
      BY <2>1, <2>2, <2>3
  <1> QED
    BY <1>1, <1>2, <1>3 DEF Basics, MakesSession

LEMMA NewOneBusy ==
  ASSUME Types, OneBusy, NEW t \in Threads, MakesSession(t)
  PROVE  OneBusy'
  <1>1. Basics
    BY TypesBasics
  <1> QED
    BY <1>1 DEF Basics, MakesSession, OneBusy, Busy, InGetOrCreate, InStop

LEMMA NewRegistered ==
  ASSUME Types, RegisteredRuns, NEW t \in Threads, MakesSession(t)
  PROVE  RegisteredRuns'
  <1>1. Basics
    BY TypesBasics
  <1>2. \A u \in Threads : pc'[u] \in InGetOrCreate => u = t
    BY <1>1, OneInside DEF Basics, MakesSession, InGetOrCreate, Types
  <1>3. pc'[t] = "register" /\ \A u \in Threads : u # t => pc'[u] = pc[u]
    BY <1>1 DEF Basics, MakesSession
  <1>4. sessions'[self'].sc \in jsc'
    BY <1>1 DEF Basics, MakesSession
  <1>5. ASSUME ~program'.overlap, active' # 0
        PROVE  \/ active' \in jsc'
               \/ \E u \in Threads : pc'[u] \in {"stop session", "stop context"}
    BY <1>3, <1>5 DEF MakesSession, RegisteredRuns
  <1> QED
    BY <1>2, <1>3, <1>4, <1>5 DEF MakesSession, RegisteredRuns, InGetOrCreate

LEMMA ChildTypes ==
  ASSUME Types, NEW t \in Threads, NEW s \in 1..Len(sessions), MakesChild(t, s)
  PROVE  SessionTypes'
  <1>1. Basics
    BY TypesBasics
  <1>2. /\ Len(sessions') = Len(sessions) + 1 /\ Len(jsessions') = Len(jsessions) + 1
        /\ Len(sessions) \in Nat /\ Len(jsessions) \in Nat
    BY <1>1 DEF Basics, MakesChild
  <1>3. ASSUME NEW j \in 1..Len(jsessions')
        PROVE  jsessions'[j] \in 1..contexts'
    <2>1. CASE j = Len(jsessions) + 1
      BY <1>1, <2>1 DEF MakesChild, Basics
    <2>2. CASE j \in 1..Len(jsessions)
      BY <1>1, <2>2 DEF MakesChild, Basics
    <2> QED
      BY <1>2, <2>1, <2>2
  <1>4. ASSUME NEW i \in 1..Len(sessions')
        PROVE  sessions'[i].jsession \in 1..Len(jsessions')
    <2>1. i = Len(sessions) + 1 \/ i \in 1..Len(sessions)
      BY <1>2
    <2>2. CASE i = Len(sessions) + 1
      <3>1. sessions'[i].jsession = Len(jsessions) + 1
        BY <2>2 DEF MakesChild
      <3> QED
        BY <1>2, <3>1
    <2>3. CASE i \in 1..Len(sessions)
      <3>1. sessions'[i] = sessions[i]
        BY <2>3 DEF MakesChild
      <3>2. sessions[i].jsession \in 1..Len(jsessions)
        BY <1>1, <2>3 DEF Basics
      <3> QED
        BY <1>2, <3>1, <3>2
    <2> QED
      BY <2>1, <2>2, <2>3
  <1>5. jdefault' \in 0..Len(jsessions') /\ instantiated' \in 0..Len(sessions')
    <2>1. \/ instantiated' = Len(sessions) + 1 /\ jdefault' = Len(jsessions) + 1
          \/ instantiated' = instantiated /\ jdefault' = jdefault
      BY DEF MakesChild
    <2>2. jdefault \in 0..Len(jsessions) /\ instantiated \in 0..Len(sessions)
      BY <1>1 DEF Basics
    <2> QED
      BY <1>2, <2>1, <2>2
  <1>6. dead' \in BOOLEAN
    BY DEF Types, SessionTypes, MakesChild
  <1>7. ASSUME NEW k \in known'
        PROVE  k \in 1..Len(sessions')
    <2>1. k \in known \/ k = Len(sessions) + 1
      BY <1>7 DEF MakesChild
    <2>2. k \in 1..Len(sessions) \/ k = Len(sessions) + 1
      BY <2>1 DEF Types, SessionTypes
    <2> QED
      BY <1>2, <2>2
  <1>8. jsessions' \in Seq(Nat) /\ sessions' \in Seq([sc : Nat, jsession : Nat])
    BY DEF MakesChild
  <1> QED
    BY <1>3, <1>4, <1>5, <1>6, <1>7, <1>8 DEF SessionTypes

LEMMA ChildLatest ==
  ASSUME Types, Latest, NEW t \in Threads, NEW s \in 1..Len(sessions), MakesChild(t, s)
  PROVE  Latest'
  <1>1. Basics
    BY TypesBasics
  <1>2. Len(sessions') = Len(sessions) + 1 /\ UNCHANGED <<contexts, jsc, active, self, pc>>
    BY DEF MakesChild
  <1> QED
    BY <1>1, <1>2 DEF Latest, Basics

LEMMA ChildContext ==
  ASSUME Types, OfOneContext, NEW t \in Threads, NEW s \in 1..Len(sessions),
    MakesChild(t, s)
  PROVE  OfOneContext'
  <1>1. Basics
    BY TypesBasics
  <1>2. Len(sessions') = Len(sessions) + 1 /\ Len(jsessions') = Len(jsessions) + 1
    BY DEF MakesChild
  <1> SUFFICES ASSUME NEW i \in 1..Len(sessions')
               PROVE  jsessions'[sessions'[i].jsession] = sessions'[i].sc
    BY DEF OfOneContext
  <1>3. CASE i = Len(sessions) + 1
    <2>1. sessions'[i] = [sc |-> sessions[s].sc, jsession |-> Len(jsessions) + 1]
      BY <1>3 DEF MakesChild
    <2>2. jsessions'[Len(jsessions) + 1] = jsessions[sessions[s].jsession]
      BY DEF MakesChild
    <2> QED
      BY <2>1, <2>2 DEF OfOneContext
  <1>4. CASE i \in 1..Len(sessions)
    <2>1. sessions'[i] = sessions[i] /\ sessions[i].jsession \in 1..Len(jsessions)
      BY <1>1, <1>4 DEF MakesChild, Basics
    <2>2. jsessions'[sessions[i].jsession] = jsessions[sessions[i].jsession]
      BY <2>1 DEF MakesChild
    <2>3. jsessions[sessions[i].jsession] = sessions[i].sc
      BY <1>4 DEF OfOneContext
    <2> QED
      BY <2>1, <2>2, <2>3
  <1> QED
    BY <1>1, <1>2, <1>3, <1>4 DEF Basics

LEMMA ContextTypesStep ==
  ContextTypes /\ [Next]_vars => ContextTypes'
  <1> SUFFICES ASSUME ContextTypes, [Next]_vars PROVE ContextTypes'
    OBVIOUS
  <1> USE SparkSessionAssumption DEF ContextTypes, Goto, MayCall, sparkContext, jvm, builder,
               history
  <1>1. ASSUME NEW t \in Threads, GetSession(t)
         PROVE  ContextTypes'
    BY <1>1 DEF GetSession, Return, Running
  <1>2. ASSUME NEW t \in Threads, NeedSession(t)
         PROVE  ContextTypes'
    BY <1>2 DEF NeedSession, Running
  <1>3. ASSUME NEW t \in Threads, GetContext(t)
         PROVE  ContextTypes'
    BY <1>3 DEF GetContext
  <1>4. ASSUME NEW t \in Threads, NewContext(t)
         PROVE  ContextTypes'
    BY <1>4 DEF NewContext
  <1>5. ASSUME NEW t \in Threads, AdoptDefault(t)
         PROVE  ContextTypes'
    BY <1>5 DEF AdoptDefault, Construct, DefaultRuns
  <1>6. ASSUME NEW t \in Threads, NewSession(t)
         PROVE  ContextTypes'
    BY <1>6 DEF NewSession, Construct, DefaultRuns
  <1>7. ASSUME NEW t \in Threads, Fail(t)
         PROVE  ContextTypes'
    BY <1>7 DEF Fail, DefaultRuns
  <1>8. ASSUME NEW t \in Threads, EndGetOrCreate(t)
         PROVE  ContextTypes'
    BY <1>8 DEF EndGetOrCreate, Register, Return, Running
  <1>9. ASSUME NEW t \in Threads, Deactivate(t)
         PROVE  ContextTypes'
    <2>1. active' = 0 /\ UNCHANGED <<program, contexts, jsc>>
      BY <1>9 DEF Deactivate
    <2> QED
      BY <2>1
  <1>10. ASSUME NEW t \in Threads, ClearDefaultSession(t)
         PROVE  ContextTypes'
    BY <1>10 DEF ClearDefaultSession
  <1>11. ASSUME NEW t \in Threads, Forget(t)
         PROVE  ContextTypes'
    BY <1>11 DEF Forget
  <1>12. ASSUME NEW t \in Threads, NEW s \in 1..Len(sessions), ChildSession(t, s)
         PROVE  ContextTypes'
    BY <1>12 DEF ChildSession, Register, Running
  <1>13. ASSUME NEW t \in Threads, NEW s \in 1..Len(sessions),
                NEW p \in {"stop session", "stop context"}, Stop(t, s, p)
         PROVE  ContextTypes'
    BY <1>13 DEF Stop, Running
  <1>14. CASE UNCHANGED vars
    BY <1>14 DEF vars
  <1>15. ASSUME NEW t \in Threads, InitFails(t)
         PROVE  ContextTypes'
    BY <1>15 DEF InitFails
  <1> QED
    BY <1>1, <1>2, <1>3, <1>4, <1>5, <1>6, <1>7, <1>8,
       <1>9, <1>10, <1>11, <1>12, <1>13, <1>14, <1>15
    DEF Next

LEMMA SessionTypesStep ==
  Types /\ Latest /\ [Next]_vars => SessionTypes'
  <1> SUFFICES ASSUME Types, Latest, [Next]_vars PROVE SessionTypes'
    OBVIOUS
  <1> USE SparkSessionAssumption DEF Types, ContextTypes, SessionTypes, ThreadTypes,
               Latest, Goto, MayCall, sparkContext, jvm, builder,
               history
  <1>1. ASSUME NEW t \in Threads, GetSession(t)
         PROVE  SessionTypes'
    BY <1>1 DEF GetSession, Return, Running
  <1>2. ASSUME NEW t \in Threads, NeedSession(t)
         PROVE  SessionTypes'
    BY <1>2 DEF NeedSession, Running
  <1>3. ASSUME NEW t \in Threads, GetContext(t)
         PROVE  SessionTypes'
    BY <1>3 DEF GetContext
  <1>4. ASSUME NEW t \in Threads, NewContext(t)
         PROVE  SessionTypes'
    <2>1. MakesContext(t)
      BY <1>4, ContextFacts
    <2> QED
      BY <2>1 DEF MakesContext
  <1>5. ASSUME NEW t \in Threads, AdoptDefault(t)
         PROVE  SessionTypes'
    <2>1. Adopts(t)
      BY <1>5, AdoptFacts
    <2> QED
      BY <2>1, AdoptTypes
  <1>6. ASSUME NEW t \in Threads, NewSession(t)
         PROVE  SessionTypes'
    <2>1. MakesSession(t)
      BY <1>6, NewFacts
    <2> QED
      BY <2>1, NewTypes
  <1>7. ASSUME NEW t \in Threads, Fail(t)
         PROVE  SessionTypes'
    BY <1>7 DEF Fail, DefaultRuns
  <1>8. ASSUME NEW t \in Threads, EndGetOrCreate(t)
         PROVE  SessionTypes'
    <2>1. /\ pc[t] = "register"
          /\ UNCHANGED <<contexts, jsessions, sessions>>
          /\ \/ instantiated' = self /\ jdefault' = sessions[self].jsession
             \/ UNCHANGED <<instantiated, jdefault>>
          /\ known' \in {known, known \union {self}}
          /\ dead' \in {dead, dead \/ sessions[self].sc \notin jsc}
      BY <1>8 DEF EndGetOrCreate, Register, Return
    <2>2. self \in 1..Len(sessions)
      BY <2>1
    <2>3. Len(jsessions) \in Nat /\ Len(sessions) \in Nat
      OBVIOUS
    <2>4. sessions[self].jsession \in 0..Len(jsessions) /\ self \in 0..Len(sessions)
      BY <2>2, <2>3
    <2>5. instantiated' \in 0..Len(sessions') /\ jdefault' \in 0..Len(jsessions')
      BY <2>1, <2>4
    <2>6. known' \subseteq 1..Len(sessions') /\ dead' \in BOOLEAN
      BY <2>1, <2>2
    <2>7. /\ jsessions' \in Seq(Nat) /\ sessions' \in Seq([sc : Nat, jsession : Nat])
          /\ \A j \in 1..Len(jsessions') : jsessions'[j] \in 1..contexts'
          /\ \A s \in 1..Len(sessions') : sessions'[s].jsession \in 1..Len(jsessions')
      BY <2>1
    <2> HIDE DEF Types, ContextTypes, ThreadTypes, Latest
    <2> QED
      BY <2>5, <2>6, <2>7
  <1>9. ASSUME NEW t \in Threads, Deactivate(t)
         PROVE  SessionTypes'
    BY <1>9 DEF Deactivate
  <1>10. ASSUME NEW t \in Threads, ClearDefaultSession(t)
         PROVE  SessionTypes'
    BY <1>10 DEF ClearDefaultSession
  <1>11. ASSUME NEW t \in Threads, Forget(t)
         PROVE  SessionTypes'
    BY <1>11 DEF Forget
  <1>12. ASSUME NEW t \in Threads, NEW s \in 1..Len(sessions), ChildSession(t, s)
         PROVE  SessionTypes'
    <2>1. MakesChild(t, s)
      BY <1>12, ChildFacts
    <2> QED
      BY <2>1, ChildTypes
  <1>13. ASSUME NEW t \in Threads, NEW s \in 1..Len(sessions),
                NEW p \in {"stop session", "stop context"}, Stop(t, s, p)
         PROVE  SessionTypes'
    BY <1>13 DEF Stop, Running
  <1>14. CASE UNCHANGED vars
    BY <1>14 DEF vars
  <1>15. ASSUME NEW t \in Threads, InitFails(t)
         PROVE  SessionTypes'
    BY <1>15 DEF InitFails
  <1> QED
    BY <1>1, <1>2, <1>3, <1>4, <1>5, <1>6, <1>7, <1>8,
       <1>9, <1>10, <1>11, <1>12, <1>13, <1>14, <1>15
    DEF Next

LEMMA ThreadTypesStep ==
  Types /\ [Next]_vars => ThreadTypes'
  <1> SUFFICES ASSUME Types, [Next]_vars PROVE ThreadTypes'
    OBVIOUS
  <1> USE SparkSessionAssumption DEF Types, ContextTypes, SessionTypes, ThreadTypes,
               Busy, InGetOrCreate, InStop, Goto, MayCall, sparkContext, jvm, builder,
               history
  <1>1. ASSUME NEW t \in Threads, GetSession(t)
         PROVE  ThreadTypes'
    BY <1>1 DEF GetSession, Return, Running
  <1>2. ASSUME NEW t \in Threads, NeedSession(t)
         PROVE  ThreadTypes'
    BY <1>2 DEF NeedSession, Running
  <1>3. ASSUME NEW t \in Threads, GetContext(t)
         PROVE  ThreadTypes'
    BY <1>3, TakesThreads
  <1>4. ASSUME NEW t \in Threads, NewContext(t)
         PROVE  ThreadTypes'
    <2>1. MakesContext(t)
      BY <1>4, ContextFacts
    <2> QED
      BY <2>1, ContextThreads
  <1>5. ASSUME NEW t \in Threads, AdoptDefault(t)
         PROVE  ThreadTypes'
    <2>1. Adopts(t)
      BY <1>5, AdoptFacts
    <2> QED
      BY <2>1 DEF Adopts
  <1>6. ASSUME NEW t \in Threads, NewSession(t)
         PROVE  ThreadTypes'
    <2>1. MakesSession(t)
      BY <1>6, NewFacts
    <2> QED
      BY <2>1 DEF MakesSession
  <1>7. ASSUME NEW t \in Threads, Fail(t)
         PROVE  ThreadTypes'
    BY <1>7 DEF Fail, DefaultRuns
  <1>8. ASSUME NEW t \in Threads, EndGetOrCreate(t)
         PROVE  ThreadTypes'
    BY <1>8 DEF EndGetOrCreate, Register, Return, Running
  <1>9. ASSUME NEW t \in Threads, Deactivate(t)
         PROVE  ThreadTypes'
    BY <1>9 DEF Deactivate
  <1>10. ASSUME NEW t \in Threads, ClearDefaultSession(t)
         PROVE  ThreadTypes'
    BY <1>10 DEF ClearDefaultSession
  <1>11. ASSUME NEW t \in Threads, Forget(t)
         PROVE  ThreadTypes'
    BY <1>11 DEF Forget
  <1>12. ASSUME NEW t \in Threads, NEW s \in 1..Len(sessions), ChildSession(t, s)
         PROVE  ThreadTypes'
    <2>1. MakesChild(t, s)
      BY <1>12, ChildFacts
    <2> QED
      BY <2>1 DEF MakesChild
  <1>13. ASSUME NEW t \in Threads, NEW s \in 1..Len(sessions),
                NEW p \in {"stop session", "stop context"}, Stop(t, s, p)
         PROVE  ThreadTypes'
    BY <1>13 DEF Stop, Running
  <1>14. CASE UNCHANGED vars
    BY <1>14 DEF vars
  <1>15. ASSUME NEW t \in Threads, InitFails(t)
         PROVE  ThreadTypes'
    BY <1>15 DEF InitFails
  <1> QED
    BY <1>1, <1>2, <1>3, <1>4, <1>5, <1>6, <1>7, <1>8,
       <1>9, <1>10, <1>11, <1>12, <1>13, <1>14, <1>15
    DEF Next

LEMMA LatestStep ==
  Types /\ Latest /\ [Next]_vars => Latest'
  <1> SUFFICES ASSUME Types, Latest, [Next]_vars PROVE Latest'
    OBVIOUS
  <1> USE SparkSessionAssumption DEF Types, ContextTypes, SessionTypes, ThreadTypes,
               Latest, Busy, InGetOrCreate,
             InStop, Goto, MayCall, sparkContext, jvm, builder,
               history
  <1>1. ASSUME NEW t \in Threads, GetSession(t)
         PROVE  Latest'
    BY <1>1 DEF GetSession, Return, Running
  <1>2. ASSUME NEW t \in Threads, NeedSession(t)
         PROVE  Latest'
    BY <1>2 DEF NeedSession, Running
  <1>3. ASSUME NEW t \in Threads, GetContext(t)
         PROVE  Latest'
    BY <1>3 DEF GetContext
  <1>4. ASSUME NEW t \in Threads, NewContext(t)
         PROVE  Latest'
    <2>1. MakesContext(t)
      BY <1>4, ContextFacts
    <2> QED
      BY <2>1, ContextLatest
  <1>5. ASSUME NEW t \in Threads, AdoptDefault(t)
         PROVE  Latest'
    <2>1. Adopts(t)
      BY <1>5, AdoptFacts
    <2> QED
      BY <2>1, AdoptLatest
  <1>6. ASSUME NEW t \in Threads, NewSession(t)
         PROVE  Latest'
    <2>1. MakesSession(t)
      BY <1>6, NewFacts
    <2> QED
      BY <2>1, NewLatest
  <1>7. ASSUME NEW t \in Threads, Fail(t)
         PROVE  Latest'
    BY <1>7 DEF Fail, DefaultRuns
  <1>8. ASSUME NEW t \in Threads, EndGetOrCreate(t)
         PROVE  Latest'
    BY <1>8 DEF EndGetOrCreate, Register, Return, Running
  <1>9. ASSUME NEW t \in Threads, Deactivate(t)
         PROVE  Latest'
    BY <1>9 DEF Deactivate
  <1>10. ASSUME NEW t \in Threads, ClearDefaultSession(t)
         PROVE  Latest'
    BY <1>10 DEF ClearDefaultSession
  <1>11. ASSUME NEW t \in Threads, Forget(t)
         PROVE  Latest'
    BY <1>11 DEF Forget
  <1>12. ASSUME NEW t \in Threads, NEW s \in 1..Len(sessions), ChildSession(t, s)
         PROVE  Latest'
    <2>1. MakesChild(t, s)
      BY <1>12, ChildFacts
    <2> QED
      BY <2>1, ChildLatest
  <1>13. ASSUME NEW t \in Threads, NEW s \in 1..Len(sessions),
                NEW p \in {"stop session", "stop context"}, Stop(t, s, p)
         PROVE  Latest'
    BY <1>13 DEF Stop, Running
  <1>14. CASE UNCHANGED vars
    BY <1>14 DEF vars
  <1>15. ASSUME NEW t \in Threads, InitFails(t)
         PROVE  Latest'
    BY <1>15 DEF InitFails
  <1> QED
    BY <1>1, <1>2, <1>3, <1>4, <1>5, <1>6, <1>7, <1>8,
       <1>9, <1>10, <1>11, <1>12, <1>13, <1>14, <1>15
    DEF Next

LEMMA ContextStep ==
  Types /\ Latest /\ OfOneContext /\ [Next]_vars => OfOneContext'
  <1> SUFFICES ASSUME Types, Latest, OfOneContext, [Next]_vars PROVE OfOneContext'
    OBVIOUS
  <1> USE SparkSessionAssumption DEF Types, ContextTypes, SessionTypes, ThreadTypes,
               Latest, OfOneContext, Goto, MayCall, sparkContext, jvm, builder,
               history
  <1>1. ASSUME NEW t \in Threads, GetSession(t)
         PROVE  OfOneContext'
    BY <1>1 DEF GetSession, Return, Running
  <1>2. ASSUME NEW t \in Threads, NeedSession(t)
         PROVE  OfOneContext'
    BY <1>2 DEF NeedSession, Running
  <1>3. ASSUME NEW t \in Threads, GetContext(t)
         PROVE  OfOneContext'
    BY <1>3 DEF GetContext
  <1>4. ASSUME NEW t \in Threads, NewContext(t)
         PROVE  OfOneContext'
    <2>1. MakesContext(t)
      BY <1>4, ContextFacts
    <2> QED
      BY <2>1 DEF MakesContext
  <1>5. ASSUME NEW t \in Threads, AdoptDefault(t)
         PROVE  OfOneContext'
    <2>1. Adopts(t)
      BY <1>5, AdoptFacts
    <2> QED
      BY <2>1, AdoptContext
  <1>6. ASSUME NEW t \in Threads, NewSession(t)
         PROVE  OfOneContext'
    <2>1. MakesSession(t)
      BY <1>6, NewFacts
    <2> QED
      BY <2>1, NewOfOneContext
  <1>7. ASSUME NEW t \in Threads, Fail(t)
         PROVE  OfOneContext'
    BY <1>7 DEF Fail, DefaultRuns
  <1>8. ASSUME NEW t \in Threads, EndGetOrCreate(t)
         PROVE  OfOneContext'
    BY <1>8 DEF EndGetOrCreate, Register, Return, Running
  <1>9. ASSUME NEW t \in Threads, Deactivate(t)
         PROVE  OfOneContext'
    BY <1>9 DEF Deactivate
  <1>10. ASSUME NEW t \in Threads, ClearDefaultSession(t)
         PROVE  OfOneContext'
    BY <1>10 DEF ClearDefaultSession
  <1>11. ASSUME NEW t \in Threads, Forget(t)
         PROVE  OfOneContext'
    BY <1>11 DEF Forget
  <1>12. ASSUME NEW t \in Threads, NEW s \in 1..Len(sessions), ChildSession(t, s)
         PROVE  OfOneContext'
    <2>1. MakesChild(t, s)
      BY <1>12, ChildFacts
    <2> QED
      BY <2>1, ChildContext
  <1>13. ASSUME NEW t \in Threads, NEW s \in 1..Len(sessions),
                NEW p \in {"stop session", "stop context"}, Stop(t, s, p)
         PROVE  OfOneContext'
    BY <1>13 DEF Stop, Running
  <1>14. CASE UNCHANGED vars
    BY <1>14 DEF vars
  <1>15. ASSUME NEW t \in Threads, InitFails(t)
         PROVE  OfOneContext'
    BY <1>15 DEF InitFails
  <1> QED
    BY <1>1, <1>2, <1>3, <1>4, <1>5, <1>6, <1>7, <1>8,
       <1>9, <1>10, <1>11, <1>12, <1>13, <1>14, <1>15
    DEF Next

(* A thread that is in a call goes on in it, or ends it.                   *)
LEMMA StaysBusy ==
  ASSUME ThreadTypes, OneBusy, NEW t \in Threads, pc[t] \in Busy, NEW place,
         pc' = [pc EXCEPT ![t] = place], program' = program
  PROVE  OneBusy'
  <1>1. \A u \in Threads : pc'[u] \in Busy => pc[u] \in Busy
    BY DEF ThreadTypes
  <1> QED
    BY <1>1 DEF OneBusy

LEMMA OneBusyStep ==
  Types /\ ThreadTypes /\ OneBusy /\ [Next]_vars => OneBusy'
  <1> SUFFICES ASSUME Types, ThreadTypes, OneBusy, [Next]_vars PROVE OneBusy'
    OBVIOUS
  <1> USE SparkSessionAssumption DEF ThreadTypes, OneBusy, Busy, InGetOrCreate, InStop,
               Goto, MayCall, sparkContext, jvm, builder,
               history
  <1>1. ASSUME NEW t \in Threads, GetSession(t)
         PROVE  OneBusy'
    BY <1>1 DEF GetSession, Return, Running
  <1>2. ASSUME NEW t \in Threads, NeedSession(t)
         PROVE  OneBusy'
    BY <1>2 DEF NeedSession, Running
  <1>3. ASSUME NEW t \in Threads, GetContext(t)
         PROVE  OneBusy'
    <2>1. UNCHANGED program /\ pc[t] = "context" /\ pc' = [pc EXCEPT ![t] = "session"]
      BY <1>3 DEF GetContext
    <2>2. pc[t] \in Busy
      BY <2>1
    <2> HIDE DEF ThreadTypes, OneBusy, Busy
    <2> QED
      BY <2>1, <2>2, StaysBusy
  <1>4. ASSUME NEW t \in Threads, NewContext(t)
         PROVE  OneBusy'
    <2>1. UNCHANGED program /\ pc[t] = "context" /\ pc' = [pc EXCEPT ![t] = "session"]
      BY <1>4 DEF NewContext
    <2>2. pc[t] \in Busy
      BY <2>1
    <2> HIDE DEF ThreadTypes, OneBusy, Busy
    <2> QED
      BY <2>1, <2>2, StaysBusy
  <1>5. ASSUME NEW t \in Threads, AdoptDefault(t)
         PROVE  OneBusy'
    BY <1>5 DEF AdoptDefault, Construct, DefaultRuns
  <1>6. ASSUME NEW t \in Threads, NewSession(t)
         PROVE  OneBusy'
    <2>1. MakesSession(t)
      BY <1>6, NewFacts
    <2> QED
      BY <2>1, NewOneBusy
  <1>7. ASSUME NEW t \in Threads, Fail(t)
         PROVE  OneBusy'
    BY <1>7 DEF Fail, DefaultRuns
  <1>8. ASSUME NEW t \in Threads, EndGetOrCreate(t)
         PROVE  OneBusy'
    BY <1>8 DEF EndGetOrCreate, Register, Return, Running
  <1>9. ASSUME NEW t \in Threads, Deactivate(t)
         PROVE  OneBusy'
    BY <1>9 DEF Deactivate
  <1>10. ASSUME NEW t \in Threads, ClearDefaultSession(t)
         PROVE  OneBusy'
    BY <1>10 DEF ClearDefaultSession
  <1>11. ASSUME NEW t \in Threads, Forget(t)
         PROVE  OneBusy'
    BY <1>11 DEF Forget
  <1>12. ASSUME NEW t \in Threads, NEW s \in 1..Len(sessions), ChildSession(t, s)
         PROVE  OneBusy'
    BY <1>12 DEF ChildSession, Register, Running
  <1>13. ASSUME NEW t \in Threads, NEW s \in 1..Len(sessions),
                NEW p \in {"stop session", "stop context"}, Stop(t, s, p)
         PROVE  OneBusy'
    BY <1>13 DEF Stop, Running
  <1>14. CASE UNCHANGED vars
    BY <1>14 DEF vars
  <1>15. ASSUME NEW t \in Threads, InitFails(t)
         PROVE  OneBusy'
    BY <1>15 DEF InitFails
  <1> QED
    BY <1>1, <1>2, <1>3, <1>4, <1>5, <1>6, <1>7, <1>8,
       <1>9, <1>10, <1>11, <1>12, <1>13, <1>14, <1>15
    DEF Next

LEMMA RegisteredStep ==
  Types /\ Latest /\ OneBusy /\ RegisteredRuns /\ [Next]_vars => RegisteredRuns'
  <1> SUFFICES ASSUME Types, Latest, OneBusy, RegisteredRuns, [Next]_vars
               PROVE  RegisteredRuns'
    OBVIOUS
  <1> USE SparkSessionAssumption DEF Types, ContextTypes, SessionTypes, ThreadTypes,
               Latest, OneBusy, RegisteredRuns,
             Busy, InGetOrCreate, InStop, Goto, MayCall, sparkContext, jvm, builder,
               history
  <1>1. ASSUME NEW t \in Threads, GetSession(t)
         PROVE  RegisteredRuns'
    BY <1>1 DEF GetSession, Return, Running
  <1>2. ASSUME NEW t \in Threads, NeedSession(t)
         PROVE  RegisteredRuns'
    BY <1>2 DEF NeedSession, Running
  <1>3. ASSUME NEW t \in Threads, GetContext(t)
         PROVE  RegisteredRuns'
    BY <1>3 DEF GetContext
  <1>4. ASSUME NEW t \in Threads, NewContext(t)
         PROVE  RegisteredRuns'
    <2>1. MakesContext(t)
      BY <1>4, ContextFacts
    <2> QED
      BY <2>1 DEF MakesContext
  <1>5. ASSUME NEW t \in Threads, AdoptDefault(t)
         PROVE  RegisteredRuns'
    <2>1. Adopts(t)
      BY <1>5, AdoptFacts
    <2> QED
      BY <2>1, AdoptRegistered
  <1>6. ASSUME NEW t \in Threads, NewSession(t)
         PROVE  RegisteredRuns'
    <2>1. MakesSession(t)
      BY <1>6, NewFacts
    <2> QED
      BY <2>1, NewRegistered
  <1>7. ASSUME NEW t \in Threads, Fail(t)
         PROVE  RegisteredRuns'
    BY <1>7 DEF Fail, DefaultRuns
  <1>8. ASSUME NEW t \in Threads, EndGetOrCreate(t)
         PROVE  RegisteredRuns'
    BY <1>8 DEF EndGetOrCreate, Register, Return, Running
  <1>9. ASSUME NEW t \in Threads, Deactivate(t)
         PROVE  RegisteredRuns'
    BY <1>9 DEF Deactivate
  <1>10. ASSUME NEW t \in Threads, ClearDefaultSession(t)
         PROVE  RegisteredRuns'
    BY <1>10 DEF ClearDefaultSession
  <1>11. ASSUME NEW t \in Threads, Forget(t)
         PROVE  RegisteredRuns'
    BY <1>11 DEF Forget
  <1>12. ASSUME NEW t \in Threads, NEW s \in 1..Len(sessions), ChildSession(t, s)
         PROVE  RegisteredRuns'
    <2>1. MakesChild(t, s)
      BY <1>12, ChildFacts
    <2> QED
      BY <2>1 DEF MakesChild
  <1>13. ASSUME NEW t \in Threads, NEW s \in 1..Len(sessions),
                NEW p \in {"stop session", "stop context"}, Stop(t, s, p)
         PROVE  RegisteredRuns'
    BY <1>13 DEF Stop, Running
  <1>14. CASE UNCHANGED vars
    BY <1>14 DEF vars
  <1>15. ASSUME NEW t \in Threads, InitFails(t)
         PROVE  RegisteredRuns'
    BY <1>15 DEF InitFails
  <1> QED
    BY <1>1, <1>2, <1>3, <1>4, <1>5, <1>6, <1>7, <1>8,
       <1>9, <1>10, <1>11, <1>12, <1>13, <1>14, <1>15
    DEF Next

LEMMA StoppingStep ==
  Types /\ Latest /\ OneBusy /\ Stopping /\ [Next]_vars => Stopping'
  <1> SUFFICES ASSUME Types, Latest, OneBusy, Stopping, [Next]_vars PROVE Stopping'
    OBVIOUS
  <1> USE SparkSessionAssumption DEF Types, ContextTypes, SessionTypes, ThreadTypes,
               Latest, OneBusy, Stopping, Disciplined,
             Busy, InGetOrCreate, InStop, Goto, MayCall, sparkContext, jvm, builder,
               history
  <1>1. ASSUME NEW t \in Threads, GetSession(t)
         PROVE  Stopping'
    BY <1>1 DEF GetSession, Return, Running
  <1>2. ASSUME NEW t \in Threads, NeedSession(t)
         PROVE  Stopping'
    BY <1>2 DEF NeedSession, Running
  <1>3. ASSUME NEW t \in Threads, GetContext(t)
         PROVE  Stopping'
    BY <1>3 DEF GetContext
  <1>4. ASSUME NEW t \in Threads, NewContext(t)
         PROVE  Stopping'
    <2>1. MakesContext(t)
      BY <1>4, ContextFacts
    <2> QED
      BY <2>1, ContextStopping
  <1>5. ASSUME NEW t \in Threads, AdoptDefault(t)
         PROVE  Stopping'
    <2>1. Adopts(t)
      BY <1>5, AdoptFacts
    <2> QED
      BY <2>1 DEF Adopts
  <1>6. ASSUME NEW t \in Threads, NewSession(t)
         PROVE  Stopping'
    <2>1. MakesSession(t)
      BY <1>6, NewFacts
    <2> QED
      BY <2>1 DEF MakesSession
  <1>7. ASSUME NEW t \in Threads, Fail(t)
         PROVE  Stopping'
    BY <1>7 DEF Fail, DefaultRuns
  <1>8. ASSUME NEW t \in Threads, EndGetOrCreate(t)
         PROVE  Stopping'
    BY <1>8 DEF EndGetOrCreate, Register, Return, Running
  <1>9. ASSUME NEW t \in Threads, Deactivate(t)
         PROVE  Stopping'
    BY <1>9 DEF Deactivate
  <1>10. ASSUME NEW t \in Threads, ClearDefaultSession(t)
         PROVE  Stopping'
    BY <1>10 DEF ClearDefaultSession
  <1>11. ASSUME NEW t \in Threads, Forget(t)
         PROVE  Stopping'
    BY <1>11 DEF Forget
  <1>12. ASSUME NEW t \in Threads, NEW s \in 1..Len(sessions), ChildSession(t, s)
         PROVE  Stopping'
    <2>1. MakesChild(t, s)
      BY <1>12, ChildFacts
    <2> QED
      BY <2>1 DEF MakesChild
  <1>13. ASSUME NEW t \in Threads, NEW s \in 1..Len(sessions),
                NEW p \in {"stop session", "stop context"}, Stop(t, s, p)
         PROVE  Stopping'
    BY <1>13 DEF Stop, Running
  <1>14. CASE UNCHANGED vars
    BY <1>14 DEF vars
  <1>15. ASSUME NEW t \in Threads, InitFails(t)
         PROVE  Stopping'
    BY <1>15 DEF InitFails
  <1> QED
    BY <1>1, <1>2, <1>3, <1>4, <1>5, <1>6, <1>7, <1>8,
       <1>9, <1>10, <1>11, <1>12, <1>13, <1>14, <1>15
    DEF Next

LEMMA ReturnedStep ==
  Types /\ Latest /\ OneBusy /\ RegisteredRuns /\ ReturnedRuns /\ [Next]_vars => ReturnedRuns'
  <1> SUFFICES ASSUME Types, Latest, OneBusy, RegisteredRuns, ReturnedRuns, [Next]_vars
               PROVE  ReturnedRuns'
    OBVIOUS
  <1> USE SparkSessionAssumption DEF Types, ContextTypes, SessionTypes, ThreadTypes,
               Latest, RegisteredRuns, ReturnedRuns,
             Busy, InGetOrCreate, InStop, Goto, MayCall, sparkContext, jvm, builder,
               history
  <1>1. ASSUME NEW t \in Threads, GetSession(t)
         PROVE  ReturnedRuns'
    BY <1>1 DEF GetSession, Return, Running
  <1>2. ASSUME NEW t \in Threads, NeedSession(t)
         PROVE  ReturnedRuns'
    BY <1>2 DEF NeedSession, Running
  <1>3. ASSUME NEW t \in Threads, GetContext(t)
         PROVE  ReturnedRuns'
    BY <1>3 DEF GetContext
  <1>4. ASSUME NEW t \in Threads, NewContext(t)
         PROVE  ReturnedRuns'
    BY <1>4 DEF NewContext
  <1>5. ASSUME NEW t \in Threads, AdoptDefault(t)
         PROVE  ReturnedRuns'
    BY <1>5 DEF AdoptDefault, Construct, DefaultRuns
  <1>6. ASSUME NEW t \in Threads, NewSession(t)
         PROVE  ReturnedRuns'
    BY <1>6 DEF NewSession, Construct, DefaultRuns
  <1>7. ASSUME NEW t \in Threads, Fail(t)
         PROVE  ReturnedRuns'
    BY <1>7 DEF Fail, DefaultRuns
  <1>8. ASSUME NEW t \in Threads, EndGetOrCreate(t)
         PROVE  ReturnedRuns'
    BY <1>8 DEF EndGetOrCreate, Register, Return, Running
  <1>9. ASSUME NEW t \in Threads, Deactivate(t)
         PROVE  ReturnedRuns'
    BY <1>9 DEF Deactivate
  <1>10. ASSUME NEW t \in Threads, ClearDefaultSession(t)
         PROVE  ReturnedRuns'
    BY <1>10 DEF ClearDefaultSession
  <1>11. ASSUME NEW t \in Threads, Forget(t)
         PROVE  ReturnedRuns'
    BY <1>11 DEF Forget
  <1>12. ASSUME NEW t \in Threads, NEW s \in 1..Len(sessions), ChildSession(t, s)
         PROVE  ReturnedRuns'
    BY <1>12 DEF ChildSession, Register, Running
  <1>13. ASSUME NEW t \in Threads, NEW s \in 1..Len(sessions),
                NEW p \in {"stop session", "stop context"}, Stop(t, s, p)
         PROVE  ReturnedRuns'
    BY <1>13 DEF Stop, Running
  <1>14. CASE UNCHANGED vars
    BY <1>14 DEF vars
  <1>15. ASSUME NEW t \in Threads, InitFails(t)
         PROVE  ReturnedRuns'
    BY <1>15 DEF InitFails
  <1> QED
    BY <1>1, <1>2, <1>3, <1>4, <1>5, <1>6, <1>7, <1>8,
       <1>9, <1>10, <1>11, <1>12, <1>13, <1>14, <1>15
    DEF Next

(* 0 is None.                                                              *)
LEMMA ZeroIsNoContext == ContextTypes => 0 \notin jsc
  BY DEF ContextTypes

(* The invariants of the programs that stop nothing twice or overlap        *)
(* nowhere, and what they say of the calls that raise.                     *)
LEMMA HistoryTypesStep ==
  HistoryTypes /\ [Next]_vars => HistoryTypes'
  <1> SUFFICES ASSUME HistoryTypes, [Next]_vars
               PROVE  HistoryTypes'
    OBVIOUS
  <1> USE SparkSessionAssumption DEF HistoryTypes, Goto, MayCall, sparkContext, jvm, builder,
               history
  <1>1. ASSUME NEW t \in Threads, GetSession(t)
         PROVE  HistoryTypes'
    BY <1>1 DEF GetSession, Return
  <1>2. ASSUME NEW t \in Threads, NeedSession(t)
         PROVE  HistoryTypes'
    BY <1>2 DEF NeedSession, StopUnderWay
  <1>3. ASSUME NEW t \in Threads, GetContext(t)
         PROVE  HistoryTypes'
    BY <1>3 DEF GetContext
  <1>4. ASSUME NEW t \in Threads, NewContext(t)
         PROVE  HistoryTypes'
    BY <1>4 DEF NewContext
  <1>5. ASSUME NEW t \in Threads, InitFails(t)
         PROVE  HistoryTypes'
    BY <1>5 DEF InitFails
  <1>6. ASSUME NEW t \in Threads, AdoptDefault(t)
         PROVE  HistoryTypes'
    BY <1>6 DEF AdoptDefault, Construct
  <1>7. ASSUME NEW t \in Threads, NewSession(t)
         PROVE  HistoryTypes'
    BY <1>7 DEF NewSession, Construct
  <1>8. ASSUME NEW t \in Threads, Fail(t)
         PROVE  HistoryTypes'
    BY <1>8 DEF Fail
  <1>9. ASSUME NEW t \in Threads, EndGetOrCreate(t)
         PROVE  HistoryTypes'
    BY <1>9 DEF EndGetOrCreate, Return
  <1>10. ASSUME NEW t \in Threads, Deactivate(t)
         PROVE  HistoryTypes'
    BY <1>10 DEF Deactivate
  <1>11. ASSUME NEW t \in Threads, ClearDefaultSession(t)
         PROVE  HistoryTypes'
    BY <1>11 DEF ClearDefaultSession
  <1>12. ASSUME NEW t \in Threads, Forget(t)
         PROVE  HistoryTypes'
    BY <1>12 DEF Forget
  <1>13. ASSUME NEW t \in Threads, NEW s \in 1..Len(sessions), ChildSession(t, s)
         PROVE  HistoryTypes'
    BY <1>13 DEF ChildSession
  <1>14. ASSUME NEW t \in Threads, NEW s \in 1..Len(sessions),
                NEW p \in {"stop session", "stop context"}, Stop(t, s, p)
         PROVE  HistoryTypes'
    BY <1>14 DEF Stop, Running
  <1>15. CASE UNCHANGED vars
    BY <1>15 DEF vars
  <1> QED
    BY <1>1, <1>2, <1>3, <1>4, <1>5, <1>6, <1>7, <1>8,
       <1>9, <1>10, <1>11, <1>12, <1>13, <1>14, <1>15
    DEF Next

LEMMA AloneStep ==
  /\ ContextTypes /\ ThreadTypes /\ HistoryTypes /\ AloneRegistered /\ [Next]_vars
  => AloneRegistered'
  <1> SUFFICES ASSUME ContextTypes, ThreadTypes, HistoryTypes, AloneRegistered, [Next]_vars
               PROVE  AloneRegistered'
    OBVIOUS
  <1> USE SparkSessionAssumption DEF ContextTypes, ThreadTypes, HistoryTypes, AloneRegistered,
               AboutToUnregister, Busy, InGetOrCreate, InStop, Goto, MayCall,
               sparkContext, jvm, builder, history
  <1>1. ASSUME NEW t \in Threads, GetSession(t)
         PROVE  AloneRegistered'
    BY <1>1 DEF GetSession, Return
  <1>2. ASSUME NEW t \in Threads, NeedSession(t)
         PROVE  AloneRegistered'
    BY <1>2 DEF NeedSession, StopUnderWay
  <1>3. ASSUME NEW t \in Threads, GetContext(t)
         PROVE  AloneRegistered'
    BY <1>3 DEF GetContext
  <1>4. ASSUME NEW t \in Threads, NewContext(t)
         PROVE  AloneRegistered'
    BY <1>4 DEF NewContext
  <1>5. ASSUME NEW t \in Threads, InitFails(t)
         PROVE  AloneRegistered'
    BY <1>5 DEF InitFails
  <1>6. ASSUME NEW t \in Threads, AdoptDefault(t)
         PROVE  AloneRegistered'
    BY <1>6 DEF AdoptDefault, Construct
  <1>7. ASSUME NEW t \in Threads, NewSession(t)
         PROVE  AloneRegistered'
    BY <1>7 DEF NewSession, Construct
  <1>8. ASSUME NEW t \in Threads, Fail(t)
         PROVE  AloneRegistered'
    BY <1>8 DEF Fail
  <1>9. ASSUME NEW t \in Threads, EndGetOrCreate(t)
         PROVE  AloneRegistered'
    BY <1>9 DEF EndGetOrCreate, Return
  <1>10. ASSUME NEW t \in Threads, Deactivate(t)
         PROVE  AloneRegistered'
    BY <1>10 DEF Deactivate
  <1>11. ASSUME NEW t \in Threads, ClearDefaultSession(t)
         PROVE  AloneRegistered'
    BY <1>11 DEF ClearDefaultSession
  <1>12. ASSUME NEW t \in Threads, Forget(t)
         PROVE  AloneRegistered'
    BY <1>12 DEF Forget
  <1>13. ASSUME NEW t \in Threads, NEW s \in 1..Len(sessions), ChildSession(t, s)
         PROVE  AloneRegistered'
    BY <1>13 DEF ChildSession
  <1>14. ASSUME NEW t \in Threads, NEW s \in 1..Len(sessions),
                NEW p \in {"stop session", "stop context"}, Stop(t, s, p)
         PROVE  AloneRegistered'
    <2>1. /\ pc[t] = "idle" /\ pc' = [pc EXCEPT ![t] = p]
          /\ jsc' = jsc \ {sessions[s].sc} /\ beside' = (beside \/ lock # 0)
          /\ sessions[s].sc \in jsc \/ program.again
          /\ UNCHANGED <<program, active, lock, self>>
      BY <1>14 DEF Stop, Running
    <2> SUFFICES ASSUME ~program'.again
                 PROVE  AloneRegistered'
      BY DEF AloneRegistered
    <2>2. ~program.again
      BY <2>1
    <2>3. sessions[s].sc \in jsc /\ jsc \subseteq {active}
      BY <2>1, <2>2
    <2>4. jsc' = {} /\ active # 0
      <3>1. 0 \notin jsc
        <4>1. ContextTypes
          OBVIOUS
        <4> HIDE DEF ContextTypes
        <4> QED
          BY ONLY <4>1, ZeroIsNoContext
      <3>2. sessions[s].sc = active
        BY <2>3
      <3> QED
        BY ONLY <2>1, <2>3, <3>1, <3>2
    <2>5. \A u \in Threads : ~AboutToUnregister(u)
      BY <2>2, <2>3
    <2>6. \A u \in Threads : u # t => pc'[u] = pc[u]
      BY <2>1
    <2>7. pc'[t] = p /\ p \in {"stop session", "stop context"}
      BY <2>1
    <2>8. \A u \in Threads : pc'[u] = "session" => lock # 0
      BY <2>1, <2>6, <2>7
    <2> QED
      BY ONLY <2>1, <2>4, <2>5, <2>6, <2>7, <2>8, t \in Threads
      DEF AloneRegistered, AboutToUnregister
  <1>15. CASE UNCHANGED vars
    BY <1>15 DEF vars
  <1> QED
    BY <1>1, <1>2, <1>3, <1>4, <1>5, <1>6, <1>7, <1>8,
       <1>9, <1>10, <1>11, <1>12, <1>13, <1>14, <1>15
    DEF Next

LEMMA UndisturbedStep ==
  ThreadTypes /\ HistoryTypes /\ Undisturbed /\ [Next]_vars => Undisturbed'
  <1> SUFFICES ASSUME ThreadTypes, HistoryTypes, Undisturbed, [Next]_vars
               PROVE  Undisturbed'
    OBVIOUS
  <1> USE SparkSessionAssumption DEF ThreadTypes, HistoryTypes, Undisturbed, InGetOrCreate,
               Goto, MayCall, sparkContext, jvm, builder,
               history
  <1>1. ASSUME NEW t \in Threads, GetSession(t)
         PROVE  Undisturbed'
    BY <1>1 DEF GetSession, Return
  <1>2. ASSUME NEW t \in Threads, NeedSession(t)
         PROVE  Undisturbed'
    BY <1>2 DEF NeedSession, StopUnderWay
  <1>3. ASSUME NEW t \in Threads, GetContext(t)
         PROVE  Undisturbed'
    BY <1>3 DEF GetContext
  <1>4. ASSUME NEW t \in Threads, NewContext(t)
         PROVE  Undisturbed'
    BY <1>4 DEF NewContext
  <1>5. ASSUME NEW t \in Threads, InitFails(t)
         PROVE  Undisturbed'
    BY <1>5 DEF InitFails
  <1>6. ASSUME NEW t \in Threads, AdoptDefault(t)
         PROVE  Undisturbed'
    BY <1>6 DEF AdoptDefault, Construct
  <1>7. ASSUME NEW t \in Threads, NewSession(t)
         PROVE  Undisturbed'
    BY <1>7 DEF NewSession, Construct
  <1>8. ASSUME NEW t \in Threads, Fail(t)
         PROVE  Undisturbed'
    BY <1>8 DEF Fail
  <1>9. ASSUME NEW t \in Threads, EndGetOrCreate(t)
         PROVE  Undisturbed'
    BY <1>9 DEF EndGetOrCreate, Return
  <1>10. ASSUME NEW t \in Threads, Deactivate(t)
         PROVE  Undisturbed'
    BY <1>10 DEF Deactivate
  <1>11. ASSUME NEW t \in Threads, ClearDefaultSession(t)
         PROVE  Undisturbed'
    BY <1>11 DEF ClearDefaultSession
  <1>12. ASSUME NEW t \in Threads, Forget(t)
         PROVE  Undisturbed'
    BY <1>12 DEF Forget
  <1>13. ASSUME NEW t \in Threads, NEW s \in 1..Len(sessions), ChildSession(t, s)
         PROVE  Undisturbed'
    BY <1>13 DEF ChildSession
  <1>14. ASSUME NEW t \in Threads, NEW s \in 1..Len(sessions),
                NEW p \in {"stop session", "stop context"}, Stop(t, s, p)
         PROVE  Undisturbed'
    BY <1>14 DEF Stop, Running
  <1>15. CASE UNCHANGED vars
    BY <1>15 DEF vars
  <1> QED
    BY <1>1, <1>2, <1>3, <1>4, <1>5, <1>6, <1>7, <1>8,
       <1>9, <1>10, <1>11, <1>12, <1>13, <1>14, <1>15
    DEF Next

LEMMA FailureStep ==
  /\ ContextTypes /\ ThreadTypes /\ AloneRegistered /\ Undisturbed
  /\ NoNeedlessFailure /\ [Next]_vars
  => NoNeedlessFailure'
  <1> SUFFICES ASSUME ContextTypes, ThreadTypes, AloneRegistered, Undisturbed,
                      NoNeedlessFailure, [Next]_vars
               PROVE  NoNeedlessFailure'
    OBVIOUS
  <1> USE SparkSessionAssumption DEF ContextTypes, ThreadTypes, AloneRegistered, Undisturbed,
               NoNeedlessFailure, Disciplined, InGetOrCreate, Goto, MayCall, sparkContext, jvm, builder,
               history
  <1>1. ASSUME NEW t \in Threads, GetSession(t)
         PROVE  NoNeedlessFailure'
    BY <1>1 DEF GetSession, Return
  <1>2. ASSUME NEW t \in Threads, NeedSession(t)
         PROVE  NoNeedlessFailure'
    BY <1>2 DEF NeedSession, StopUnderWay
  <1>3. ASSUME NEW t \in Threads, GetContext(t)
         PROVE  NoNeedlessFailure'
    BY <1>3 DEF GetContext
  <1>4. ASSUME NEW t \in Threads, NewContext(t)
         PROVE  NoNeedlessFailure'
    BY <1>4 DEF NewContext
  <1>5. ASSUME NEW t \in Threads, InitFails(t)
         PROVE  NoNeedlessFailure'
    BY <1>5 DEF InitFails
  <1>6. ASSUME NEW t \in Threads, AdoptDefault(t)
         PROVE  NoNeedlessFailure'
    BY <1>6 DEF AdoptDefault, Construct
  <1>7. ASSUME NEW t \in Threads, NewSession(t)
         PROVE  NoNeedlessFailure'
    BY <1>7 DEF NewSession, Construct
  <1>8. ASSUME NEW t \in Threads, Fail(t)
         PROVE  NoNeedlessFailure'
    <2>1. CASE pc[t] = "context" /\ active = 0 /\ jsc # {}
      <3>1. PICK c \in jsc : TRUE
        BY <2>1
      <3>2. program.again
        BY <2>1, <3>1
      <3> QED
        BY <1>8, <2>1, <3>2 DEF Fail
    <2>2. CASE pc[t] = "session" /\ self \notin jsc
      <3>1. lock = t /\ lock # 0
        BY <2>2
      <3>2. program.again \/ beside
        BY <2>2
      <3>3. beside => program.overlap
        BY <3>1
      <3>4. /\ program' = program
            /\ raised' = raised \union {IF beside THEN "overtaken" ELSE "stopped"}
        BY <1>8, <2>2 DEF Fail
      <3> QED
        BY <3>2, <3>3, <3>4
    <2> QED
      BY <1>8, <2>1, <2>2 DEF Fail
  <1>9. ASSUME NEW t \in Threads, EndGetOrCreate(t)
         PROVE  NoNeedlessFailure'
    BY <1>9 DEF EndGetOrCreate, Return
  <1>10. ASSUME NEW t \in Threads, Deactivate(t)
         PROVE  NoNeedlessFailure'
    BY <1>10 DEF Deactivate
  <1>11. ASSUME NEW t \in Threads, ClearDefaultSession(t)
         PROVE  NoNeedlessFailure'
    BY <1>11 DEF ClearDefaultSession
  <1>12. ASSUME NEW t \in Threads, Forget(t)
         PROVE  NoNeedlessFailure'
    BY <1>12 DEF Forget
  <1>13. ASSUME NEW t \in Threads, NEW s \in 1..Len(sessions), ChildSession(t, s)
         PROVE  NoNeedlessFailure'
    BY <1>13 DEF ChildSession
  <1>14. ASSUME NEW t \in Threads, NEW s \in 1..Len(sessions),
                NEW p \in {"stop session", "stop context"}, Stop(t, s, p)
         PROVE  NoNeedlessFailure'
    BY <1>14 DEF Stop, Running
  <1>15. CASE UNCHANGED vars
    BY <1>15 DEF vars
  <1> QED
    BY <1>1, <1>2, <1>3, <1>4, <1>5, <1>6, <1>7, <1>8,
       <1>9, <1>10, <1>11, <1>12, <1>13, <1>14, <1>15
    DEF Next

LEMMA SessionStep == SessionInv /\ [Next]_vars => SessionInv'
  <1> SUFFICES ASSUME SessionInv, [Next]_vars PROVE SessionInv'
    OBVIOUS
  <1>1. /\ Types /\ Latest /\ OfOneContext /\ OneBusy /\ RegisteredRuns /\ Stopping
        /\ HistoryTypes /\ AloneRegistered /\ Undisturbed
        /\ ReturnedRuns /\ NoNeedlessFailure
    BY DEF SessionInv
  <1>2. ContextTypes /\ ThreadTypes
    BY <1>1 DEF Types
  <1>3. Types'
    BY <1>1, <1>2, ContextTypesStep, SessionTypesStep, ThreadTypesStep DEF Types
  <1>4. Latest' /\ OfOneContext'
    BY <1>1, LatestStep, ContextStep
  <1>5. OneBusy' /\ RegisteredRuns' /\ Stopping'
    BY <1>1, <1>2, OneBusyStep, RegisteredStep, StoppingStep
  <1>6. HistoryTypes' /\ AloneRegistered' /\ Undisturbed'
    BY <1>1, <1>2, HistoryTypesStep, AloneStep, UndisturbedStep
  <1>7. ReturnedRuns' /\ NoNeedlessFailure'
    BY <1>1, <1>2, ReturnedStep, FailureStep
  <1> QED
    BY <1>3, <1>4, <1>5, <1>6, <1>7 DEF SessionInv

LEMMA SessionAlways == Spec => []SessionInv
  BY SessionInit, SessionStep, PTL DEF Spec

-----------------------------------------------------------------------------
(* Types; the builder's lock is held exactly while a thread is inside      *)
(* SparkSession.builder.getOrCreate.                                       *)
THEOREM SessionTypeCorrect == Spec => []TypeOK
  <1>1. SessionInv => TypeOK
    BY DEF SessionInv, Types, ContextTypes, SessionTypes, ThreadTypes, HistoryTypes,
           InGetOrCreate, TypeOK
  <1> QED
    BY <1>1, SessionAlways, PTL

(* The session of the JVM that a session object works through belongs to   *)
(* the session object's own context, whatever the threads stop and make.   *)
THEOREM SessionOfOneContext == Spec => []OfOneContext
  <1>1. SessionInv => OfOneContext
    BY DEF SessionInv
  <1> QED
    BY <1>1, SessionAlways, PTL

(* getOrCreate returns a session that runs, as long as no two calls        *)
(* overlap.                                                                *)
THEOREM SessionReturnedRuns == Spec => []ReturnedRuns
  <1>1. SessionInv => ReturnedRuns
    BY DEF SessionInv
  <1> QED
    BY <1>1, SessionAlways, PTL

(* getOrCreate raises, the JVM's own failures apart, only in a call that a *)
(* stop() of another thread runs beside, in a program that stops nothing   *)
(* twice; a SparkContext() that failed before leaves nothing behind that   *)
(* would make it raise.                                                    *)
THEOREM SessionNoNeedlessFailure == Spec => []NoNeedlessFailure
  <1>1. SessionInv => NoNeedlessFailure
    BY DEF SessionInv
  <1> QED
    BY <1>1, SessionAlways, PTL

(* If moreover no two calls overlap, the builder keeps the session it made *)
(* until that session's context stops.                                     *)
THEOREM SessionDefaultKept == Spec => DefaultKept
  <1>1. SessionInv /\ [Next]_vars
        => [Disciplined /\ (instantiated \in Running) => (instantiated' = instantiated)]_vars
    <2> SUFFICES ASSUME SessionInv, Next, Disciplined, instantiated \in Running
                 PROVE  instantiated' = instantiated
      OBVIOUS
    <2>1. ASSUME NEW t \in Threads, EndGetOrCreate(t)
          PROVE  instantiated' = instantiated
      BY <2>1 DEF EndGetOrCreate, Register
    <2>2. ASSUME NEW t \in Threads, NEW s \in 1..Len(sessions), ChildSession(t, s)
          PROVE  instantiated' = instantiated
      BY <2>2 DEF ChildSession, Register
    <2>3. ASSUME NEW t \in Threads, Forget(t)
          PROVE  FALSE
      <3>1. jsc = {}
        BY <2>3 DEF Forget, SessionInv, Stopping, InStop
      <3> QED
        BY <3>1 DEF Running
    <2> QED
      BY <2>1, <2>2, <2>3
      DEF Next, GetSession, NeedSession, GetContext, NewContext, InitFails, AdoptDefault,
          NewSession, Construct, Fail, Deactivate, ClearDefaultSession, Stop
  <1> QED
    BY <1>1, SessionAlways, PTL DEF Spec, DefaultKept

=============================================================================
