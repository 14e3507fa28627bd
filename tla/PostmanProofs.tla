--------------------------- MODULE PostmanProofs ---------------------------
(***************************************************************************)
(* Postman for any number of processes, sessions, services and requests:   *)
(* no restart is forgotten, and nothing unchecked is stored unless two     *)
(* calls were given the same session.                                      *)
(***************************************************************************)
EXTENDS Postman, ListLemmas, FiniteSetTheorems, TLAPS

-----------------------------------------------------------------------------
(* The inductive invariant.                                                *)

Label == {"idle", "clear", "open", "test", "lock", "remove", "edit", "check",
          "setcfg", "activate", "run", "save"} \cup Critical

Types ==
    /\ pc \in [Proc -> Label]
    /\ DOMAIN call = Proc
    /\ \A p \in Proc : pc[p] # "idle" => call[p] \in [req : Request, number : Session]
    /\ content \in Document \cup {Empty}
    /\ session \in [Session -> Module]
    /\ config \in [Service -> Value] /\ flash \in [Service -> Value]
    /\ dirty \in Seq(Service \cup {None})
    /\ script \in [Proc -> SUBSET Service]

\* A call has a script only while it is about to run it.
OneScript == \A p \in Proc : pc[p] # "run" => script[p] = {}

\* An entry without a name comes from a module without a service.
AllNamed == ~blank => \A k \in DOMAIN dirty : dirty[k] # None

Rejected(m) == m.service # None /\ m.value = "bad"

\* Sessions that are not shared: calls have different ones, and neither the
\* stored settings, the file nor a session that fatlady has passed holds a
\* value that it rejects.
Apart ==
    \A p, q \in Proc : pc[p] # "idle" /\ pc[q] # "idle" /\ p # q
                         => call[p].number # call[q].number
Clean ==
    /\ \A s \in Service : config[s] # "bad" /\ flash[s] # "bad"
    /\ content.module.value # "bad"
    /\ \A p \in Proc : pc[p] = "setcfg" /\ Stores(call[p].req)
                         => ~Rejected(session[call[p].number])

RestartInv == Types /\ OneScript /\ AllNamed /\ RestartPending
CheckInv == Types /\ (~shared => Apart /\ Clean)

\* What the arguments of a call are.
LEMMA CallTypes ==
    ASSUME Types, NEW p \in Proc, pc[p] # "idle"
    PROVE  /\ call[p].number \in Session /\ call[p].req \in Request
           /\ call[p].req.service \in Service
           /\ call[p].req.value \in Value
           /\ session[call[p].number] \in Module
  <1>1. call[p] \in [req : Request, number : Session] /\ session \in [Session -> Module]
    BY DEF Types
  <1>2. call[p].number \in Session /\ call[p].req \in Request
    BY <1>1
  <1>3. call[p].req \in [api : {"postman", "GetCfg"}, setcfg : {"set", "del", "no"},
                         activate : BOOLEAN, save : BOOLEAN,
                         service : Service, value : {"good", "bad"}]
    BY <1>2, PostmanAssumption
  <1> QED BY <1>1, <1>2, <1>3 DEF Value

\* The steps that only move a call on, apart from the file's name.
Moves(p) ==
    \/ OpenTemp(p) \/ Test(p) \/ Lock(p) \/ Shell(p) \/ Unlock(p) \/ RemoveTemp(p)

\* Neither an empty file nor an absent module holds a rejected value.
LEMMA EmptyIsClean == Empty.module.value # "bad" /\ Absent \in Module
  BY DEF Empty, Absent, Module, Value

\* What the moving steps leave alone.
LEMMA MovesEffect ==
    ASSUME Types, NEW p \in Proc, Moves(p)
    PROVE  /\ pc[p] \notin {"idle", "run", "setcfg"}
           /\ pc' = [pc EXCEPT ![p] = pc'[p]]
           /\ pc'[p] \in Label \ {"run", "setcfg"}
           /\ \/ call' = call
              \/ pc'[p] = "idle" /\ call' = [call EXCEPT ![p] = NoCall]
           /\ content' = content \/ content' = Empty
           /\ UNCHANGED <<session, store, script, ghosts>>
  <1>1. pc \in [Proc -> Label]
    BY DEF Types
  <1>2. CASE OpenTemp(p)
    BY <1>1, <1>2 DEF OpenTemp, At, Goto, Return, Truncate, Label, files
  <1>3. CASE Test(p) \/ Lock(p)
    BY <1>1, <1>3 DEF Test, Lock, At, Goto, Label, Critical, files
  <1>4. CASE Shell(p)
    BY <1>1, <1>4 DEF Shell, At, Goto, Truncate, Label, Critical
  <1>5. CASE Unlock(p) \/ RemoveTemp(p)
    BY <1>1, <1>5 DEF Unlock, RemoveTemp, At, Goto, Label, Critical
  <1> QED BY <1>2, <1>3, <1>4, <1>5 DEF Moves

-----------------------------------------------------------------------------
(* Types.                                                                  *)

CallTypesOK ==
    /\ pc \in [Proc -> Label]
    /\ DOMAIN call = Proc
    /\ \A p \in Proc : pc[p] # "idle" => call[p] \in [req : Request, number : Session]

\* A call goes on to the label l.
LEMMA GotoTypes ==
    ASSUME Types, NEW p \in Proc, pc[p] # "idle", NEW l \in Label, Goto(p, l), call' = call
    PROVE  CallTypesOK'
  BY DEF Types, CallTypesOK, Goto

\* A call returns.
LEMMA ReturnTypes ==
    ASSUME Types, NEW p \in Proc, Return(p)
    PROVE  CallTypesOK'
  <1>1. pc' = [pc EXCEPT ![p] = "idle"] /\ call' = [call EXCEPT ![p] = NoCall]
    BY DEF Return, Goto
  <1>2. pc \in [Proc -> Label] /\ "idle" \in Label /\ DOMAIN call = Proc
    BY DEF Types, Label
  <1>3. pc' \in [Proc -> Label] /\ pc'[p] = "idle" /\ DOMAIN call' = Proc
    BY <1>1, <1>2
  <1>4. \A q \in Proc : q # p => pc'[q] = pc[q] /\ call'[q] = call[q]
    BY <1>1, <1>2
  <1> QED BY <1>3, <1>4 DEF Types, CallTypesOK

\* The labels.
LEMMA Labels ==
    /\ {"idle", "clear", "open", "test", "lock", "remove", "edit", "check", "setcfg",
        "activate", "run", "save", "shell", "write", "read", "unlock"} \subseteq Label
  BY DEF Label, Critical

\* A new call.
LEMMA CallStep ==
    ASSUME Types, NEW p \in Proc, NEW r \in Request, NEW n \in Session, Call(p, r, n)
    PROVE  Types'
  <1>1. /\ call' = [call EXCEPT ![p] = [req |-> r, number |-> n]]
        /\ \E l \in Label : pc' = [pc EXCEPT ![p] = l]
    BY Labels DEF Call, Goto
  <1>2. PICK l \in Label : pc' = [pc EXCEPT ![p] = l]
    BY <1>1
  <1>3. CallTypesOK'
    BY <1>1, <1>2 DEF CallTypesOK, Types
  <1> QED BY <1>3 DEF CallTypesOK, Types, Call, files, store

\* A step of a call keeps the types.
LEMMA StepTypes ==
    ASSUME Types, NEW p \in Proc, Step(p)
    PROVE  Types'
  <1>1. CASE Moves(p)
    <2>1. /\ pc[p] # "idle" /\ pc' = [pc EXCEPT ![p] = pc'[p]] /\ pc'[p] \in Label
          /\ \/ call' = call
             \/ pc'[p] = "idle" /\ call' = [call EXCEPT ![p] = NoCall]
          /\ content' = content \/ content' = Empty
          /\ UNCHANGED <<session, store, script>>
      BY <1>1, MovesEffect
    <2>2. CallTypesOK'
      <3>1. CASE call' = call
        BY <2>1, <3>1, GotoTypes DEF Goto
      <3>2. CASE pc'[p] = "idle" /\ call' = [call EXCEPT ![p] = NoCall]
        BY <2>1, <3>2, ReturnTypes DEF Return, Goto
      <3> QED BY <2>1, <3>1, <3>2
    <2> QED BY <2>1, <2>2 DEF CallTypesOK, Types, store
  <1>2. CASE Clear(p)
    <2>1. pc[p] # "idle"
      BY <1>2 DEF Clear, At
    <2>2. CallTypesOK'
      BY <1>2, <2>1, GotoTypes, ReturnTypes, Labels DEF Clear
    <2>3. session' \in [Session -> Module]
      BY <1>2, <2>1, CallTypes, EmptyIsClean DEF Clear, Types
    <2> QED BY <1>2, <2>2, <2>3 DEF Clear, CallTypesOK, Types, files, store
  <1>3. CASE Write(p)
    <2>1. pc[p] # "idle"
      BY <1>3 DEF Write, At
    <2>2. CallTypesOK'
      BY <1>3, <2>1, GotoTypes, Labels DEF Write
    <2> DEFINE r == call[p].req
               doc == [number |-> call[p].number,
                       module |-> [service |-> r.service, value |-> config[r.service]]]
    <2>3. doc \in Document
      BY <2>1, CallTypes DEF Types, Document, Module
    <2>4. content' \in {content, Empty, doc}
      BY <1>3 DEF Write
    <2>5. content' \in Document \cup {Empty}
      BY <2>3, <2>4 DEF Types
    <2> QED BY <1>3, <2>2, <2>5 DEF Write, CallTypesOK, Types, store
  <1>4. CASE Read(p)
    <2>1. pc[p] # "idle"
      BY <1>4 DEF Read, At
    <2>2. CallTypesOK'
      BY <1>4, <2>1, GotoTypes, Labels DEF Read
    <2>3. content # Empty => content.number \in Session /\ content.module \in Module
      BY DEF Types, Document
    <2>4. session' \in [Session -> Module]
      BY <1>4, <2>3 DEF Read, Types
    <2> QED BY <1>4, <2>2, <2>4 DEF Read, CallTypesOK, Types, files, store
  <1>5. CASE Edit(p)
    <2>1. pc[p] # "idle"
      BY <1>5 DEF Edit, At
    <2>2. CallTypesOK'
      BY <1>5, <2>1, GotoTypes, Labels DEF Edit
    <2> DEFINE n == call[p].number
    <2>3. n \in Session /\ call[p].req.value \in Value /\ "deleted" \in Value
          /\ session \in [Session -> Module]
      BY <2>1, CallTypes DEF Types, Value
    <2>4. \A v \in Value : [session EXCEPT ![n].value = v] \in [Session -> Module]
      BY <2>3 DEF Module
    <2>5. session' \in [Session -> Module]
      BY <1>5, <2>3, <2>4 DEF Edit
    <2> QED BY <1>5, <2>2, <2>5 DEF Edit, CallTypesOK, Types, files, store
  <1>6. CASE Check(p)
    <2>1. pc[p] # "idle"
      BY <1>6 DEF Check, At
    <2>2. CallTypesOK'
      BY <1>6, <2>1, GotoTypes, ReturnTypes, Labels DEF Check
    <2>3. session' \in [Session -> Module]
      BY <1>6, <2>1, CallTypes, EmptyIsClean DEF Check, Types
    <2> QED BY <1>6, <2>2, <2>3 DEF Check, CallTypesOK, Types, files, store
  <1>7. CASE SetCfg(p)
    <2>1. pc[p] # "idle"
      BY <1>7 DEF SetCfg, At
    <2>2. CallTypesOK'
      BY <1>7, <2>1, GotoTypes, Labels DEF SetCfg
    <2> DEFINE n == call[p].number
               svc == session[n].service
    <2>3. /\ n \in Session /\ svc \in Service \cup {None} /\ session[n].value \in Value
      BY <2>1, CallTypes DEF Module
    <2>4. session' \in [Session -> Module]
      BY <1>7, <2>3, EmptyIsClean DEF SetCfg, Types
    <2>5. config' \in [Service -> Value]
      BY <1>7, <2>3 DEF SetCfg, Types
    <2>6. dirty' \in Seq(Service \cup {None})
      BY <1>7, <2>3 DEF SetCfg, Types
    <2> QED BY <1>7, <2>2, <2>4, <2>5, <2>6 DEF SetCfg, CallTypesOK, Types, files
  <1>8. CASE Activate(p)
    <2>1. pc[p] # "idle"
      BY <1>8 DEF Activate, At
    <2>2. CallTypesOK'
      BY <1>8, <2>1, GotoTypes, Labels DEF Activate
    <2>3. Named \subseteq Service
      BY DEF Named, Types
    <2>4. script' \in [Proc -> SUBSET Service] /\ dirty' \in Seq(Service \cup {None})
      <3>1. /\ script' = [script EXCEPT ![p] = Named] \/ script' = script
            /\ dirty' = << >> \/ dirty' = dirty
        BY <1>8 DEF Activate
      <3>2. script \in [Proc -> SUBSET Service] /\ dirty \in Seq(Service \cup {None})
        BY DEF Types
      <3>3. Named \in SUBSET Service
        BY <2>3
      <3>4. script' \in [Proc -> SUBSET Service]
        BY <3>1, <3>2, <3>3
      <3>5. << >> \in Seq(Service \cup {None})
        OBVIOUS
      <3>6. dirty' \in Seq(Service \cup {None})
        BY <3>1, <3>2, <3>5
      <3> QED BY <3>4, <3>6
    <2> QED BY <1>8, <2>2, <2>4 DEF Activate, CallTypesOK, Types, files
  <1>9. CASE RunScript(p)
    <2>1. pc[p] # "idle"
      BY <1>9 DEF RunScript, At
    <2>2. CallTypesOK'
      BY <1>9, <2>1, GotoTypes, Labels DEF RunScript
    <2> QED BY <1>9, <2>2 DEF RunScript, CallTypesOK, Types, files
  <1>10. CASE Save(p)
    <2>1. CallTypesOK'
      BY <1>10, ReturnTypes DEF Save
    <2> QED BY <1>10, <2>1 DEF Save, CallTypesOK, Types, files
  <1> QED BY <1>1, <1>2, <1>3, <1>4, <1>5, <1>6, <1>7, <1>8, <1>9, <1>10 DEF Step, Moves

\* So do a kill and every other step.
LEMMA TypesStep ==
    ASSUME Types, [Next]_vars
    PROVE  Types'
  <1>1. ASSUME NEW p \in Proc, Killed(p)  PROVE Types'
    <2>1. CallTypesOK'
      BY <1>1, ReturnTypes DEF Killed
    <2> QED BY <1>1, <2>1 DEF Killed, CallTypesOK, Types, store
  <1>2. CASE UNCHANGED vars
    BY <1>2 DEF vars, files, store, Types
  <1> QED BY <1>1, <1>2, CallStep, StepTypes DEF Next

-----------------------------------------------------------------------------
(* Restarts.                                                               *)

\* What is waiting for its restart.
Waiting == ToSet(dirty) \cup lost \cup UNION {script[p] : p \in Proc}

\* RestartPending in terms of it, and its members.
LEMMA WaitingIs ==
    /\ RestartPending <=> blank \/ stale \subseteq Waiting
    /\ \A s : s \in Waiting <=> \/ \E k \in DOMAIN dirty : dirty[k] = s
                                \/ s \in lost
                                \/ \E p \in Proc : s \in script[p]
  BY DEF RestartPending, Waiting, ToSet

\* The same in the next state.
LEMMA WaitingIsNext ==
    /\ RestartPending' <=> blank' \/ stale' \subseteq Waiting'
    /\ \A s : s \in Waiting' <=> \/ \E k \in DOMAIN dirty' : dirty'[k] = s
                                 \/ s \in lost'
                                 \/ \E p \in Proc : s \in script'[p]
  BY DEF RestartPending, Waiting, ToSet

\* The steps that change neither the dirty list nor a script.
Apathetic ==
    /\ UNCHANGED <<dirty, script, lost, stale, blank>>
    /\ \A p \in Proc : pc'[p] # "run" => pc[p] # "run" \/ script[p] = {}

\* They keep the invariant.
LEMMA ApatheticKeeps ==
    ASSUME OneScript, AllNamed, RestartPending, Apathetic
    PROVE  (OneScript /\ AllNamed /\ RestartPending)'
  <1>1. OneScript'
    BY DEF Apathetic, OneScript
  <1>2. AllNamed'
    BY DEF Apathetic, AllNamed
  <1> QED BY <1>1, <1>2 DEF Apathetic, RestartPending

\* wand.php SETCFG puts the service it makes stale into the list.
LEMMA SetCfgRestarts ==
    ASSUME RestartInv, NEW p \in Proc, SetCfg(p)
    PROVE  (OneScript /\ AllNamed /\ RestartPending)'
  <1> DEFINE n == call[p].number
             svc == session[n].service
  <1>1. pc[p] = "setcfg" /\ pc' = [pc EXCEPT ![p] = "activate"] /\ script' = script /\ lost' = lost
    BY DEF SetCfg, At, Goto
  <1>2. OneScript'
    BY <1>1 DEF RestartInv, OneScript, Types
  <1>3. CASE UNCHANGED <<dirty, config, stale, blank, session>>
    <2>1. AllNamed'
      BY <1>3 DEF RestartInv, AllNamed
    <2> QED BY <1>1, <1>2, <1>3, <2>1 DEF RestartInv, RestartPending
  <1>4. CASE /\ dirty' = IF Contains(dirty, svc) THEN dirty ELSE Append(dirty, svc)
             /\ stale' = stale \cup ({svc} \ {None})
             /\ blank' = (blank \/ svc = None)
    <2>1. dirty \in Seq(Service \cup {None}) /\ svc \in Service \cup {None}
      BY <1>1, CallTypes DEF RestartInv, Types, Module
    <2> HIDE DEF svc
    <2>2. Contains(dirty, svc) => \E k \in DOMAIN dirty : dirty[k] = svc
      BY <2>1 DEF Contains
    <2>3. /\ \E k \in DOMAIN dirty' : dirty'[k] = svc
          /\ \A k \in DOMAIN dirty : k \in DOMAIN dirty' /\ dirty'[k] = dirty[k]
          /\ \A k \in DOMAIN dirty' : dirty'[k] = svc \/ (k \in DOMAIN dirty /\ dirty'[k] = dirty[k])
      BY <1>4, <2>1, <2>2
    <2>4. AllNamed'
      BY <1>4, <2>3 DEF RestartInv, AllNamed
    <2>5. \A s : s \in Waiting => s \in Waiting'
      BY <1>1, <2>3, WaitingIs, WaitingIsNext
    <2>6. svc \in Waiting'
      BY <2>3, WaitingIsNext
    <2>7. RestartPending'
      BY <1>4, <2>5, <2>6, WaitingIs, WaitingIsNext DEF RestartInv
    <2> QED BY <1>2, <2>4, <2>7
  <1> QED BY <1>3, <1>4 DEF SetCfg

\* wand.php ACTIVATE moves the whole list into the script.
LEMMA ActivateRestarts ==
    ASSUME RestartInv, NEW p \in Proc, Activate(p)
    PROVE  (OneScript /\ AllNamed /\ RestartPending)'
  <1>1. pc[p] = "activate" /\ UNCHANGED <<stale, lost, blank>> /\ script[p] = {}
    BY DEF Activate, At, ghosts, RestartInv, OneScript
  <1>2. CASE call[p].req.activate
    <2>1. /\ script' = [script EXCEPT ![p] = Named] /\ dirty' = << >>
          /\ pc' = [pc EXCEPT ![p] = "run"]
      BY <1>2 DEF Activate, Goto
    <2>2. OneScript' /\ AllNamed'
      BY <2>1 DEF RestartInv, OneScript, AllNamed, Types
    <2>3. /\ script'[p] = Named
          /\ \A q \in Proc : q # p => script'[q] = script[q]
      BY <2>1 DEF RestartInv, Types
    <2>4. ASSUME ~blank  PROVE \A k \in DOMAIN dirty : dirty[k] \in Named
      <3>1. dirty \in Seq(Service \cup {None})
        BY DEF RestartInv, Types
      <3>2. \A j \in DOMAIN dirty : dirty[j] # None
        BY <2>4 DEF RestartInv, AllNamed
      <3>3. \A k \in DOMAIN dirty : \A i \in 1..k : i \in DOMAIN dirty
        BY <3>1
      <3> QED BY <3>2, <3>3 DEF Named
    <2>5. ASSUME ~blank, NEW s \in Waiting  PROVE s \in Waiting'
      <3>1. CASE \E k \in DOMAIN dirty : dirty[k] = s
        BY <2>3, <2>4, <2>5, <3>1, WaitingIsNext
      <3>2. CASE s \in lost
        BY <1>1, <3>2, WaitingIsNext
      <3>3. CASE \E q \in Proc : s \in script[q]
        BY <1>1, <2>3, <3>3, WaitingIsNext
      <3> QED BY <3>1, <3>2, <3>3, WaitingIs
    <2>6. RestartPending'
      BY <1>1, <2>5, WaitingIs, WaitingIsNext DEF RestartInv
    <2> QED BY <2>2, <2>6
  <1>3. CASE ~call[p].req.activate
    <2>1. pc' = [pc EXCEPT ![p] = "save"] /\ script' = script /\ dirty' = dirty
      BY <1>3 DEF Activate, Goto
    <2>2. Apathetic
      BY <1>1, <2>1 DEF Apathetic, RestartInv, Types
    <2> QED BY <2>2, ApatheticKeeps DEF RestartInv
  <1> QED BY <1>2, <1>3

\* The script restarts what it names.
LEMMA RunRestarts ==
    ASSUME RestartInv, NEW p \in Proc, RunScript(p)
    PROVE  (OneScript /\ AllNamed /\ RestartPending)'
  <1>1. /\ stale' = stale \ script[p] /\ lost' = lost \ script[p]
        /\ script' = [script EXCEPT ![p] = {}] /\ pc' = [pc EXCEPT ![p] = "save"]
        /\ dirty' = dirty /\ blank' = blank
    BY DEF RunScript, Goto
  <1>2. OneScript' /\ AllNamed'
    BY <1>1 DEF RestartInv, OneScript, AllNamed, Types
  <1>3. \A q \in Proc : q # p => script'[q] = script[q]
    BY <1>1 DEF RestartInv, Types
  <1>4. \A s \in Waiting : s \in script[p] \/ s \in Waiting'
    BY <1>1, <1>3, WaitingIs, WaitingIsNext
  <1>5. RestartPending'
    BY <1>1, <1>4, WaitingIs, WaitingIsNext DEF RestartInv
  <1> QED BY <1>2, <1>5

\* What a killed call would have restarted is lost, and known to be.
LEMMA KilledRestarts ==
    ASSUME RestartInv, NEW p \in Proc, Killed(p)
    PROVE  (OneScript /\ AllNamed /\ RestartPending)'
  <1>1. /\ stale' = stale /\ lost' = lost \cup script[p]
        /\ script' = [script EXCEPT ![p] = {}] /\ pc' = [pc EXCEPT ![p] = "idle"]
        /\ dirty' = dirty /\ blank' = blank
    BY DEF Killed, Return, Goto, store
  <1>2. OneScript' /\ AllNamed'
    BY <1>1 DEF RestartInv, OneScript, AllNamed, Types
  <1>3. \A q \in Proc : q # p => script'[q] = script[q]
    BY <1>1 DEF RestartInv, Types
  <1>4. \A s \in Waiting : s \in Waiting'
    BY <1>1, <1>3, WaitingIs, WaitingIsNext
  <1>5. RestartPending'
    BY <1>1, <1>4, WaitingIs, WaitingIsNext DEF RestartInv
  <1> QED BY <1>2, <1>5

\* Every step keeps the invariant.
LEMMA RestartStep ==
    ASSUME RestartInv, [Next]_vars
    PROVE  RestartInv'
  <1>1. Types'
    BY TypesStep DEF RestartInv
  <1>2. ASSUME NEW p \in Proc,
               \/ Moves(p) \/ Clear(p) \/ Write(p) \/ Read(p) \/ Edit(p) \/ Check(p) \/ Save(p)
               \/ \E r \in Request, n \in Session : Call(p, r, n)
        PROVE  Apathetic
    <2>1. UNCHANGED <<dirty, script, lost, stale, blank>> /\ pc[p] # "run"
      <3>1. CASE Moves(p)
        BY <3>1, MovesEffect DEF RestartInv, store, ghosts
      <3>2. CASE Clear(p) \/ Write(p) \/ Read(p)
        BY <3>2 DEF Clear, Write, Read, At, store, ghosts
      <3>3. CASE Edit(p) \/ Check(p) \/ Save(p)
        BY <3>3 DEF Edit, Check, Save, At, store, ghosts
      <3>4. CASE \E r \in Request, n \in Session : Call(p, r, n)
        BY <3>4 DEF Call, At, store
      <3> QED BY <1>2, <3>1, <3>2, <3>3, <3>4
    <2>2. \A q \in Proc : q # p => pc'[q] = pc[q]
      <3>1. CASE Moves(p)
        <4>1. pc' = [pc EXCEPT ![p] = pc'[p]]
          BY <3>1, MovesEffect DEF RestartInv
        <4> QED BY <4>1 DEF RestartInv, Types
      <3>2. CASE Clear(p) \/ Write(p) \/ Read(p)
        BY <3>2 DEF Clear, Write, Read, Goto, Return, RestartInv, Types
      <3>3. CASE Edit(p) \/ Check(p) \/ Save(p)
        BY <3>3 DEF Edit, Check, Save, Goto, Return, RestartInv, Types
      <3>4. CASE \E r \in Request, n \in Session : Call(p, r, n)
        BY <3>4 DEF Call, Goto, RestartInv, Types
      <3> QED BY <1>2, <3>1, <3>2, <3>3, <3>4
    <2> QED BY <2>1, <2>2 DEF Apathetic
  <1>3. ASSUME UNCHANGED vars  PROVE Apathetic
    BY <1>3 DEF vars, store, ghosts, Apathetic
  <1>4. Apathetic => (OneScript /\ AllNamed /\ RestartPending)'
    BY ApatheticKeeps DEF RestartInv
  <1>5. (OneScript /\ AllNamed /\ RestartPending)'
    BY <1>2, <1>3, <1>4, SetCfgRestarts, ActivateRestarts, RunRestarts, KilledRestarts
       DEF Next, Step, Moves
  <1> QED BY <1>1, <1>5 DEF RestartInv

\* Initially nothing is called and nothing is stored.
LEMMA InitTypes == Init => Types
  <1> SUFFICES ASSUME Init  PROVE Types
    OBVIOUS
  <1>1. /\ pc = [p \in Proc |-> "idle"] /\ "idle" \in Label
        /\ call = [p \in Proc |-> NoCall] /\ content = Empty
        /\ session = [n \in Session |-> Absent] /\ Absent \in Module
    BY EmptyIsClean, Labels DEF Init
  <1>2. config \in [Service -> Value] /\ flash = config
    BY DEF Init, Value
  <1>3. dirty \in Seq(Service \cup {None}) /\ script \in [Proc -> SUBSET Service]
    BY DEF Init
  <1> QED BY <1>1, <1>2, <1>3 DEF Types

\* For any processes, sessions, services and requests, with calls killed at any
\* step: every service that was changed and not restarted since is in the
\* dirty list, in a script that is about to run, or in a script that a killed
\* call never ran (wand.php SETCFG and ACTIVATE, the script of postman.c).
THEOREM PostmanRestarts == Spec => []RestartPending
  <1>1. Init => RestartInv
    <2> SUFFICES ASSUME Init  PROVE RestartInv
      OBVIOUS
    <2>1. OneScript /\ AllNamed
      BY DEF Init, OneScript, AllNamed
    <2>2. RestartPending
      BY DEF Init, RestartPending
    <2> QED BY <2>1, <2>2, InitTypes DEF RestartInv
  <1>2. RestartInv => RestartPending
    BY DEF RestartInv
  <1> QED BY <1>1, <1>2, RestartStep, PTL DEF Spec

-----------------------------------------------------------------------------
(* Checks.                                                                 *)

\* The calls under way after the step were under way before, with the same
\* arguments.
SameCalls == \A q \in Proc : pc'[q] # "idle" => pc[q] # "idle" /\ call'[q] = call[q]

\* Then their sessions stay apart.
LEMMA SameCallsApart ==
    ASSUME Apart, SameCalls
    PROVE  Apart'
  BY DEF Apart, SameCalls

\* A call that goes on or returns.
LEMMA GotoSame ==
    ASSUME Types, NEW p \in Proc, NEW l \in Label, pc[p] # "idle",
           \/ Goto(p, l) /\ call' = call
           \/ Return(p)
    PROVE  /\ SameCalls
           /\ \A q \in Proc : q # p => pc'[q] = pc[q] /\ call'[q] = call[q]
           /\ pc'[p] \in {l, "idle"}
           /\ pc'[p] = "idle" \/ call'[p] = call[p]
  <1>1. pc \in [Proc -> Label] /\ DOMAIN call = Proc
    BY DEF Types
  <1>2. CASE Goto(p, l) /\ call' = call
    BY <1>1, <1>2 DEF Goto, SameCalls
  <1>3. CASE Return(p)
    BY <1>1, <1>3 DEF Return, Goto, SameCalls
  <1> QED BY <1>2, <1>3

\* Sessions that were passed stay passed when nobody arrives at SETCFG and
\* the sessions of those who are there do not get a rejected value.
LEMMA CleanKeeps ==
    ASSUME Clean, SameCalls,
           \A q \in Proc : pc'[q] = "setcfg" =>
             \/ pc[q] = "setcfg" /\ \/ session'[call[q].number] = session[call[q].number]
                                    \/ ~Rejected(session'[call[q].number])
             \/ ~Rejected(session'[call[q].number]),
           \A s \in Service : config'[s] # "bad" /\ flash'[s] # "bad",
           content'.module.value # "bad"
    PROVE  Clean'
  <1>1. ASSUME NEW q \in Proc, pc'[q] = "setcfg", Stores(call'[q].req)
        PROVE  ~Rejected(session'[call'[q].number])
    <2>1. call'[q] = call[q]
      BY <1>1 DEF SameCalls
    <2> QED BY <1>1, <2>1 DEF Clean
  <1> QED BY <1>1 DEF Clean, Rejected

\* Every step of a call keeps unshared sessions clean.
LEMMA StepClean ==
    ASSUME Types, Apart, Clean, NEW p \in Proc, Step(p)
    PROVE  Apart' /\ Clean'
  <1>1. /\ \A s \in Service : config[s] # "bad" /\ flash[s] # "bad"
        /\ content.module.value # "bad"
        /\ session \in [Session -> Module]
        /\ ~Rejected(Absent)
    BY DEF Clean, Types, Rejected, Absent
  <1>2. CASE Moves(p)
    <2>1. /\ pc[p] # "idle" /\ pc' = [pc EXCEPT ![p] = pc'[p]]
          /\ pc'[p] \in Label /\ pc'[p] # "setcfg"
          /\ \/ call' = call
             \/ pc'[p] = "idle" /\ call' = [call EXCEPT ![p] = NoCall]
          /\ content' = content \/ content' = Empty
          /\ UNCHANGED <<session, config, flash>>
      BY <1>2, MovesEffect DEF store
    <2>2. SameCalls /\ \A q \in Proc : q # p => pc'[q] = pc[q]
      BY <2>1, GotoSame DEF Goto, Return
    <2>3. content'.module.value # "bad"
      BY <1>1, <2>1, EmptyIsClean
    <2>4. \A q \in Proc : pc'[q] = "setcfg" => pc[q] = "setcfg"
      BY <2>1, <2>2
    <2> QED BY <1>1, <2>1, <2>2, <2>3, <2>4, CleanKeeps, SameCallsApart
  <1>3. CASE Clear(p)
    <2>1. /\ pc[p] = "clear" /\ UNCHANGED <<config, flash, content>>
          /\ \/ session' = session
             \/ session' = [session EXCEPT ![call[p].number] = Absent]
      BY <1>3 DEF Clear, At, store, files
    <2>2. /\ SameCalls /\ pc'[p] \in {"open", "idle"}
          /\ \A q \in Proc : q # p => pc'[q] = pc[q] /\ call'[q] = call[q]
      BY <1>3, <2>1, GotoSame, Labels DEF Clear
    <2>3. ASSUME NEW q \in Proc, pc'[q] = "setcfg"
          PROVE  /\ pc[q] = "setcfg"
                 /\ \/ session'[call[q].number] = session[call[q].number]
                    \/ ~Rejected(session'[call[q].number])
      <3>1. q # p /\ pc[q] = "setcfg"
        BY <2>2, <2>3
      <3>2. call[q].number \in Session
        BY <3>1, CallTypes
      <3> QED BY <1>1, <2>1, <3>1, <3>2
    <2> QED BY <1>1, <2>1, <2>2, <2>3, CleanKeeps, SameCallsApart
  <1>4. CASE Write(p)
    <2> DEFINE r == call[p].req
               doc == [number |-> call[p].number,
                       module |-> [service |-> r.service, value |-> config[r.service]]]
    <2>1. /\ pc[p] = "write" /\ UNCHANGED <<config, flash, session>>
          /\ content' \in {content, Empty, doc}
      BY <1>4 DEF Write, At, store
    <2>2. /\ SameCalls /\ pc'[p] \in {"read", "idle"}
          /\ \A q \in Proc : q # p => pc'[q] = pc[q] /\ call'[q] = call[q]
      BY <1>4, <2>1, GotoSame, Labels DEF Write
    <2>3. doc.module.value # "bad"
      BY <1>1, <2>1, CallTypes
    <2>4. content'.module.value # "bad"
      BY <1>1, <2>1, <2>3, EmptyIsClean
    <2>5. \A q \in Proc : pc'[q] = "setcfg" => pc[q] = "setcfg"
      BY <2>2
    <2> QED BY <1>1, <2>1, <2>2, <2>4, <2>5, CleanKeeps, SameCallsApart
  <1>5. CASE Read(p)
    <2>1. /\ pc[p] = "read" /\ UNCHANGED <<config, flash, content>>
          /\ \/ session' = session
             \/ session' = [session EXCEPT ![content.number] = content.module]
      BY <1>5 DEF Read, At, store, files
    <2>2. /\ SameCalls /\ pc'[p] \in {"unlock", "idle"}
          /\ \A q \in Proc : q # p => pc'[q] = pc[q] /\ call'[q] = call[q]
      BY <1>5, <2>1, GotoSame, Labels DEF Read
    <2>3. ~Rejected(content.module)
      BY <1>1 DEF Rejected
    <2>4. ASSUME NEW q \in Proc, pc'[q] = "setcfg"
          PROVE  /\ pc[q] = "setcfg"
                 /\ \/ session'[call[q].number] = session[call[q].number]
                    \/ ~Rejected(session'[call[q].number])
      <3>1. q # p /\ pc[q] = "setcfg"
        BY <2>2, <2>4
      <3>2. call[q].number \in Session
        BY <3>1, CallTypes
      <3> QED BY <1>1, <2>1, <2>3, <3>1, <3>2
    <2> QED BY <1>1, <2>1, <2>2, <2>4, CleanKeeps, SameCallsApart
  <1>6. CASE Edit(p)
    <2>1. /\ pc[p] = "edit" /\ UNCHANGED <<config, flash, content>>
          /\ \A n \in Session : n # call[p].number => session'[n] = session[n]
      BY <1>1, <1>6 DEF Edit, At, store, files
    <2>2. /\ SameCalls /\ pc'[p] \in {"check", "idle"}
          /\ \A q \in Proc : q # p => pc'[q] = pc[q] /\ call'[q] = call[q]
      BY <1>6, <2>1, GotoSame, Labels DEF Edit
    <2>3. ASSUME NEW q \in Proc, pc'[q] = "setcfg"
          PROVE  pc[q] = "setcfg" /\ session'[call[q].number] = session[call[q].number]
      <3>1. q # p /\ pc[q] = "setcfg"
        BY <2>2, <2>3
      <3>2. call[q].number \in Session /\ call[q].number # call[p].number
        BY <2>1, <3>1, CallTypes DEF Apart
      <3> QED BY <2>1, <3>1, <3>2
    <2> QED BY <1>1, <2>1, <2>2, <2>3, CleanKeeps, SameCallsApart
  <1>7. CASE Check(p)
    <2> DEFINE n == call[p].number
    <2>1. /\ pc[p] = "check" /\ UNCHANGED <<config, flash, content>>
          /\ \/ Return(p) /\ session' = [session EXCEPT ![n] = Absent]
             \/ Goto(p, "setcfg") /\ call' = call /\ session' = session /\ ~Rejected(session[n])
      BY <1>7 DEF Check, At, store, files, Rejected
    <2>2. /\ SameCalls
          /\ \A q \in Proc : q # p => pc'[q] = pc[q] /\ call'[q] = call[q]
      BY <2>1, GotoSame, Labels
    <2>3. ASSUME NEW q \in Proc, pc'[q] = "setcfg"
          PROVE  \/ pc[q] = "setcfg" /\ \/ session'[call[q].number] = session[call[q].number]
                                        \/ ~Rejected(session'[call[q].number])
                 \/ ~Rejected(session'[call[q].number])
      <3>1. CASE q = p
        <4>1. ~Return(p)
          BY <2>3, <3>1 DEF Return, Goto, Types
        <4> QED BY <2>1, <3>1, <4>1
      <3>2. CASE q # p
        <4>1. pc[q] = "setcfg" /\ call[q].number \in Session
          BY <2>2, <2>3, <3>2, CallTypes
        <4> QED BY <1>1, <2>1, <4>1
      <3> QED BY <3>1, <3>2
    <2> QED BY <1>1, <2>1, <2>2, <2>3, CleanKeeps, SameCallsApart
  <1>8. CASE SetCfg(p)
    <2> DEFINE n == call[p].number
               svc == session[n].service
    <2>1. /\ pc[p] = "setcfg" /\ UNCHANGED <<flash, content>>
          /\ \/ UNCHANGED <<config, session>>
             \/ /\ Stores(call[p].req)
                /\ config' = IF svc = None THEN config ELSE [config EXCEPT ![svc] = session[n].value]
                /\ session' = [session EXCEPT ![n] = Absent]
      BY <1>8 DEF SetCfg, At, files
    <2>2. /\ SameCalls /\ pc'[p] \in {"activate", "idle"}
          /\ \A q \in Proc : q # p => pc'[q] = pc[q] /\ call'[q] = call[q]
      BY <1>8, <2>1, GotoSame, Labels DEF SetCfg
    <2>3. \A s \in Service : config'[s] # "bad"
      <3>1. CASE UNCHANGED config
        BY <1>1, <3>1
      <3>2. CASE /\ Stores(call[p].req) /\ svc # None
                 /\ config' = [config EXCEPT ![svc] = session[n].value]
        <4>1. session[n].value # "bad"
          BY <2>1, <3>2 DEF Clean, Rejected
        <4> QED BY <1>1, <3>2, <4>1 DEF Types
      <3> QED BY <2>1, <3>1, <3>2
    <2>4. ASSUME NEW q \in Proc, pc'[q] = "setcfg"
          PROVE  /\ pc[q] = "setcfg"
                 /\ \/ session'[call[q].number] = session[call[q].number]
                    \/ ~Rejected(session'[call[q].number])
      <3>1. q # p /\ pc[q] = "setcfg"
        BY <2>2, <2>4
      <3>2. call[q].number \in Session
        BY <3>1, CallTypes
      <3> QED BY <1>1, <2>1, <3>1, <3>2
    <2> QED BY <1>1, <2>1, <2>2, <2>3, <2>4, CleanKeeps, SameCallsApart
  <1>9. CASE Activate(p) \/ RunScript(p) \/ Save(p)
    <2>1. /\ pc[p] \notin {"idle", "setcfg"} /\ UNCHANGED <<config, session, content>>
          /\ flash' = flash \/ flash' = config
      BY <1>9 DEF Activate, RunScript, Save, At, files
    <2>2. PICK l \in {"run", "save"} : (Goto(p, l) /\ call' = call) \/ Return(p)
      BY <1>9 DEF Activate, RunScript, Save
    <2>3. /\ SameCalls /\ pc'[p] \in {l, "idle"}
          /\ \A q \in Proc : q # p => pc'[q] = pc[q] /\ call'[q] = call[q]
      BY <2>1, <2>2, GotoSame, Labels
    <2>4. \A q \in Proc : pc'[q] = "setcfg" => pc[q] = "setcfg"
      BY <2>3
    <2>5. \A s \in Service : config'[s] # "bad" /\ flash'[s] # "bad"
      BY <1>1, <2>1
    <2> QED BY <1>1, <2>1, <2>3, <2>4, <2>5, CleanKeeps, SameCallsApart
  <1> QED BY <1>2, <1>3, <1>4, <1>5, <1>6, <1>7, <1>8, <1>9 DEF Step, Moves

\* A call that is given a session of its own keeps the sessions apart.
LEMMA CallClean ==
    ASSUME Types, Apart, Clean, NEW p \in Proc, NEW r \in Request, NEW n \in Session,
           Call(p, r, n), ~shared'
    PROVE  Apart' /\ Clean'
  <1>1. /\ call' = [call EXCEPT ![p] = [req |-> r, number |-> n]]
        /\ pc[p] = "idle" /\ UNCHANGED <<session, config, flash, content>>
        /\ pc' = [pc EXCEPT ![p] = IF r.setcfg = "no" /\ r.api = "postman" THEN "setcfg" ELSE "clear"]
    BY DEF Call, At, Goto, files, store
  <1>2. \A q \in Proc : call[q].number # n
    BY DEF Call, InUse
  <1>3. /\ call'[p] = [req |-> r, number |-> n]
        /\ \A q \in Proc : q # p => call'[q] = call[q] /\ pc'[q] = pc[q]
        /\ pc'[p] = IF r.setcfg = "no" /\ r.api = "postman" THEN "setcfg" ELSE "clear"
    BY <1>1 DEF Types
  <1>4. Apart'
    BY <1>2, <1>3 DEF Apart
  <1>5. ASSUME NEW q \in Proc, pc'[q] = "setcfg", Stores(call'[q].req)
        PROVE  ~Rejected(session'[call'[q].number])
    <2>1. q # p
      BY <1>3, <1>5 DEF Stores
    <2> QED BY <1>1, <1>3, <1>5, <2>1 DEF Clean
  <1>6. Clean'
    BY <1>1, <1>5 DEF Clean, Rejected
  <1> QED BY <1>4, <1>6

\* A kill ends a call.
LEMMA KilledClean ==
    ASSUME Types, Apart, Clean, NEW p \in Proc, Killed(p)
    PROVE  Apart' /\ Clean'
  <1>1. pc[p] # "idle" /\ Return(p) /\ UNCHANGED <<session, config, flash, content>>
    BY DEF Killed, store
  <1>2. /\ SameCalls /\ pc'[p] = "idle"
        /\ \A q \in Proc : q # p => pc'[q] = pc[q] /\ call'[q] = call[q]
    BY <1>1, GotoSame, Labels
  <1>3. \A q \in Proc : pc'[q] = "setcfg" => pc[q] = "setcfg"
    BY <1>2
  <1> QED BY <1>1, <1>2, <1>3, CleanKeeps, SameCallsApart DEF Clean

\* Every step keeps the invariant.
LEMMA CheckStep ==
    ASSUME CheckInv, [Next]_vars
    PROVE  CheckInv'
  <1>1. Types'
    BY TypesStep DEF CheckInv
  <1>2. ASSUME ~shared'  PROVE Apart' /\ Clean'
    <2>1. ~shared
      <3>1. ASSUME NEW p \in Proc, Step(p)  PROVE shared' = shared
        <4>1. CASE Moves(p)
          BY <4>1, MovesEffect DEF CheckInv, ghosts
        <4>2. CASE ~Moves(p)
          BY <3>1, <4>2 DEF Step, Moves, Clear, Write, Read, Edit, Check, SetCfg, Activate,
             RunScript, Save, ghosts
        <4> QED BY <4>1, <4>2
      <3>2. ASSUME NEW p \in Proc, Killed(p)  PROVE shared' = shared
        BY <3>2 DEF Killed
      <3>3. ASSUME NEW p \in Proc, NEW r \in Request, NEW n \in Session, Call(p, r, n)
            PROVE  shared' = (shared \/ InUse(n))
        BY <3>3 DEF Call
      <3>4. CASE UNCHANGED vars
        BY <1>2, <3>4 DEF vars, ghosts
      <3> QED BY <1>2, <3>1, <3>2, <3>3, <3>4 DEF Next
    <2>2. Types /\ Apart /\ Clean
      BY <2>1 DEF CheckInv
    <2>3. CASE UNCHANGED vars
      BY <2>2, <2>3 DEF vars, files, store, Apart, Clean, Rejected
    <2> QED BY <1>2, <2>2, <2>3, CallClean, KilledClean, StepClean DEF Next
  <1> QED BY <1>1, <1>2 DEF CheckInv

\* For any processes, sessions, services and requests, with calls interleaved
\* and killed at any step: no value that fatlady.php rejects gets into the
\* configuration or the flash, unless two calls were given the same session
\* number (fatlady and SETCFG of postman.c, although the temporary file is
\* shared by all calls).
THEOREM PostmanChecked == Spec => []CheckedOnly
  <1>1. Init => CheckInv
    <2> SUFFICES ASSUME Init  PROVE CheckInv
      OBVIOUS
    <2>1. Apart
      BY DEF Init, Apart
    <2>2. Clean
      BY EmptyIsClean DEF Init, Clean
    <2> QED BY <2>1, <2>2, InitTypes DEF CheckInv
  <1>2. CheckInv => CheckedOnly
    BY DEF CheckInv, Clean, CheckedOnly
  <1> QED BY <1>1, <1>2, CheckStep, PTL DEF Spec

-----------------------------------------------------------------------------
(* The temporary file.                                                     *)

Open == {"test", "lock"} \cup Critical

FileTypes ==
    /\ dir \in Inode \cup {None}
    /\ fh \in [Proc -> Inode \cup {None}] /\ redirect \in [Proc -> Inode \cup {None}]

\* A call has the file open from fopen to fclose, and the shell it has started
\* from its redirection to the end of getcfg.php.
FilesOK ==
    /\ FileTypes
    /\ \A p \in Proc : (fh[p] # None) = (pc[p] \in Open)
    /\ \A p \in Proc : (redirect[p] # None) = (pc[p] = "write")

TypesInv ==
    /\ Types /\ FilesOK
    /\ stale \subseteq Service /\ lost \subseteq Service /\ calls \in 0..MaxCalls

\* A function on the processes has at most as many values as there are
\* processes.
LEMMA FewValues ==
    ASSUME NEW f, DOMAIN f = Proc
    PROVE  LET V == {f[q] : q \in Proc} IN
           /\ IsFiniteSet(V) /\ Cardinality(V) \in Nat
           /\ Cardinality(V) <= Cardinality(Proc)
  <1> DEFINE V == {f[q] : q \in Proc}
             g == [q \in Proc |-> f[q]]
  <1>1. g \in Surjection(Proc, V)
    BY DEF Surjection
  <1>2. IsFiniteSet(V) /\ Cardinality(V) <= Cardinality(Proc)
    BY <1>1, PostmanAssumption, FS_Surjection
  <1> QED BY <1>2, FS_CardinalityType

\* The kernel always has an inode for a file that is created: every process
\* has at most two open, so opening the name succeeds.
LEMMA OpenedInode ==
    ASSUME FileTypes
    PROVE  Opened \in Inode
  <1> DEFINE A == {fh[q] : q \in Proc}
             B == {redirect[q] : q \in Proc}
             N == Cardinality(Proc)
  <1>1. CASE dir # None
    BY <1>1 DEF Opened, FileTypes
  <1>2. CASE dir = None
    <2>1. N \in Nat
      BY PostmanAssumption, FS_CardinalityType
    <2>2. /\ IsFiniteSet(A) /\ Cardinality(A) \in Nat /\ Cardinality(A) <= N
          /\ IsFiniteSet(B) /\ Cardinality(B) \in Nat /\ Cardinality(B) <= N
      BY FewValues DEF FileTypes
    <2> HIDE DEF A, B
    <2>3. IsFiniteSet(A \cap B) /\ Cardinality(A \cap B) \in Nat
      BY <2>2, FS_Intersection, FS_CardinalityType
    <2>4. /\ IsFiniteSet(A \cup B)
          /\ Cardinality(A \cup B) = Cardinality(A) + Cardinality(B) - Cardinality(A \cap B)
      BY <2>2, FS_Union
    <2> HIDE DEF N
    <2>5. Cardinality(A \cup B) <= 2 * N
      BY <2>1, <2>2, <2>3, <2>4
    <2>6. IsFiniteSet(Inode) /\ Cardinality(Inode) = 2 * N + 1 /\ Inode \subseteq Nat /\ 0 \notin Inode
      <3>1. 2 * N + 1 \in Int /\ 1 \in Int /\ ~(1 > 2 * N + 1)
        BY <2>1
      <3>2. Inode = 1..(2 * N + 1)
        BY DEF Inode, N
      <3>3. IsFiniteSet(Inode) /\ Cardinality(Inode) = (2 * N + 1) - 1 + 1
        BY <3>1, <3>2, FS_Interval
      <3> QED BY <2>1, <3>2, <3>3
    <2>7. ~(Inode \subseteq A \cup B)
      <3> SUFFICES ASSUME Inode \subseteq A \cup B  PROVE FALSE
        OBVIOUS
      <3>1. Cardinality(Inode) <= Cardinality(A \cup B)
        BY <2>4, FS_Subset
      <3>2. Cardinality(A \cup B) \in Int
        BY <2>2, <2>3, <2>4
      <3> QED BY <2>1, <2>5, <2>6, <3>1, <3>2
    <2>8. Unused # {} /\ Unused \subseteq Inode
      BY <1>2, <2>6, <2>7 DEF Unused, None, A, B
    <2>9. \E x \in Unused : \A y \in Unused : x <= y
      BY <2>6, <2>8, LeastNat
    <2>10. Min(Unused) \in Unused
      BY <2>9 DEF Min
    <2> QED BY <1>2, <2>8, <2>10 DEF Opened
  <1> QED BY <1>1, <1>2

\* A call moves between two labels of which both or neither have the file
\* open.
LEMMA GotoFiles ==
    ASSUME Types, FilesOK, NEW p \in Proc, NEW l, pc' = [pc EXCEPT ![p] = l],
           l \in Open <=> pc[p] \in Open, l # "write", pc[p] # "write",
           fh' = fh, redirect' = redirect, dir' \in Inode \cup {None}
    PROVE  FilesOK'
  BY DEF Types, FilesOK, FileTypes

\* Every step of a call keeps the files.
LEMMA StepFiles ==
    ASSUME Types, FilesOK, NEW p \in Proc, Step(p)
    PROVE  FilesOK'
  <1>0. pc \in [Proc -> Label] /\ FileTypes /\ dir \in Inode \cup {None} /\ None \notin Inode
    BY DEF Types, FilesOK, FileTypes, None, Inode
  <1>1. CASE OpenTemp(p)
    <2>1. CASE Return(p) /\ UNCHANGED files
      BY <1>0, <1>1, <2>1, GotoFiles DEF OpenTemp, At, Return, Goto, files, Open, Critical
    <2>2. CASE fh' = [fh EXCEPT ![p] = Opened] /\ Truncate /\ Goto(p, "test")
               /\ UNCHANGED <<call, redirect>>
      <3>1. Opened \in Inode /\ pc[p] = "open"
        BY <1>0, <1>1, OpenedInode DEF OpenTemp, At
      <3> QED BY <1>0, <2>2, <3>1 DEF FilesOK, FileTypes, Truncate, Goto, Open
    <2> QED BY <1>1, <2>1, <2>2 DEF OpenTemp
  <1>2. CASE Shell(p)
    <2>1. Opened \in Inode /\ pc[p] = "shell"
      BY <1>0, <1>2, OpenedInode DEF Shell, At
    <2> QED BY <1>0, <1>2, <2>1 DEF Shell, FilesOK, FileTypes, Truncate, Goto, Open, Critical
  <1>3. CASE Write(p)
    BY <1>0, <1>3 DEF Write, At, FilesOK, FileTypes, Goto, Open, Critical
  <1>4. CASE Unlock(p)
    BY <1>0, <1>4 DEF Unlock, At, FilesOK, FileTypes, Goto, Open, Critical
  <1>5. CASE RemoveTemp(p)
    BY <1>0, <1>5, GotoFiles DEF RemoveTemp, At, Goto, Open, Critical
  <1>6. CASE Test(p) \/ Lock(p) \/ Read(p)
    BY <1>0, <1>6, GotoFiles DEF Test, Lock, Read, At, Goto, files, Open, Critical
  <1>7. CASE Clear(p) \/ Check(p) \/ Save(p)
    BY <1>0, <1>7, GotoFiles DEF Clear, Check, Save, Return, At, Goto, files, Open, Critical
  <1>8. CASE Edit(p) \/ SetCfg(p) \/ Activate(p) \/ RunScript(p)
    BY <1>0, <1>8, GotoFiles DEF Edit, SetCfg, Activate, RunScript, At, Goto, files, Open, Critical
  <1> QED BY <1>1, <1>2, <1>3, <1>4, <1>5, <1>6, <1>7, <1>8 DEF Step

\* The services that wait for a restart are services.
LEMMA StepServices ==
    ASSUME TypesInv, NEW p \in Proc, Step(p)
    PROVE  stale' \subseteq Service /\ lost' \subseteq Service /\ calls' \in 0..MaxCalls
  <1>1. CASE SetCfg(p)
    <2>1. pc[p] # "idle"
      BY <1>1 DEF SetCfg, At
    <2>2. session[call[p].number].service \in Service \cup {None}
      BY <2>1, CallTypes DEF TypesInv, Module
    <2> QED BY <1>1, <2>2 DEF SetCfg, TypesInv
  <1>2. CASE RunScript(p)
    BY <1>2 DEF RunScript, TypesInv
  <1>3. CASE Moves(p)
    BY <1>3, MovesEffect DEF TypesInv, store, ghosts
  <1>4. CASE Clear(p) \/ Write(p) \/ Read(p) \/ Edit(p) \/ Check(p) \/ Activate(p) \/ Save(p)
    BY <1>4 DEF Clear, Write, Read, Edit, Check, Activate, Save, store, ghosts, TypesInv
  <1> QED BY <1>1, <1>2, <1>3, <1>4 DEF Step, Moves

\* Every step keeps the types and the files.
LEMMA TypesInvStep ==
    ASSUME TypesInv, [Next]_vars
    PROVE  TypesInv'
  <1>1. Types'
    BY TypesStep DEF TypesInv
  <1>2. ASSUME NEW p \in Proc, NEW r \in Request, NEW n \in Session, Call(p, r, n)
        PROVE  TypesInv'
    <2>1. FilesOK'
      <3>1. \E l \in {"setcfg", "clear"} : pc' = [pc EXCEPT ![p] = l]
        BY <1>2 DEF Call, Goto
      <3>2. pc[p] = "idle" /\ UNCHANGED <<fh, redirect, dir>> /\ dir \in Inode \cup {None}
        BY <1>2 DEF Call, At, files, TypesInv, FilesOK, FileTypes
      <3> QED BY <3>1, <3>2, GotoFiles DEF TypesInv, Open, Critical
    <2>2. stale' \subseteq Service /\ lost' \subseteq Service
      BY <1>2 DEF Call, store, TypesInv
    <2>3. calls' \in 0..MaxCalls
      BY <1>2, PostmanAssumption DEF Call, TypesInv
    <2> QED BY <1>1, <2>1, <2>2, <2>3 DEF TypesInv
  <1>3. ASSUME NEW p \in Proc, Killed(p)  PROVE TypesInv'
    <2>1. pc' = [pc EXCEPT ![p] = "idle"] /\ pc \in [Proc -> Label] /\ script[p] \subseteq Service
      BY <1>3 DEF Killed, Return, Goto, TypesInv, Types
    <2>2. FilesOK'
      BY <1>3, <2>1 DEF Killed, TypesInv, FilesOK, FileTypes, Open, Critical
    <2> QED BY <1>1, <1>3, <2>1, <2>2 DEF Killed, TypesInv, store
  <1>4. ASSUME NEW p \in Proc, Step(p)  PROVE TypesInv'
    BY <1>1, <1>4, StepFiles, StepServices DEF TypesInv
  <1>5. CASE UNCHANGED vars
    BY <1>1, <1>5 DEF vars, files, store, ghosts, TypesInv, FilesOK, FileTypes
  <1> QED BY <1>2, <1>3, <1>4, <1>5 DEF Next

\* For any finite number of processes: the variables are well typed, every
\* creation of the temporary file finds an inode, and a call has the file open
\* exactly from fopen to fclose of postman.c, whoever removes or truncates the
\* name and whichever process is killed.
THEOREM PostmanTypes == Spec => []TypeOK
  <1>1. Init => TypesInv
    <2> SUFFICES ASSUME Init  PROVE TypesInv
      OBVIOUS
    <2>1. FilesOK
      BY DEF Init, FilesOK, FileTypes, Open, Critical
    <2> QED BY <2>1, InitTypes, PostmanAssumption DEF Init, TypesInv
  <1>2. TypesInv => TypeOK
    BY DEF TypesInv, Types, FilesOK, FileTypes, TypeOK, Label, Open
  <1> QED BY <1>1, <1>2, TypesInvStep, PTL DEF Spec

============================================================================
