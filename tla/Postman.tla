------------------------------ MODULE Postman ------------------------------
(***************************************************************************)
(* comlib/postman.c: programs change the configuration through postman(),  *)
(* or through GetCfg, SetValue and PassValue called one after the other.   *)
(* The configuration of a service is copied into a session of the database *)
(* by way of a temporary file, edited there, checked by fatlady.php and    *)
(* stored by wand.php, which also restarts the services that have changed. *)
(*                                                                         *)
(* Every system call and every database command is a step of its own; the  *)
(* calls run in processes of their own and may be killed at any moment.    *)
(* The database daemon handles one command after the other.                *)
(***************************************************************************)
EXTENDS Naturals, Sequences, SequencesExt, FiniteSetsExt

CONSTANTS
    Proc,      \* processes
    Session,   \* session numbers: what random() % 10000 may be
    Service,   \* services with a configuration
    Request,   \* the calls that programs make
    MaxCalls   \* bound on the calls

ASSUME PostmanAssumption ==
    /\ IsFiniteSet(Proc) /\ MaxCalls \in Nat
    /\ Request \subseteq [api : {"postman", "GetCfg"}, setcfg : {"set", "del", "no"},
                          activate : BOOLEAN, save : BOOLEAN,
                          service : Service, value : {"good", "bad"}]

VARIABLES
    pc,       \* where a call stands
    call,     \* arguments of the call and its session number
    fh,       \* the inode that fh refers to
    redirect, \* the inode that the shell's redirection refers to
    dir,      \* the inode that has the name XML_TEMP_FILE
    content,  \* document in the file of that name
    session,  \* /runtime/session/<number>/module
    config,   \* configuration of the services
    flash,    \* configuration that was saved
    dirty,    \* /runtime/services/dirty
    script,   \* services that wand_activate_<pid>.sh restarts
    calls,    \* number of calls so far
    stale,    \* services that have not been restarted since they were changed
    lost,     \* services whose restart a killed process has taken with it
    shared,   \* whether two calls have ever used one session at a time
    blank     \* whether a module without a service was ever stored

files == <<fh, redirect, dir, content>>
store == <<config, flash, dirty, stale>>
ghosts == <<calls, lost, shared, blank>>
vars == <<pc, call, files, session, store, script, ghosts>>

-----------------------------------------------------------------------------
None == 0
Inode == 1..(2 * Cardinality(Proc) + 1)

\* A value is what the caller wants to set: fatlady accepts good, rejects bad.
Value == {"good", "bad", "deleted"}
Module == [service : Service \cup {None}, value : Value]
Absent == [service |-> None, value |-> "deleted"]
Document == [number : Session, module : Module]
Empty == [number |-> None, module |-> Absent]  \* no document that can be parsed

Goto(p, l) == pc' = [pc EXCEPT ![p] = l]
At(p, l) == pc[p] = l
NoCall == [number |-> None]
Return(p) == Goto(p, "idle") /\ call' = [call EXCEPT ![p] = NoCall]

\* Unlinked files live as long as they are open.
Unused == Inode \ ({dir} \cup {fh[q] : q \in Proc} \cup {redirect[q] : q \in Proc})

\* open(XML_TEMP_FILE, O_WRONLY | O_CREAT | O_TRUNC)
Opened == IF dir = None THEN Min(Unused) ELSE dir
Truncate == dir' = Opened /\ content' = Empty

\* F_TEST and F_LOCK see the locks that other processes have on the inode.
Critical == {"shell", "write", "read", "unlock"}
Locked(p) == \E q \in Proc \ {p} : pc[q] \in Critical /\ fh[q] = fh[p]

-----------------------------------------------------------------------------
(* GetCfg, and the first half of postman.                                  *)

InUse(n) == \E q \in Proc : call[q].number = n

\* The session number is random() after srand(time(NULL)): two calls within a
\* second get the same one.  A call that sets nothing goes on with the wand.
Call(p, r, n) ==
    /\ At(p, "idle") /\ calls < MaxCalls
    /\ calls' = calls + 1
    /\ call' = [call EXCEPT ![p] = [req |-> r, number |-> n]]
    /\ shared' = (shared \/ InUse(n))
    /\ Goto(p, IF r.setcfg = "no" /\ r.api = "postman" THEN "setcfg" ELSE "clear")
    /\ UNCHANGED <<files, session, store, script, lost, blank>>

\* The signature is read, or the call fails; then the session is cleared.
Clear(p) ==
    /\ At(p, "clear")
    /\ \/ Return(p) /\ UNCHANGED session
       \/ /\ session' = [session EXCEPT ![call[p].number] = Absent]
          /\ Goto(p, "open") /\ UNCHANGED call
    /\ UNCHANGED <<files, store, script, ghosts>>

\* fopen with mode "w" empties the file, whoever uses it, or fails.
OpenTemp(p) ==
    /\ At(p, "open")
    /\ \/ Return(p) /\ UNCHANGED files
       \/ /\ fh' = [fh EXCEPT ![p] = Opened] /\ Truncate
          /\ Goto(p, "test") /\ UNCHANGED <<call, redirect>>
    /\ UNCHANGED <<session, store, script, ghosts>>

\* Mutant: the loop waits while the file is not locked.
TestInverted(p) ==
    /\ At(p, "test") /\ Locked(p)
    /\ Goto(p, "lock")
    /\ UNCHANGED <<call, files, session, store, script, ghosts>>
\* The busy loop of lockf(F_TEST) ends.
Test(p) ==
    /\ At(p, "test") /\ ~Locked(p)
    /\ Goto(p, "lock")
    /\ UNCHANGED <<call, files, session, store, script, ghosts>>

\* lockf(F_LOCK)
Lock(p) ==
    /\ At(p, "lock") /\ ~Locked(p)
    /\ Goto(p, "shell")
    /\ UNCHANGED <<call, files, session, store, script, ghosts>>

\* The shell opens the file again, by its name.
Shell(p) ==
    /\ At(p, "shell")
    /\ redirect' = [redirect EXCEPT ![p] = Opened] /\ Truncate
    /\ Goto(p, "write")
    /\ UNCHANGED <<call, fh, session, store, script, ghosts>>

\* getcfg.php writes the session's document; a second writer of the same file
\* may leave a mixture.  The script that postman names is not in the tree.
Write(p) ==
    /\ At(p, "write")
    /\ LET r == call[p].req
           doc == [number |-> call[p].number,
                   module |-> [service |-> r.service, value |-> config[r.service]]]
       IN content' \in IF redirect[p] # dir THEN {content}
                       ELSE IF r.api = "postman" THEN {Empty}
                       ELSE IF content = Empty THEN {doc} ELSE {doc, Empty}
    /\ redirect' = [redirect EXCEPT ![p] = None]
    /\ Goto(p, "read")
    /\ UNCHANGED <<call, fh, dir, session, store, script, ghosts>>

\* The daemon reads the file of that name into the session of the document.
Read(p) ==
    /\ At(p, "read")
    /\ session' = IF dir = None \/ content = Empty THEN session
                  ELSE [session EXCEPT ![content.number] = content.module]
    /\ Goto(p, "unlock")
    /\ UNCHANGED <<call, files, store, script, ghosts>>

\* Mutant: the file is not closed.
UnlockLeaks(p) ==
    /\ At(p, "unlock")
    /\ Goto(p, "remove")
    /\ UNCHANGED <<call, files, session, store, script, ghosts>>
\* lockf(F_ULOCK) and fclose
Unlock(p) ==
    /\ At(p, "unlock")
    /\ fh' = [fh EXCEPT ![p] = None]
    /\ Goto(p, "remove")
    /\ UNCHANGED <<call, redirect, dir, content, session, store, script, ghosts>>

\* The name is removed, whoever has the file open or locked.
RemoveTemp(p) ==
    /\ At(p, "remove")
    /\ dir' = None /\ content' = Empty
    /\ Goto(p, "edit")
    /\ UNCHANGED <<call, fh, redirect, session, store, script, ghosts>>

-----------------------------------------------------------------------------
(* SetValue, PassValue, and the second half of postman.                    *)

\* xmldbc_set creates what is not there; xmldbc_del does not.
Edit(p) ==
    /\ At(p, "edit")
    /\ LET r == call[p].req
           n == call[p].number
       IN session' =
            CASE r.setcfg = "set" -> [session EXCEPT ![n].value = r.value]
              [] r.setcfg = "del" -> [session EXCEPT ![n].value = "deleted"]
              [] OTHER -> session
    /\ Goto(p, "check")
    /\ UNCHANGED <<call, files, store, script, ghosts>>

\* Mutant: the answer of fatlady is not looked at.
CheckIgnored(p) ==
    /\ At(p, "check")
    /\ Goto(p, "setcfg")
    /\ UNCHANGED <<call, files, session, store, script, ghosts>>
\* fatlady.php looks at the modules that name a service.  It deletes the
\* session that it rejects, and the call fails.
Check(p) ==
    /\ At(p, "check")
    /\ LET n == call[p].number
       IN IF session[n].service # None /\ session[n].value = "bad"
          THEN Return(p) /\ session' = [session EXCEPT ![n] = Absent]
          ELSE Goto(p, "setcfg") /\ UNCHANGED <<call, session>>
    /\ UNCHANGED <<files, store, script, ghosts>>

\* PassValue stores nothing after a deletion.
Stores(r) == r.setcfg = "set" \/ (r.setcfg = "del" /\ r.api = "postman")

\* wand.php, ACTION=SETCFG: the service becomes dirty, its configuration is
\* stored and the session is deleted.
SetCfg(p) ==
    /\ At(p, "setcfg")
    /\ LET n == call[p].number
           svc == session[n].service
       IN IF Stores(call[p].req) /\ session[n] # Absent
          THEN /\ dirty' = IF Contains(dirty, svc) THEN dirty ELSE Append(dirty, svc)
               /\ config' = IF svc = None THEN config
                            ELSE [config EXCEPT ![svc] = session[n].value]
               /\ stale' = stale \cup ({svc} \ {None})
               /\ blank' = (blank \/ svc = None)
               /\ session' = [session EXCEPT ![n] = Absent]
          ELSE UNCHANGED <<dirty, config, stale, blank, session>>
    /\ Goto(p, "activate")
    /\ UNCHANGED <<call, files, flash, script, calls, lost, shared>>

\* The dirty services up to the first entry without a name.
Named == {dirty[k] : k \in {j \in DOMAIN dirty : \A i \in 1..j : dirty[i] # None}}

\* Mutant: only the service of the call is restarted.
ActivateOwn(p) ==
    /\ At(p, "activate")
    /\ IF call[p].req.activate
       THEN /\ script' = [script EXCEPT ![p] = Named \cap {call[p].req.service}]
            /\ dirty' = << >>
            /\ Goto(p, "run")
       ELSE Goto(p, "save") /\ UNCHANGED <<script, dirty>>
    /\ UNCHANGED <<call, files, session, config, flash, stale, ghosts>>
\* wand.php, ACTION=ACTIVATE: the script is written and the list is emptied.
Activate(p) ==
    /\ At(p, "activate")
    /\ IF call[p].req.activate
       THEN /\ script' = [script EXCEPT ![p] = Named]
            /\ dirty' = << >>
            /\ Goto(p, "run")
       ELSE Goto(p, "save") /\ UNCHANGED <<script, dirty>>
    /\ UNCHANGED <<call, files, session, config, flash, stale, ghosts>>

\* The script restarts the services and removes itself.
RunScript(p) ==
    /\ At(p, "run")
    /\ stale' = stale \ script[p] /\ lost' = lost \ script[p]
    /\ script' = [script EXCEPT ![p] = {}]
    /\ Goto(p, "save")
    /\ UNCHANGED <<call, files, session, config, flash, dirty, calls, shared, blank>>

\* dbsave.sh, and the call returns.
Save(p) ==
    /\ At(p, "save")
    /\ flash' = IF call[p].req.save THEN config ELSE flash
    /\ Return(p)
    /\ UNCHANGED <<files, session, config, dirty, stale, script, ghosts>>

-----------------------------------------------------------------------------
\* The process is killed: the kernel closes its files and drops its locks.
Killed(p) ==
    /\ pc[p] # "idle"
    /\ Return(p)
    /\ fh' = [fh EXCEPT ![p] = None] /\ redirect' = [redirect EXCEPT ![p] = None]
    /\ lost' = lost \cup script[p] /\ script' = [script EXCEPT ![p] = {}]
    /\ UNCHANGED <<dir, content, session, store, calls, shared, blank>>

Init ==
    /\ pc = [p \in Proc |-> "idle"]
    /\ call = [p \in Proc |-> NoCall]
    /\ fh = [p \in Proc |-> None] /\ redirect = [p \in Proc |-> None]
    /\ dir = None /\ content = Empty
    /\ session = [n \in Session |-> Absent]
    /\ config = [s \in Service |-> "good"] /\ flash = config
    /\ dirty = << >> /\ script = [p \in Proc |-> {}]
    /\ calls = 0 /\ stale = {} /\ lost = {} /\ shared = FALSE /\ blank = FALSE

Step(p) ==
    \/ Clear(p) \/ OpenTemp(p) \/ Test(p) \/ Lock(p)
    \/ Shell(p) \/ Write(p) \/ Read(p) \/ Unlock(p) \/ RemoveTemp(p)
    \/ Edit(p) \/ Check(p) \/ SetCfg(p) \/ Activate(p) \/ RunScript(p) \/ Save(p)

Next ==
    \E p \in Proc :
        \/ \E r \in Request, n \in Session : Call(p, r, n)
        \/ Step(p) \/ Killed(p)

Spec == Init /\ [][Next]_vars

\* A process that is not waiting for the lock runs on.
FairSpec == Spec /\ \A p \in Proc : WF_vars(Step(p))

-----------------------------------------------------------------------------
(* Properties.                                                             *)

\* Types, and the files of a call: it has the temporary file open exactly from
\* fopen to fclose, on every path.
TypeOK ==
    /\ pc \in [Proc -> {"idle", "clear", "open", "test", "lock", "remove", "edit",
                        "check", "setcfg", "activate", "run", "save"} \cup Critical]
    /\ dir \in Inode \cup {None} /\ content \in Document \cup {Empty}
    /\ \A p \in Proc :
         /\ fh[p] \in Inode \cup {None} /\ redirect[p] \in Inode \cup {None}
         /\ (fh[p] # None) = (pc[p] \in Critical \cup {"test", "lock"})
         /\ (redirect[p] # None) = (pc[p] = "write")
    /\ session \in [Session -> Module]
    /\ config \in [Service -> Value] /\ flash \in [Service -> Value]
    /\ dirty \in Seq(Service \cup {None}) /\ script \in [Proc -> SUBSET Service]
    /\ stale \subseteq Service /\ lost \subseteq Service /\ calls \in 0..MaxCalls

\* Only checked settings are stored: no interleaving of calls, and no call that
\* is killed on its way, brings a value into the configuration or the flash
\* that fatlady rejects, unless two calls were given the same session.
CheckedOnly ==
    (\E s \in Service : config[s] = "bad" \/ flash[s] = "bad") => shared

\* Every changed service gets its restart: it is in the dirty list or in a
\* script that is about to run, whichever call has taken it from the list;
\* unless that process was killed, or an entry without a name cut the list.
RestartPending ==
    blank \/ stale \subseteq ToSet(dirty) \cup lost \cup UNION {script[p] : p \in Proc}

\* "Only one instance can run at the same time."
OneInstance ==
    \A p, q \in Proc : pc[p] \in Critical /\ pc[q] \in Critical => p = q

\* Every call returns, although others are killed while they have the lock.
CallsReturn == \A p \in Proc : pc[p] # "idle" ~> pc[p] = "idle"

=============================================================================
