------------------------------- MODULE KProcess -------------------------------
(***************************************************************************)
(* A process and its threads from KProcess::Run to the end of their        *)
(* termination: the creation, start and exit of threads, the handle table, *)
(* the reference counts of what it refers to, KProcess::Terminate and the  *)
(* worker that finishes the termination of threads.                        *)
(*                                                                         *)
(* What happens under one scheduler lock, or under one holding of a light  *)
(* lock that nothing waits in, is one step.  Of KProcess::Terminate there  *)
(* is one at a time, by a thread of the process, a service's thread or the *)
(* host, so that `term' is where it is.  Closing the last reference to a   *)
(* client session takes several steps: `destroying' is the thread that     *)
(* takes them and does nothing else meanwhile.                             *)
(***************************************************************************)
EXTENDS Integers, Sequences, FiniteSets, Functions

CONSTANTS
    Threads,            \* the process's threads
    MainThread,
    Client,             \* its client session
    Server, Host,       \* a service's thread, and the emulator's
    Null

ASSUME ProcessAssumption ==
    /\ IsFiniteSet(Threads) /\ MainThread \in Threads
    /\ Threads \cap {Client, Server, Host, Null} = {}
    /\ Client \notin {Server, Host, Null} /\ Server \notin {Host, Null} /\ Host # Null

VARIABLES
    process,            \* KProcess::m_state
    thread,             \* the threads
    running,            \* m_num_running_threads
    refs,               \* m_ref_count of the threads and of the client session
    table,              \* the handle table: open, its entries, and those Finalize has yet to close
    tasks,              \* the worker's queue
    term,               \* KProcess::Terminate: by whom, where it is, and the child it terminates
    destroying          \* the thread that destroys the client session

processVars == <<process, thread, running, refs, table, tasks, term, destroying>>

Objects == Threads \cup {Client}

NewThread ==
    [state |-> "None", pc |-> "none", target |-> Null, requested |-> FALSE, signaled |-> FALSE,
     suspended |-> "no"]

ProcessInit ==
    /\ process = "Created"
    /\ thread = [t \in Threads |-> NewThread]
    /\ running = 0
    /\ refs = [o \in Objects |-> 0]
    /\ table = [open |-> FALSE, entries |-> {}, closing |-> {}]
    /\ tasks = <<>>
    /\ term = [by |-> Null, pc |-> "none", child |-> Null]
    /\ destroying = Null

-----------------------------------------------------------------------------
(* References: KAutoObject::Open and Close.                                *)

Opened(r, o) == [r EXCEPT ![o] = @ + 1]
Closed(r, o) == [r EXCEPT ![o] = @ - 1]

(* Close by e of an object that may be the client session.                 *)
Close(e, o) ==
    /\ refs' = Closed(refs, o)
    /\ destroying' = IF o = Client /\ refs[o] = 1 THEN e ELSE destroying

(* Destroying a thread takes it off the process's list.                    *)
ThreadList == {t \in Threads : refs[t] > 0}

Active(t) == thread[t].state = "Runnable" /\ thread[t].suspended # "yes"
CanStep(e) == destroying # e /\ (e \in Threads => Active(e))
At(t, pc) == thread[t].pc = pc /\ CanStep(t)
GoTo(t, pc) == thread' = [thread EXCEPT ![t].pc = pc]

(* A thread is on its way out from the request, or once it is terminated.  *)
IsTerminationRequested(t) == thread[t].requested \/ thread[t].state = "Terminated"

-----------------------------------------------------------------------------
(* Creation and start of threads, and closing of handles.                  *)

(* KProcess::Run, under m_state_lock: the table has the main thread, and   *)
(* that has a reference because it runs.                                   *)
Run ==
    /\ process = "Created"
    /\ process' = "Running"
    /\ thread' = [thread EXCEPT ![MainThread].state = "Runnable", ![MainThread].pc = "guest"]
    /\ running' = 1
    /\ refs' = [refs EXCEPT ![MainThread] = 2]
    /\ table' = [table EXCEPT !.open = TRUE, !.entries = {MainThread}]
    /\ UNCHANGED <<tasks, term, destroying>>

(* A thread that is to execute on in the guest is at the "end" of its way  *)
(* instead if it has been asked to terminate (PhysicalCore::RunThread).  A *)
(* thread that is asked while in the guest may yet make one call.          *)
Onward(t) == IF thread[t].requested THEN "end" ELSE "guest"

Interrupted(t) ==
    /\ At(t, "guest") /\ thread[t].requested
    /\ GoTo(t, Onward(t))
    /\ UNCHANGED <<process, running, refs, table, tasks, term, destroying>>

(* CreateThread up to the registration of the new thread.                  *)
CreateThread(c, t) ==
    /\ At(c, "guest") /\ thread[t].state = "None"
    /\ thread' = [thread EXCEPT ![c].pc = "adding", ![c].target = t, ![t].state = "Initialized"]
    /\ refs' = Opened(refs, t)
    /\ UNCHANGED <<process, running, table, tasks, term, destroying>>

(* The rest of it: the handle, unless the table is finalized, and the end  *)
(* of CreateThread's own reference.                                        *)
AddThread(c) ==
    LET t == thread[c].target
    IN  /\ At(c, "adding")
        /\ table' = IF table.open THEN [table EXCEPT !.entries = @ \cup {t}] ELSE table
        /\ refs' = IF table.open THEN Closed(Opened(refs, t), t) ELSE Closed(refs, t)
        /\ thread' = [thread EXCEPT ![c].pc = Onward(c), ![c].target = Null]
        /\ UNCHANGED <<process, running, tasks, term, destroying>>

(* StartThread looks the handle up.                                        *)
StartThread(c, t) ==
    /\ At(c, "guest") /\ t \in table.entries /\ t # c
    /\ thread' = [thread EXCEPT ![c].pc = "starting", ![c].target = t]
    /\ refs' = Opened(refs, t)
    /\ UNCHANGED <<process, running, table, tasks, term, destroying>>

\* Mutant: the thread runs without a reference of its own.
RunThreadUnopened(c) ==
    LET t == thread[c].target
    IN  /\ At(c, "starting")
        /\ thread' = [thread EXCEPT ![c].pc = "guest", ![c].target = Null,
                                    ![t].state = "Runnable", ![t].pc = "guest"]
        /\ running' = running + 1
        /\ refs' = Closed(refs, t)
        /\ UNCHANGED <<process, table, tasks, term, destroying>>

(* KThread::Run, and the end of StartThread's reference.                   *)
RunThread(c) ==
    LET t == thread[c].target
        ok == ~IsTerminationRequested(t) /\ ~IsTerminationRequested(c)
              /\ thread[t].state = "Initialized"
        back == [thread EXCEPT ![c].pc = Onward(c), ![c].target = Null]
    IN  /\ At(c, "starting")
        /\ IF ok
           THEN /\ thread' = [back EXCEPT ![t].state = "Runnable", ![t].pc = "guest"]
                /\ running' = running + 1
                /\ refs' = Closed(Opened(refs, t), t)
           ELSE thread' = back /\ refs' = Closed(refs, t) /\ UNCHANGED running
        /\ UNCHANGED <<process, table, tasks, term, destroying>>

CloseHandle(t, o) ==
    /\ At(t, "guest") /\ o \in table.entries
    /\ table' = [table EXCEPT !.entries = @ \ {o}]
    /\ Close(t, o)
    /\ UNCHANGED <<process, thread, running, tasks, term>>

-----------------------------------------------------------------------------
(* Termination of threads.                                                 *)

\* Mutant: a thread that waits is left waiting.
RequestTerminateUnwoken(r) ==
    IF r.requested
    THEN r
    ELSE IF r.state = "Initialized"
         THEN [r EXCEPT !.requested = TRUE, !.state = "Terminated"]
         ELSE [r EXCEPT !.requested = TRUE, !.suspended = IF @ = "yes" THEN "never" ELSE @]

(* RequestTerminate: a thread that has not been started is terminated, one *)
(* that waits is woken, and a suspended one continues for good.            *)
RequestTerminate(r) ==
    IF r.requested
    THEN r
    ELSE IF r.state = "Initialized"
         THEN [r EXCEPT !.requested = TRUE, !.state = "Terminated"]
         ELSE [r EXCEPT !.requested = TRUE,
                        !.suspended = IF @ = "yes" THEN "never" ELSE @,
                        !.state = IF @ = "Waiting" THEN "Runnable" ELSE @,
                        !.pc = IF r.state = "Waiting" THEN "returning" ELSE @]

(* KThread::Exit, of a thread that wants to or that is asked to terminate; *)
(* with the last thread KProcess::Terminate begins.                        *)
Exit(t) ==
    LET last == running = 1 /\ process = "Running"
    IN  /\ At(t, "guest") \/ At(t, "end")
        /\ running' = running - 1
        /\ process' = IF last THEN "Terminating" ELSE process
        /\ term' = IF last THEN [by |-> t, pc |-> "request", child |-> Null] ELSE term
        /\ GoTo(t, "exiting")
        /\ UNCHANGED <<refs, table, tasks, destroying>>

(* KThread::StartTermination, and the worker's task.                       *)
ExitFinish(t) ==
    /\ At(t, "exiting") /\ (term.by = t => term.pc = "done")
    /\ thread' = [thread EXCEPT ![t].state = "Terminated", ![t].pc = "gone", ![t].suspended = "never"]
    /\ tasks' = Append(tasks, t)
    /\ UNCHANGED <<process, running, refs, table, term, destroying>>

(* The worker: KThread::FinishTermination signals the thread and closes    *)
(* the reference that it has had since it began to run.                    *)
FinishTermination ==
    /\ tasks # <<>>
    /\ tasks' = Tail(tasks)
    /\ thread' = [thread EXCEPT ![Head(tasks)].signaled = TRUE]
    /\ refs' = Closed(refs, Head(tasks))
    /\ UNCHANGED <<process, running, table, term, destroying>>

-----------------------------------------------------------------------------
(* KProcess::Terminate.                                                    *)

Terminating(pc) == term.pc = pc /\ CanStep(term.by)

(* The check and the change of the state; another Terminate has been there *)
(* already if the process does not run.                                    *)
BeginTerminate(e) ==
    /\ process' = IF process = "Running" THEN "Terminating" ELSE process
    /\ term' = IF process = "Running" THEN [by |-> e, pc |-> "request", child |-> Null] ELSE term
    /\ UNCHANGED <<thread, running, refs, table, tasks, destroying>>

\* Mutant: a child that has been asked to terminate counts as terminated.
ChildrenUnasked == {t \in ThreadList \ {term.by} : ~IsTerminationRequested(t)}

Children == {t \in ThreadList \ {term.by} : thread[t].state # "Terminated"}

(* TerminateChildren requests every child to terminate,                    *)
TerminateRequest ==
    /\ Terminating("request")
    /\ thread' = [t \in Threads |->
                     IF t \in Children THEN RequestTerminate(thread[t]) ELSE thread[t]]
    /\ term' = [term EXCEPT !.pc = "pick"]
    /\ UNCHANGED <<process, running, refs, table, tasks, destroying>>

(* then takes one child after the other                                    *)
TerminatePick ==
    /\ Terminating("pick")
    /\ \/ Children = {} /\ term' = [term EXCEPT !.pc = "table"] /\ UNCHANGED refs
       \/ \E t \in Children : /\ term' = [term EXCEPT !.pc = "child", !.child = t]
                              /\ refs' = Opened(refs, t)
    /\ UNCHANGED <<process, thread, running, table, tasks, destroying>>

(* and, in KThread::Terminate, requests again                              *)
TerminateChild ==
    LET t == term.child
        r == RequestTerminate(thread[t])
    IN  /\ Terminating("child")
        /\ thread' = [thread EXCEPT ![t] = r]
        /\ IF r.state = "Terminated"
           THEN term' = [term EXCEPT !.pc = "pick", !.child = Null] /\ refs' = Closed(refs, t)
           ELSE term' = [term EXCEPT !.pc = "wait"] /\ UNCHANGED refs
        /\ UNCHANGED <<process, running, table, tasks, destroying>>

(* and waits for it.  A terminator that is itself asked to terminate would *)
(* give up here and leave the rest to the worker; TerminationComplete      *)
(* says that there is none.                                                *)
TerminateWait ==
    /\ Terminating("wait") /\ thread[term.child].signaled
    /\ term' = [term EXCEPT !.pc = "pick", !.child = Null]
    /\ refs' = Closed(refs, term.child)
    /\ UNCHANGED <<process, thread, running, table, tasks, destroying>>

(* KHandleTable::Finalize: the table is emptied at once, and its objects   *)
(* are closed one by one.                                                  *)
TerminateTable ==
    /\ Terminating("table")
    /\ table' = [open |-> FALSE, entries |-> {}, closing |-> table.entries]
    /\ term' = [term EXCEPT !.pc = "entries"]
    /\ UNCHANGED <<process, thread, running, refs, tasks, destroying>>

TerminateEntry(o) ==
    /\ Terminating("entries") /\ o \in table.closing
    /\ table' = [table EXCEPT !.closing = @ \ {o}]
    /\ Close(term.by, o)
    /\ UNCHANGED <<process, thread, running, tasks, term>>

(* KProcess::FinishTermination.                                            *)
TerminateFinish ==
    /\ Terminating("entries") /\ table.closing = {}
    /\ process' = "Terminated"
    /\ term' = [term EXCEPT !.pc = "done"]
    /\ UNCHANGED <<thread, running, refs, table, tasks, destroying>>

Terminate ==
    \/ TerminateRequest \/ TerminatePick \/ TerminateChild \/ TerminateWait
    \/ TerminateTable \/ TerminateFinish
    \/ \E o \in Objects : TerminateEntry(o)

-----------------------------------------------------------------------------
(* RequestSuspend and Resume of one of the host's suspensions.             *)

RequestSuspend(r) == [r EXCEPT !.suspended = IF @ = "no" THEN "yes" ELSE @]
Resume(r) == [r EXCEPT !.suspended = IF @ = "yes" THEN "no" ELSE @]
===============================================================================
