---------------------------- MODULE ServerManager ----------------------------
(***************************************************************************)
(* A service's ServerManager, and its composition with a process that uses *)
(* the service, the worker, and the host, which suspends the emulation and *)
(* shuts it down.  The manager has one thread, which waits for its wake-up *)
(* event, its port, its deferral event and the session, and serves what is *)
(* signaled.  A request's handler may answer, defer the request until some *)
(* service is registered, close the session, or terminate the process, as  *)
(* ISelfController::Exit does for the thread that called it.               *)
(***************************************************************************)
EXTENDS KSession

VARIABLES
    server,             \* the ServerManager and its thread
    registered,         \* the service for which requests are deferred is registered
    host                \* the emulator's thread

vars == <<processVars, sessionVars, server, registered, host>>

Holders == {"wakeup", "port", "deferral", "session"}
NoHolder == "none"

Init ==
    /\ ProcessInit /\ SessionInit
    /\ server = [pc |-> "link", multiWait |-> <<>>, deferredList |-> <<"wakeup", "deferral", "port">>,
                 woken |-> NoHolder, wakeup |-> TRUE, deferral |-> FALSE, deferred |-> FALSE,
                 retry |-> FALSE, replying |-> Null, closing |-> FALSE, stop |-> FALSE]
    /\ registered = FALSE
    /\ host = "running"

-----------------------------------------------------------------------------
(* What the manager waits for.                                             *)

IsSignaled(sv, s, h) ==
    \/ h = "wakeup" /\ sv.wakeup
    \/ h = "deferral" /\ sv.deferral
    \/ h = "port" /\ s.pending
    \/ h = "session" /\ SessionSignaled(s)

(* NotifyAvailable of h: the manager's thread is woken if it waits for it. *)
NotifyAvailable(sv, s, h) ==
    IF sv.pc = "waiting" /\ sv.woken = NoHolder /\ h \in Range(sv.multiWait) /\ IsSignaled(sv, s, h)
    THEN [sv EXCEPT !.woken = h]
    ELSE sv

(* KEvent::Signal of the two events.                                       *)
SignalWakeup(sv) ==
    IF sv.wakeup THEN sv ELSE NotifyAvailable([sv EXCEPT !.wakeup = TRUE], session, "wakeup")
SignalDeferral(sv) ==
    IF sv.deferral THEN sv ELSE NotifyAvailable([sv EXCEPT !.deferral = TRUE], session, "deferral")

LinkToDeferredList(sv, h) ==
    SignalWakeup([sv EXCEPT !.deferredList = Append(@, h)])

ServerAt(pc) == server.pc = pc
ServerTo(pc) == server' = [server EXCEPT !.pc = pc]

-----------------------------------------------------------------------------
(* WaitSignaled.                                                           *)

(* LinkDeferred, and the end of the loop if the manager is to stop.        *)
LinkDeferred ==
    /\ ServerAt("link")
    /\ server' = [server EXCEPT !.multiWait = @ \o server.deferredList, !.deferredList = <<>>,
                                !.pc = IF server.stop THEN "stopped" ELSE "select"]
    /\ UNCHANGED <<processVars, sessionVars, registered, host>>

(* A list without its i-th element.                                        *)
Unlinked(list, i) == [j \in 1..(Len(list) - 1) |-> IF j < i THEN list[j] ELSE list[j + 1]]

(* What is selected is unlinked and served, except for the wake-up event.  *)
Selected(i) ==
    LET h == server.multiWait[i]
    IN  server' = IF h = "wakeup"
                  THEN [server EXCEPT !.pc = "clear", !.woken = NoHolder]
                  ELSE [server EXCEPT !.pc = h, !.woken = NoHolder, !.multiWait = Unlinked(@, i)]

(* WaitAny: the first that is signaled, or the one that becomes so.        *)
WaitAny ==
    /\ ServerAt("select")
    /\ LET signaled == {i \in DOMAIN server.multiWait : IsSignaled(server, session, server.multiWait[i])}
       IN  \/ signaled = {} /\ ServerTo("waiting")
           \/ \E i \in signaled : (\A j \in signaled : i <= j) /\ Selected(i)
    /\ UNCHANGED <<processVars, sessionVars, registered, host>>

Woken ==
    /\ ServerAt("waiting")
    /\ \E i \in DOMAIN server.multiWait : server.multiWait[i] = server.woken /\ Selected(i)
    /\ UNCHANGED <<processVars, sessionVars, registered, host>>

ClearWakeup ==
    /\ ServerAt("clear")
    /\ server' = [server EXCEPT !.wakeup = FALSE, !.pc = "link"]
    /\ UNCHANGED <<processVars, sessionVars, registered, host>>

-----------------------------------------------------------------------------
(* Process.                                                                *)

(* OnPortEvent accepts the session, and links it and the port.             *)
OnPortEvent ==
    /\ ServerAt("port")
    /\ session' = [session EXCEPT !.pending = FALSE]
    /\ server' = [LinkToDeferredList(LinkToDeferredList(server, "session"), "port") EXCEPT !.pc = "link"]
    /\ UNCHANGED <<processVars, request, registered, host>>

(* OnSessionEvent: a closed session is destroyed, otherwise its first      *)
(* request is received.                                                    *)
OnSessionEvent ==
    /\ ServerAt("session")
    /\ IF IsClosed(session)
       THEN /\ session' = [session EXCEPT !.server = "destroyed"]
            /\ ServerTo("destroy")
       ELSE session' = Received(session) /\ ServerTo("handle")
    /\ UNCHANGED <<processVars, request, registered, host>>

(* CompleteSyncRequest: the handler returns,                               *)
HandlerReturns(closing) ==
    /\ ServerAt("handle") /\ (server.retry => registered /\ ~closing)
    /\ server' = [server EXCEPT !.pc = "reply", !.retry = FALSE, !.closing = closing]
    /\ UNCHANGED <<processVars, sessionVars, registered, host>>

(* or defers the request and the session is kept,                          *)
HandlerDefers ==
    /\ ServerAt("handle") /\ ~registered
    /\ ServerTo("defer")
    /\ UNCHANGED <<processVars, sessionVars, registered, host>>

KeepDeferred ==
    /\ ServerAt("defer")
    /\ server' = [server EXCEPT !.pc = "link", !.deferred = TRUE]
    /\ UNCHANGED <<processVars, sessionVars, registered, host>>

(* or terminates the process before it returns.                            *)
HandlerTerminates ==
    /\ ServerAt("handle") /\ ~server.retry
    /\ BeginTerminate(Server)
    /\ ServerTo("terminate")
    /\ UNCHANGED <<sessionVars, registered, host>>

HandlerTerminated ==
    /\ ServerAt("terminate") /\ (term.by = Server => term.pc = "done")
    /\ server' = [server EXCEPT !.pc = "reply", !.closing = FALSE]
    /\ UNCHANGED <<processVars, sessionVars, registered, host>>

(* SendReply takes the current request                                     *)
SendReply ==
    /\ ServerAt("reply")
    /\ session' = [session EXCEPT !.current = Null]
    /\ server' = [server EXCEPT !.pc = "replied", !.replying = session.current]
    /\ UNCHANGED <<processVars, request, registered, host>>

(* and ends it.  A closed session is destroyed, another waited for again.  *)
ReplyEnds ==
    LET t == server.replying
        closed == ~request[t].bound \/ IsClosed(session) \/ server.closing
    IN  /\ ServerAt("replied")
        /\ EndRequest(t)
        /\ server' = IF closed
                     THEN [server EXCEPT !.pc = "destroy", !.closing = FALSE, !.replying = Null]
                     ELSE [LinkToDeferredList(server, "session") EXCEPT !.pc = "link", !.replying = Null]
        /\ session' = IF closed THEN [session EXCEPT !.server = "destroyed"] ELSE session
        /\ UNCHANGED <<process, running, table, tasks, term, destroying, registered, host>>

(* DestroySession ends with KServerSession::Destroy.                       *)
Destroyed ==
    /\ ServerAt("destroy") /\ session.server = "closed"
    /\ ServerTo("link")
    /\ UNCHANGED <<processVars, sessionVars, registered, host>>

(* OnDeferralEvent: the event is cleared and linked again, and the         *)
(* deferred request tried again.                                           *)
OnDeferralEvent ==
    /\ ServerAt("deferral")
    /\ server' = [LinkToDeferredList([server EXCEPT !.deferral = FALSE], "deferral") EXCEPT
                     !.pc = IF server.deferred THEN "handle" ELSE "link",
                     !.retry = server.deferred, !.deferred = FALSE]
    /\ UNCHANGED <<processVars, sessionVars, registered, host>>

ServerStep ==
    \/ LinkDeferred \/ WaitAny \/ Woken \/ ClearWakeup
    \/ OnPortEvent \/ OnSessionEvent
    \/ \E closing \in BOOLEAN : HandlerReturns(closing)
    \/ HandlerDefers \/ KeepDeferred \/ HandlerTerminates \/ HandlerTerminated
    \/ SendReply \/ ReplyEnds \/ Destroyed \/ OnDeferralEvent

(* ServiceManager::RegisterService, under its lock, signals the deferral   *)
(* event of the manager that serves sm.  A service that is registered      *)
(* before anyone asks for it is one for which no handler defers.           *)
RegisterService ==
    /\ ~registered /\ (server.pc \in {"handle", "defer"} \/ server.deferred)
    /\ registered' = TRUE
    /\ server' = SignalDeferral(server)
    /\ UNCHANGED <<processVars, sessionVars, host>>

-----------------------------------------------------------------------------
(* The host: pause, and ShutdownMainProcess.                               *)

HostAt(pc) == host = pc
HostTo(pc) == host' = pc

(* SuspendEmulation, of all threads on the list, holds m_list_lock, under  *)
(* which TerminateChildren makes its requests too: one step.  Its wait for *)
(* the cores to leave the process is left out.                             *)
SuspendEmulation(from, pc, suspended) ==
    /\ HostAt(from) /\ process # "Created"
    /\ thread' = [t \in Threads |->
                     IF t \notin ThreadList THEN thread[t]
                     ELSE IF suspended THEN RequestSuspend(thread[t]) ELSE Resume(thread[t])]
    /\ server' = [server EXCEPT !.stop = pc = "stop"]
    /\ HostTo(pc)
    /\ UNCHANGED <<process, running, refs, table, tasks, term, destroying, sessionVars, registered>>

(* ~ServerManager, whose request to stop came with the suspension, which   *)
(* has nothing to do with the manager: it is woken up,                     *)
WakeUpServer ==
    /\ HostAt("stop")
    /\ server' = SignalWakeup(server)
    /\ HostTo("join")
    /\ UNCHANGED <<processVars, sessionVars, registered>>

(* waited for, and its port destroyed, with the session in it, or the      *)
(* session.                                                                *)
CleanUpSessions ==
    /\ HostAt("join") /\ ServerAt("stopped")
    /\ session' = IF session.server = "open" THEN [session EXCEPT !.server = "destroyed"] ELSE session
    /\ HostTo("sessions")
    /\ UNCHANGED <<processVars, request, server, registered>>

(* TerminateAllProcesses follows.                                          *)
TerminateAllProcesses ==
    /\ HostAt("sessions") /\ session.server \in {"none", "closed"}
    /\ BeginTerminate(Host)
    /\ HostTo("terminate")
    /\ UNCHANGED <<sessionVars, server, registered>>

HostDown ==
    /\ HostAt("terminate") /\ (term.by = Host => term.pc = "done")
    /\ HostTo("down")
    /\ UNCHANGED <<processVars, sessionVars, server, registered>>

HostGoesOn == WakeUpServer \/ CleanUpSessions \/ TerminateAllProcesses \/ HostDown

HostStep ==
    \/ SuspendEmulation("running", "paused", TRUE)
    \/ SuspendEmulation("paused", "running", FALSE)
    \/ \E from \in {"running", "paused"} : SuspendEmulation(from, "stop", TRUE)
    \/ HostGoesOn

-----------------------------------------------------------------------------
(* The composition.                                                        *)

Elsewhere == UNCHANGED <<server, registered, host>>

ConnectToPort(t) ==
    /\ ~(host \in {"sessions", "terminate", "down"})
    /\ Connect(t)
    /\ server' = NotifyAvailable(server, session', "port")
    /\ UNCHANGED <<registered, host>>

\* Mutant: the manager is notified of the second request, not of the first.
RequestLateNotified(t) ==
    /\ OnRequest(t)
    /\ server' = IF session.list # <<>> THEN NotifyAvailable(server, session', "session") ELSE server
    /\ UNCHANGED <<registered, host>>

Request(t) ==
    /\ OnRequest(t)
    /\ server' = IF session.list = <<>> THEN NotifyAvailable(server, session', "session") ELSE server
    /\ UNCHANGED <<registered, host>>

(* What a thread does of its own accord,                                   *)
Call(t) ==
    \/ /\ \/ \E u \in Threads : CreateThread(t, u) \/ StartThread(t, u)
          \/ \E o \in Objects : CloseHandle(t, o)
       /\ UNCHANGED sessionVars /\ Elsewhere
    \/ ConnectToPort(t)
    \/ SendSyncRequest(t) /\ Elsewhere

(* and what the kernel makes it do.                                        *)
KernelStep(t) ==
    \/ /\ \/ Interrupted(t) \/ AddThread(t) \/ RunThread(t) \/ ExitFinish(t)
          \/ thread[t].requested /\ Exit(t)
       /\ UNCHANGED sessionVars /\ Elsewhere
    \/ Request(t)
    \/ Return(t) /\ Elsewhere

ExitThread(t) == ~thread[t].requested /\ Exit(t) /\ UNCHANGED sessionVars /\ Elsewhere

(* m_lock is held over several steps by a reply and by a cleanup.          *)
SessionLocked == ServerAt("replied") \/ session.server = "cleaning"

DestroyClient ==
    \/ (ClientClosing \/ ClientClosed) /\ Elsewhere
    \/ /\ OnClientClosed(SessionLocked)
       /\ server' = NotifyAvailable(server, session', "session")
       /\ UNCHANGED <<registered, host>>

DestroyServer == (ServerClosing \/ ServerClosed \/ CleanupRequest) /\ Elsewhere

WorkerStep == FinishTermination /\ UNCHANGED sessionVars /\ Elsewhere
TerminateStep == Terminate /\ UNCHANGED sessionVars /\ Elsewhere

Next ==
    \/ Run /\ UNCHANGED sessionVars /\ Elsewhere
    \/ \E t \in Threads : Call(t) \/ KernelStep(t) \/ ExitThread(t)
    \/ DestroyClient \/ DestroyServer \/ WorkerStep \/ TerminateStep
    \/ ServerStep \/ RegisterService \/ HostStep

Spec == Init /\ [][Next]_vars

FairSpec ==
    /\ Spec
    /\ \A t \in Threads : WF_vars(KernelStep(t))
    /\ WF_vars(DestroyClient \/ DestroyServer \/ WorkerStep \/ TerminateStep \/ HostGoesOn)
    /\ WF_vars(ServerStep)

-----------------------------------------------------------------------------
(* The types of the variables.                                             *)
TypeOK ==
    /\ process \in {"Created", "Running", "Terminating", "Terminated"}
    /\ \A t \in Threads :
          /\ thread[t].state \in {"None", "Initialized", "Runnable", "Waiting", "Terminated"}
          /\ thread[t].suspended \in {"no", "yes", "never"}
    /\ running \in 0..Cardinality(Threads) /\ refs \in [Objects -> Nat]
    /\ table.entries \cup table.closing \subseteq Objects /\ tasks \in Seq(Threads)
    /\ term.by \in Threads \cup {Server, Host, Null}
    /\ destroying \in Threads \cup {Server, Host, Null}
    /\ session.list \in Seq(Threads) /\ session.current \in Threads \cup {Null}
    /\ \A t \in Threads : request[t].refs \in 0..2
    /\ server.woken \in Holders \cup {NoHolder} /\ registered \in BOOLEAN

One(b) == IF b THEN 1 ELSE 0

(* An object has as many references as there are those who hold one: a     *)
(* thread those that create or start it, its handle, itself from its start *)
(* until the worker has signaled it, its terminator, and its request; the  *)
(* client session its handle and its senders.  So none of these loses the  *)
(* object and it does not outlive them, whoever of the threads, the        *)
(* worker, the server and the terminator closes last.  HLERequestContext's *)
(* pointer to the thread is not among them: it has no reference, and once  *)
(* OnClientClosed has closed the request's it may outlive the thread.      *)
ReferencesExact ==
    LET handled == table.entries \cup table.closing
        users(t) == {c \in Threads : thread[c].pc \in {"adding", "starting"} /\ thread[c].target = t}
        senders == {t \in Threads : thread[t].pc \in {"sending", "waiting", "returning"}}
    IN  /\ TypeOK
        /\ \A t \in Threads :
              refs[t] = Cardinality(users(t)) + One(t \in handled)
                        + One(thread[t].pc # "none" /\ ~thread[t].signaled)
                        + One(term.child = t) + One(request[t].bound)
        /\ refs[Client] = Cardinality(senders) + One(Client \in handled)

(* A thread that waits for a reply has its request in exactly one place    *)
(* from which it will be ended: the session's list, its current request or *)
(* the reply under way, and the session is not yet past its cleanup.  What *)
(* the manager takes it for holds: R_ASSERT of ReceiveRequestHLE and       *)
(* SendReplyHLE in OnSessionEvent and CompleteSyncRequest, and the ASSERT  *)
(* of OnPortEvent.                                                         *)
RequestTracked ==
    /\ \A t \in Threads : thread[t].pc = "waiting" =>
          /\ Cardinality({i \in DOMAIN session.list : session.list[i] = t})
             + One(session.current = t) + One(server.replying = t) = 1
          /\ session.server # "closed"
    /\ ServerAt("session") => IsClosed(session) \/ (session.current = Null /\ session.list # <<>>)
    /\ server.pc \in {"handle", "defer", "terminate", "reply"} => session.current # Null
    /\ ServerAt("port") => session.pending

(* The manager does not sleep over what it should see.  Each of its        *)
(* holders is linked exactly once or in its hands; while it waits, no      *)
(* linked holder is signaled unless its notification is still to come; and *)
(* a request that is deferred for a service that is registered by now will *)
(* be tried again.                                                         *)
NothingMissed ==
    LET linked == server.multiWait \o server.deferredList
        inHand == server.pc \in {"session", "handle", "defer", "terminate", "reply", "replied"}
    IN  /\ ~ServerAt("stopped") => \A h \in Holders :
              Cardinality({i \in DOMAIN linked : linked[i] = h}) =
                  CASE h = "wakeup" -> 1
                    [] h \in {"port", "deferral"} -> One(~ServerAt(h))
                    [] OTHER -> One(session.server = "open" /\ ~session.pending
                                    /\ ~server.deferred /\ ~inHand)
        /\ ServerAt("waiting") /\ server.woken = NoHolder =>
              \A h \in Range(server.multiWait) :
                  IsSignaled(server, session, h) => h = "session" /\ session.client = "notifying"
        /\ registered /\ (server.deferred \/ ServerAt("defer")) => server.deferral \/ ServerAt("deferral")

(* When KProcess::Terminate is done, no thread of the process is left but  *)
(* the one that did it, not even one that was created while its threads    *)
(* were being terminated, and no handle.  Nobody asks the terminator to    *)
(* terminate: otherwise KProcess::StartTermination would fail and have the *)
(* one worker wait for a thread that ends only by the worker.              *)
TerminationComplete ==
    /\ process = "Terminated" =>
          /\ \A t \in ThreadList \ {term.by} : thread[t].state = "Terminated"
          /\ table.entries \cup table.closing = {}
    /\ term.by \in Threads => ~thread[term.by].requested

(* A termination that begins comes to its end, whatever its threads are    *)
(* doing then: waiting for a reply, deferred, suspended before.  What can  *)
(* stop it is a suspension afterwards, by SuspendEmulation, of a thread    *)
(* that has been asked to terminate or that terminates the process.        *)
SuspendedTooLate ==
    \E t \in Threads : thread[t].suspended = "yes" /\ (thread[t].requested \/ term.by = t)
TerminationEnds == process = "Terminating" ~> (process = "Terminated" \/ SuspendedTooLate)
===============================================================================
