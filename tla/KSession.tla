------------------------------- MODULE KSession -------------------------------
(***************************************************************************)
(* One session: KSession, the process's end KClientSession, the service's  *)
(* end KServerSession, the requests between them, and the port through     *)
(* which it comes about.                                                   *)
(*                                                                         *)
(* A thread has one request at a time, which bears its name.  A request    *)
(* has two references, its sender's and the session's, and itself refers   *)
(* to the thread.  KServerSession's operations hold its m_lock; the only   *)
(* two that keep it over several steps are the reply and the cleanup.      *)
(* Messages, their handles and buffers, and asynchronous requests are left *)
(* out.                                                                    *)
(***************************************************************************)
EXTENDS KProcess

VARIABLES
    session,            \* the KSession and its KServerSession
    request             \* the request of each thread

sessionVars == <<session, request>>

NoRequest == [refs |-> 0, bound |-> FALSE]

(* The ends of the session are each "none", "open", or in one of the steps *)
(* of being destroyed.                                                     *)
SessionInit ==
    /\ session = [state |-> "Normal", list |-> <<>>, current |-> Null, pending |-> FALSE,
                  client |-> "none", server |-> "none"]
    /\ request = [t \in Threads |-> NoRequest]

(* Both KSession::IsClientClosed and IsServerClosed.                       *)
IsClosed(s) == s.state # "Normal"

(* KServerSession::IsSignaled.                                             *)
SessionSignaled(s) == IsClosed(s) \/ (s.list # <<>> /\ s.current = Null)

(* The close of one reference to the request of t, of which its reference  *)
(* to the thread is a part.                                                *)
RequestClosed(r) == IF r.refs = 1 THEN NoRequest ELSE [r EXCEPT !.refs = @ - 1]
RefsAfterRequest(rs, t) == IF request[t].refs = 1 /\ request[t].bound THEN Closed(rs, t) ELSE rs

(* EndWait of a sender.                                                    *)
EndWait(th, t) == [th EXCEPT ![t].state = "Runnable", ![t].pc = "returning"]

-----------------------------------------------------------------------------
(* The client.                                                             *)

(* ConnectToNamedPort and KClientPort::CreateSession: the new session goes *)
(* to the server's port, and the table has its client.                     *)
Connect(t) ==
    /\ At(t, "guest") /\ session.client = "none" /\ table.open
    /\ session' = [session EXCEPT !.client = "open", !.server = "open", !.pending = TRUE]
    /\ table' = [table EXCEPT !.entries = @ \cup {Client}]
    /\ refs' = Opened(refs, Client)
    /\ UNCHANGED <<process, thread, running, tasks, term, destroying, request>>

(* SendSyncRequest looks the handle up.                                    *)
SendSyncRequest(t) ==
    /\ At(t, "guest") /\ Client \in table.entries
    /\ GoTo(t, "sending")
    /\ refs' = Opened(refs, Client)
    /\ UNCHANGED <<process, running, table, tasks, term, destroying, sessionVars>>

\* Mutant: a closed session still takes requests.
OnRequestUnchecked(t) ==
    /\ At(t, "sending")
    /\ IF IsTerminationRequested(t)
       THEN GoTo(t, "returning") /\ UNCHANGED <<refs, sessionVars>>
       ELSE /\ thread' = [thread EXCEPT ![t].state = "Waiting", ![t].pc = "waiting"]
            /\ refs' = Opened(refs, t)
            /\ session' = [session EXCEPT !.list = Append(@, t)]
            /\ request' = [request EXCEPT ![t] = [refs |-> 2, bound |-> TRUE]]
    /\ UNCHANGED <<process, running, table, tasks, term, destroying>>

(* KServerSession::OnRequest: the request goes to the list's end, and the  *)
(* thread waits.                                                           *)
OnRequest(t) ==
    /\ At(t, "sending")
    /\ IF IsClosed(session) \/ IsTerminationRequested(t)
       THEN GoTo(t, "returning") /\ UNCHANGED <<refs, sessionVars>>
       ELSE /\ thread' = [thread EXCEPT ![t].state = "Waiting", ![t].pc = "waiting"]
            /\ refs' = Opened(refs, t)
            /\ session' = [session EXCEPT !.list = Append(@, t)]
            /\ request' = [request EXCEPT ![t] = [refs |-> 2, bound |-> TRUE]]
    /\ UNCHANGED <<process, running, table, tasks, term, destroying>>

(* The wait is over: the sender closes its request and the session.        *)
Return(t) ==
    /\ At(t, "returning")
    /\ GoTo(t, Onward(t))
    /\ LET sent == request[t].refs > 0
       IN  /\ refs' = Closed(IF sent THEN RefsAfterRequest(refs, t) ELSE refs, Client)
           /\ request' = IF sent THEN [request EXCEPT ![t] = RequestClosed(@)] ELSE request
    /\ destroying' = IF refs[Client] = 1 THEN t ELSE destroying
    /\ UNCHANGED <<process, running, table, tasks, term, session>>

-----------------------------------------------------------------------------
(* KClientSession::Destroy, by the thread that closed the last reference.  *)

(* KSession::OnClientClosed reads the state                                *)
ClientClosing ==
    /\ destroying # Null /\ session.client = "open"
    /\ session' = [session EXCEPT !.client = IF session.state = "Normal" THEN "closing" ELSE "closed"]
    /\ destroying' = IF session.state = "Normal" THEN destroying ELSE Null
    /\ UNCHANGED <<process, thread, running, refs, table, tasks, term, request>>

(* and sets it, unless it has just been closed by the other end.           *)
ClientClosed ==
    /\ session.client = "closing"
    /\ session' = [session EXCEPT !.client = "notifying", !.state = "ClientClosed"]
    /\ UNCHANGED <<processVars, request>>

(* KServerSession::OnClientClosed, under m_lock: the request in service    *)
(* loses its thread if that terminates, the others are closed.             *)
OnClientClosed(locked) ==
    LET cur == session.current
        orphan == cur # Null /\ request[cur].bound /\ IsTerminationRequested(cur)
        gone == {session.list[i] : i \in DOMAIN session.list} \cup (IF orphan THEN {cur} ELSE {})
    IN  /\ session.client = "notifying" /\ ~locked
        /\ session' = [session EXCEPT !.client = "closed", !.list = <<>>]
        /\ request' = [t \in Threads |->
              IF orphan /\ t = cur THEN [request[t] EXCEPT !.bound = FALSE]
              ELSE IF t \in gone THEN RequestClosed(request[t]) ELSE request[t]]
        /\ refs' = [o \in Objects |->
              IF o \in gone /\ (o = cur \/ (request[o].refs = 1 /\ request[o].bound))
              THEN refs[o] - 1 ELSE refs[o]]
        /\ destroying' = Null
        /\ UNCHANGED <<process, thread, running, table, tasks, term>>

-----------------------------------------------------------------------------
(* KServerSession.                                                         *)

(* ReceiveRequest of a session with a request.                             *)
Received(s) == [s EXCEPT !.current = Head(s.list), !.list = Tail(s.list)]

(* The end of a request that the session has taken out: its sender is      *)
(* woken unless it terminates, and the session's reference is closed.      *)
EndRequest(t) ==
    /\ thread' = IF request[t].bound /\ ~IsTerminationRequested(t) THEN EndWait(thread, t) ELSE thread
    /\ refs' = RefsAfterRequest(refs, t)
    /\ request' = [request EXCEPT ![t] = RequestClosed(@)]

(* KServerSession::Destroy: KSession::OnServerClosed reads the state       *)
ServerClosing ==
    /\ session.server = "destroyed"
    /\ session' = [session EXCEPT !.server = IF session.state = "Normal" THEN "closing" ELSE "cleanup"]
    /\ UNCHANGED <<processVars, request>>

(* and sets it.                                                            *)
ServerClosed ==
    /\ session.server = "closing"
    /\ session' = [session EXCEPT !.server = "cleanup", !.state = "ServerClosed"]
    /\ UNCHANGED <<processVars, request>>

(* CleanupRequests, under m_lock from its first step on.                   *)
CleanupRequest ==
    /\ session.server \in {"cleanup", "cleaning"}
    /\ \/ /\ session.current # Null
          /\ EndRequest(session.current)
          /\ session' = [session EXCEPT !.current = Null, !.server = "cleaning"]
       \/ /\ session.current = Null /\ session.list # <<>>
          /\ EndRequest(Head(session.list))
          /\ session' = [session EXCEPT !.list = Tail(@), !.server = "cleaning"]
       \/ /\ session.current = Null /\ session.list = <<>>
          /\ session' = [session EXCEPT !.server = "closed"]
          /\ UNCHANGED <<thread, refs, request>>
    /\ UNCHANGED <<process, running, table, tasks, term, destroying>>
===============================================================================
