---------------------------- MODULE KProcessProofs ----------------------------
(***************************************************************************)
(* The invariants of a server manager and of the process it serves, and    *)
(* the steps of the process: its threads, their handles and requests, the  *)
(* worker and KProcess::Terminate keep every object's references exact,    *)
(* for every number of threads.  The steps of the session and of the       *)
(* manager, and the theorems, are in ServerManagerProofs.                  *)
(***************************************************************************)
EXTENDS ServerManager, TLAPS

-----------------------------------------------------------------------------
(* The manager and the session.                                            *)

ServerRecords ==
    [pc : {"link", "select", "waiting", "clear", "port", "session", "deferral", "handle", "defer",
           "terminate", "reply", "replied", "destroy", "stopped"},
     multiWait : Seq(Holders), deferredList : Seq(Holders), woken : Holders \cup {NoHolder},
     wakeup : BOOLEAN, deferral : BOOLEAN, deferred : BOOLEAN, retry : BOOLEAN,
     replying : Threads \cup {Null}, closing : BOOLEAN, stop : BOOLEAN]

SessionRecords ==
    [state : {"Normal", "ClientClosed", "ServerClosed"}, list : Seq(Threads),
     current : Threads \cup {Null}, pending : BOOLEAN,
     client : {"none", "open", "closing", "notifying", "closed"},
     server : {"none", "open", "destroyed", "closing", "cleanup", "cleaning", "closed"}]

ManagerType == server \in ServerRecords /\ session \in SessionRecords /\ registered \in BOOLEAN

(* The manager's thread has the session's holder.                          *)
InHand == server.pc \in {"session", "handle", "defer", "terminate", "reply", "replied"}

(* The holders that are to be in one of the two lists.                     *)
ToBeLinked(h) ==
    \/ h = "wakeup"
    \/ h \in {"port", "deferral"} /\ ~ServerAt(h)
    \/ h = "session" /\ session.server = "open" /\ ~session.pending /\ ~server.deferred /\ ~InHand

(* Each of these is in exactly one place.                                  *)
ListInv ==
    /\ IsInjective(server.multiWait) /\ IsInjective(server.deferredList)
    /\ Range(server.multiWait) \cap Range(server.deferredList) = {}
    /\ ~ServerAt("stopped") => \A h \in Holders :
          ToBeLinked(h) <=> h \in Range(server.multiWait) \cup Range(server.deferredList)

(* What has woken the manager is linked and stays signaled until the       *)
(* manager runs.                                                           *)
WaitInv ==
    /\ server.woken # NoHolder => /\ ServerAt("waiting") /\ server.woken \in Range(server.multiWait)
                                  /\ IsSignaled(server, session, server.woken)
    /\ ServerAt("waiting") /\ server.woken = NoHolder =>
          \A h \in Range(server.multiWait) :
              IsSignaled(server, session, h) => h = "session" /\ session.client = "notifying"
    /\ registered /\ (server.deferred \/ ServerAt("defer")) => server.deferral \/ ServerAt("deferral")

(* The ends of the session.                                                *)
EndsInv ==
    /\ session.client = "none" <=> session.server = "none"
    /\ session.client = "none" => ~IsClosed(session) /\ ~session.pending
    /\ session.server \in {"cleanup", "cleaning", "closed"} => IsClosed(session)
    /\ session.client \in {"notifying", "closed"} => IsClosed(session)
    /\ session.server = "closed" => session.list = <<>> /\ session.current = Null

(* What the manager's thread takes for granted of the session.             *)
HandInv ==
    /\ InHand => session.server = "open" /\ ~session.pending /\ ~server.deferred
    /\ server.deferred /\ ~ServerAt("stopped") =>
          session.server = "open" /\ ~session.pending /\ session.current # Null
    /\ session.pending /\ ~ServerAt("stopped") => session.server = "open"
    /\ ServerAt("port") => session.pending
    /\ ServerAt("session") => IsClosed(session) \/ (session.current = Null /\ session.list # <<>>)
    /\ server.pc \in {"handle", "defer", "terminate", "reply"} => session.current # Null
    /\ ServerAt("destroy") => session.server \notin {"none", "open"}
    /\ ServerAt("replied") <=> server.replying # Null

ManagerInv == ManagerType /\ ListInv /\ WaitInv /\ EndsInv /\ HandInv

-----------------------------------------------------------------------------
(* The process, its threads and their requests.                            *)

Running == {"guest", "adding", "starting", "sending", "returning", "end"}

ThreadRecords ==
    [state : {"None", "Initialized", "Runnable", "Waiting", "Terminated"},
     pc : Running \cup {"none", "waiting", "exiting", "gone"}, target : Threads \cup {Null},
     requested : BOOLEAN, signaled : BOOLEAN, suspended : {"no", "yes", "never"}]

ProcessType ==
    /\ process \in {"Created", "Running", "Terminating", "Terminated"}
    /\ thread \in [Threads -> ThreadRecords]
    /\ refs \in [Objects -> Nat]
    /\ table \in [open : BOOLEAN, entries : SUBSET Objects, closing : SUBSET Objects]
    /\ tasks \in Seq(Threads)
    /\ term \in [by : Threads \cup {Server, Host, Null}, child : Threads \cup {Null},
                 pc : {"none", "request", "pick", "child", "wait", "table", "entries", "done"}]
    /\ destroying \in Threads \cup {Server, Host, Null}
    /\ request \in [Threads -> [refs : 0..2, bound : BOOLEAN]]

(* A thread's state, and where it is.                                      *)
ThreadInv ==
    \A t \in Threads :
        /\ thread[t].pc = "none" => thread[t].state \in {"None", "Initialized", "Terminated"}
        /\ thread[t].pc \in Running \cup {"exiting"} => thread[t].state = "Runnable"
        /\ thread[t].pc = "waiting" => thread[t].state = "Waiting" /\ ~thread[t].requested
        /\ thread[t].pc = "gone" => thread[t].state = "Terminated"
        /\ thread[t].signaled => thread[t].pc = "gone"
        /\ thread[t].pc \in {"adding", "starting"} =>
              thread[t].target \in Threads /\ thread[thread[t].target].state # "None"

(* KProcess::Terminate.                                                    *)
TermInv ==
    /\ process = "Created" => \A t \in Threads : thread[t] = NewThread
    /\ process \in {"Created", "Running"} <=> term.pc = "none"
    /\ process = "Terminated" <=> term.pc = "done"
    /\ term.pc = "none" => term.by = Null /\ \A t \in Threads : ~thread[t].requested
    /\ term.pc # "none" => term.by # Null
    /\ term.pc \in {"child", "wait"} <=> term.child # Null
    /\ term.by \in Threads =>
          /\ term.child # term.by /\ ~thread[term.by].requested
          /\ thread[term.by].pc \in {"exiting", "gone"}
    /\ term.pc \in {"table", "entries", "done"} =>
          \A t \in Threads \ {term.by} : refs[t] > 0 => thread[t].state = "Terminated"

Handled == table.entries \cup table.closing

(* The handle table.                                                       *)
TableInv ==
    /\ ~table.open => table.entries = {}
    /\ process = "Created" => ~table.open
    /\ table.closing # {} => term.pc = "entries"
    /\ term.pc \in {"entries", "done"} => ~table.open
    /\ \A t \in Threads : t \in Handled => thread[t].state # "None"
    /\ \A c \in Threads : thread[c].pc = "adding" =>
          /\ thread[c].target \notin Handled
          /\ \A d \in Threads :
                thread[d].pc = "adding" /\ thread[d].target = thread[c].target => d = c

(* The worker's queue.                                                     *)
TaskInv ==
    /\ IsInjective(tasks)
    /\ \A t \in Threads : t \in Range(tasks) => thread[t].pc = "gone" /\ ~thread[t].signaled

(* The session has the request of t.                                       *)
InSession(t) == t \in Range(session.list) \/ t = session.current \/ t = server.replying

(* A request has a reference for its sender and one for the session.       *)
RequestOf(t) ==
    /\ InSession(t) => \/ thread[t].pc = "waiting"
                       \/ thread[t].requested /\ thread[t].pc \in {"returning", "end", "exiting", "gone"}
    /\ thread[t].pc = "waiting" => InSession(t) /\ request[t].refs = 2 /\ request[t].bound
    /\ thread[t].pc = "returning" => IF InSession(t) THEN request[t].refs = 2 ELSE request[t].refs < 2
    /\ thread[t].pc \notin {"waiting", "returning"} => request[t].refs = One(InSession(t))
    /\ request[t].bound => request[t].refs > 0

(* Each is in one place.                                                   *)
RequestInv ==
    /\ IsInjective(session.list)
    /\ session.current \notin Range(session.list) /\ server.replying \notin Range(session.list)
    /\ session.current # Null => session.current # server.replying
    /\ \A t \in Threads : RequestOf(t)

Users(t) == {c \in Threads : thread[c].pc \in {"adding", "starting"} /\ thread[c].target = t}
Senders == {t \in Threads : thread[t].pc \in {"sending", "waiting", "returning"}}

Runs(t) == thread[t].pc # "none" /\ ~thread[t].signaled

(* The references to a thread, and to the client session.                  *)
Held(t) ==
    Cardinality(Users(t)) + One(t \in Handled) + One(Runs(t)) + One(term.child = t)
    + One(request[t].bound)
ClientHeld == Cardinality(Senders) + One(Client \in Handled)

RefsInv ==
    /\ \A t \in Threads : refs[t] = Held(t)
    /\ refs[Client] = ClientHeld

(* The client session is destroyed once, and nobody uses it then.          *)
ClientInv ==
    /\ destroying # Null \/ session.client # "open" => refs[Client] = 0
    /\ destroying # Null => session.client # "none"

Runners == {t \in Threads : thread[t].pc \in Running \cup {"waiting"}}
RunningInv == running = Cardinality(Runners)

(* How sets of threads are counted.  This holds by itself (CountingHolds); *)
(* as a part of the invariant it is at hand wherever that is.              *)
Counting ==
    \A S \in SUBSET Threads :
        /\ Cardinality(S) \in Nat /\ (Cardinality(S) = 0 <=> S = {})
        /\ \A t \in Threads \ S : Cardinality(S \cup {t}) = Cardinality(S) + 1
        /\ \A t \in S : Cardinality(S \ {t}) = Cardinality(S) - 1

ProcessInv ==
    /\ Counting /\ ProcessType /\ ThreadInv /\ TermInv /\ TableInv /\ TaskInv
    /\ RequestInv /\ RefsInv /\ ClientInv /\ RunningInv

-----------------------------------------------------------------------------
(* Lists: the empty one, one without its first element, one with another   *)
(* element at its end, one without its i-th element, and two in one.       *)

(* The empty list.                                                         *)
LEMMA EmptyFacts == Range(<<>>) = {} /\ IsInjective(<<>>)
BY DEF Range, IsInjective

(* A list without its first element, as CleanupRequests and Terminate take *)
(* it.                                                                     *)
LEMMA TailFacts ==
    ASSUME NEW S, NEW s \in Seq(S), s # <<>>
    PROVE  /\ Head(s) \in S /\ Tail(s) \in Seq(S)
           /\ Range(s) = {Head(s)} \cup Range(Tail(s))
           /\ IsInjective(s) => IsInjective(Tail(s)) /\ Head(s) \notin Range(Tail(s))
<1>1. PICK l \in Nat : l = Len(s) - 1 /\ DOMAIN s = 1..(l + 1) /\ DOMAIN Tail(s) = 1..l
    OBVIOUS
<1>2. /\ Head(s) \in S /\ Tail(s) \in Seq(S) /\ Head(s) = s[1]
      /\ \A i \in 1..l : Tail(s)[i] = s[i + 1]
    BY <1>1
<1>3. \A i \in 1..(l + 1) : s[i] = Head(s) \/ s[i] \in Range(Tail(s))
    <2>1. ASSUME NEW i \in 1..(l + 1), i # 1
          PROVE  i - 1 \in 1..l /\ Tail(s)[i - 1] = s[i]
        <3>1. i - 1 \in 1..l /\ (i - 1) + 1 = i
            BY <2>1
        <3>. QED
            BY <1>2, <3>1, Zenon
    <2>. QED
        BY <1>1, <1>2, <2>1, Zenon, Zenon DEF Range
<1>4. Range(Tail(s)) \subseteq Range(s)
    BY <1>1, <1>2 DEF Range
<1>5. Head(s) \in Range(s)
    BY <1>1, <1>2 DEF Range
<1>6. Range(s) = {Head(s)} \cup Range(Tail(s))
    BY <1>1, <1>3, <1>4, <1>5, Zenon DEF Range
<1>7. ASSUME IsInjective(s)
      PROVE  IsInjective(Tail(s)) /\ Head(s) \notin Range(Tail(s))
    <2>1. IsInjective(Tail(s))
        BY <1>1, <1>2, <1>7, SMTT(20), Z3T(20) DEF IsInjective
    <2>2. \A i \in 1..l : Tail(s)[i] # Head(s)
        BY <1>1, <1>2, <1>7 DEF IsInjective
    <2>. QED
        BY <1>1, <2>1, <2>2, Zenon DEF Range
<1>. QED
    BY <1>2, <1>6, <1>7, Zenon

(* A list with another element at its end.                                 *)
LEMMA AppendFacts ==
    ASSUME NEW S, NEW s \in Seq(S), NEW e \in S
    PROVE  /\ Append(s, e) \in Seq(S) /\ Range(Append(s, e)) = Range(s) \cup {e}
           /\ IsInjective(s) /\ e \notin Range(s) => IsInjective(Append(s, e))
<1>1. PICK l \in Nat : l = Len(s) /\ DOMAIN s = 1..l /\ DOMAIN Append(s, e) = 1..(l + 1)
    OBVIOUS
<1>2. /\ Append(s, e) \in Seq(S) /\ Append(s, e)[l + 1] = e
      /\ \A i \in 1..l : Append(s, e)[i] = s[i]
    BY <1>1
<1>3. Range(Append(s, e)) = Range(s) \cup {e}
    BY <1>1, <1>2 DEF Range
<1>4. ASSUME IsInjective(s), e \notin Range(s)
      PROVE  IsInjective(Append(s, e))
    <2>1. \A i \in 1..l : s[i] # e
        BY <1>1, <1>4, Zenon DEF Range
    <2>. QED
        BY <1>1, <1>2, <1>4, <2>1 DEF IsInjective
<1>. QED
    BY <1>2, <1>3, <1>4, Zenon

-----------------------------------------------------------------------------
(* What the invariant says of a thread that runs,                          *)

Pcs == Running \cup {"none", "waiting", "exiting", "gone"}

(* How sets are counted does not depend on the state.                      *)
LEMMA CountingKept == Counting => Counting'
BY DEF Counting

(* A thread is none of the other objects.                                  *)
LEMMA ThreadsApart ==
    ASSUME NEW t \in Threads
    PROVE  t \in Objects /\ t # Client /\ t # Server /\ t # Host /\ t # Null
BY ProcessAssumption DEF Objects

(* One more thread, or one less.                                           *)
LEMMA OneMore ==
    ASSUME ProcessInv, NEW S \in SUBSET Threads, NEW t \in Threads \ S
    PROVE  Cardinality(S \cup {t}) = Cardinality(S) + 1
BY Zenon DEF ProcessInv, Counting

(* A set that loses a thread.                                              *)
LEMMA OneLess ==
    ASSUME ProcessInv, NEW S \in SUBSET Threads, NEW t \in S
    PROVE  Cardinality(S \ {t}) = Cardinality(S) - 1
BY Zenon DEF ProcessInv, Counting

(* The size of a set of threads.                                           *)
LEMMA ThreadsCounted ==
    ASSUME ProcessInv, NEW S \in SUBSET Threads
    PROVE  Cardinality(S) \in Nat /\ (Cardinality(S) = 0 <=> S = {})
BY DEF ProcessInv, Counting

(* Every count that the reference counts are compared with is a number.    *)
LEMMA CountedFacts ==
    ASSUME ProcessInv
    PROVE  /\ \A t \in Threads : refs[t] \in Nat /\ Cardinality(Users(t)) \in Nat
           /\ refs[Client] \in Nat /\ Cardinality(Senders) \in Nat
<1>1. \A t \in Threads : Users(t) \in SUBSET Threads
    BY DEF Users
<1>2. Senders \in SUBSET Threads
    BY DEF Senders
<1>. QED
    BY <1>1, <1>2, ThreadsCounted DEF ProcessInv, ProcessType, Objects

(* It is on the process's list, so that nobody has finished terminating    *)
(* the threads.                                                            *)
LEMMA RunningFacts ==
    ASSUME ProcessInv, NEW t \in Threads, thread[t].pc \in Running
    PROVE  /\ process # "Created" /\ term.pc \notin {"table", "entries", "done"} /\ t # term.by
           /\ table.closing = {} /\ thread[t].state = "Runnable" /\ ~thread[t].signaled /\ refs[t] > 0
           /\ thread[t].pc \notin {"none", "waiting", "exiting", "gone"}
<1>1. /\ thread[t].state = "Runnable" /\ ~thread[t].signaled
      /\ thread[t].pc \notin {"none", "waiting", "exiting", "gone"}
    BY DEF ProcessInv, ThreadInv, Running
<1>2. refs[t] > 0
    BY <1>1, CountedFacts DEF ProcessInv, RefsInv, Held, ClientHeld, Runs, One
<1>3. process # "Created" /\ t # term.by
    BY <1>1 DEF ProcessInv, TermInv, NewThread
<1>4. term.pc \notin {"table", "entries", "done"}
    BY <1>1, <1>2, <1>3 DEF ProcessInv, TermInv
<1>5. table.closing = {}
    BY <1>4 DEF ProcessInv, TableInv
<1>. QED
    BY <1>1, <1>2, <1>3, <1>4, <1>5

(* of one that uses the client session,                                    *)
LEMMA SenderFacts ==
    ASSUME ProcessInv, NEW t \in Threads, thread[t].pc \in {"sending", "waiting", "returning"}
    PROVE  refs[Client] > 0 /\ destroying = Null /\ session.client = "open"
<1>1. Senders \in SUBSET Threads /\ Senders # {}
    BY DEF Senders
<1>2. Cardinality(Senders) # 0
    BY <1>1, ThreadsCounted
<1>3. refs[Client] > 0
    BY <1>2, CountedFacts DEF ProcessInv, RefsInv, Held, ClientHeld, Runs, One
<1>. QED
    BY <1>3 DEF ProcessInv, ClientInv

(* and of a client session with a handle.                                  *)
LEMMA HandleFacts ==
    ASSUME ProcessInv, Client \in Handled
    PROVE  refs[Client] > 0 /\ destroying = Null /\ session.client = "open"
<1>1. refs[Client] > 0
    BY CountedFacts DEF ProcessInv, RefsInv, Held, ClientHeld, Runs, One
<1>. QED
    BY <1>1 DEF ProcessInv, ClientInv

(* Nobody uses a client session that is being destroyed.                   *)
LEMMA UnusedFacts ==
    ASSUME ProcessInv, destroying # Null \/ session.client # "open"
    PROVE  refs[Client] = 0 /\ Senders = {} /\ Client \notin Handled
<1>1. refs[Client] = 0
    BY DEF ProcessInv, ClientInv
<1>2. Client \notin Handled
    BY <1>1, HandleFacts
<1>3. Senders = {}
    BY <1>1, SenderFacts DEF Senders
<1>. QED
    BY <1>1, <1>2, <1>3

(* A thread that sends a request has none yet.                             *)
LEMMA NoRequestFacts ==
    ASSUME ProcessInv, NEW t \in Threads,
           thread[t].pc \in {"none", "guest", "adding", "starting", "sending"}
    PROVE  ~InSession(t) /\ request[t].refs = 0 /\ ~request[t].bound
<1>1. ~InSession(t)
    BY DEF ProcessInv, RequestInv, RequestOf
<1>2. request[t].refs = 0
    BY <1>1 DEF ProcessInv, RequestInv, RequestOf, One
<1>. QED
    BY <1>1, <1>2 DEF ProcessInv, ProcessType, RequestInv, RequestOf

-----------------------------------------------------------------------------
(* The steps of the process's threads.                                     *)

(* The parts of the invariant.                                             *)
LEMMA ProcessFacts ==
    ASSUME ProcessInv
    PROVE  /\ process \in {"Created", "Running", "Terminating", "Terminated"}
           /\ thread \in [Threads -> ThreadRecords] /\ refs \in [Objects -> Nat]
           /\ table \in [open : BOOLEAN, entries : SUBSET Objects, closing : SUBSET Objects]
           /\ tasks \in Seq(Threads)
           /\ term \in [by : Threads \cup {Server, Host, Null}, child : Threads \cup {Null},
                        pc : {"none", "request", "pick", "child", "wait", "table", "entries", "done"}]
           /\ destroying \in Threads \cup {Server, Host, Null}
           /\ request \in [Threads -> [refs : 0..2, bound : BOOLEAN]]
           /\ ThreadInv /\ TermInv /\ TableInv /\ TaskInv
           /\ RequestInv /\ RefsInv /\ ClientInv /\ RunningInv
BY DEF ProcessInv, ProcessType

(* A thread that goes on changes only where it is.                         *)
LEMMA GoToFacts ==
    ASSUME thread \in [Threads -> ThreadRecords], NEW t \in Threads, NEW pc \in Pcs, GoTo(t, pc)
    PROVE  /\ thread' \in [Threads -> ThreadRecords]
           /\ \A u \in Threads \ {t} : thread'[u] = thread[u]
           /\ thread'[t].pc = pc /\ thread'[t].state = thread[t].state
           /\ thread'[t].target = thread[t].target /\ thread'[t].requested = thread[t].requested
           /\ thread'[t].signaled = thread[t].signaled
<1>1. PICK r \in ThreadRecords : r = [thread[t] EXCEPT !.pc = pc]
    <2>1. thread[t] \in ThreadRecords
        OBVIOUS
    <2>. QED
        BY <2>1, Zenon DEF ThreadRecords, Pcs
<1>2. thread' = [thread EXCEPT ![t] = r]
    BY <1>1 DEF GoTo
<1>3. /\ r.pc = pc /\ r.state = thread[t].state /\ r.target = thread[t].target
      /\ r.requested = thread[t].requested /\ r.signaled = thread[t].signaled
    BY <1>1 DEF ThreadRecords
<1>. QED
    BY <1>2, <1>3

(* A thread takes up, or is through with, what it does to another.         *)
LEMMA TargetFacts ==
    ASSUME thread \in [Threads -> ThreadRecords], NEW c \in Threads, NEW pc \in Pcs,
           NEW x \in Threads \cup {Null}, thread' = [thread EXCEPT ![c].pc = pc, ![c].target = x]
    PROVE  /\ thread' \in [Threads -> ThreadRecords]
           /\ \A u \in Threads \ {c} : thread'[u] = thread[u]
           /\ thread'[c].pc = pc /\ thread'[c].state = thread[c].state
           /\ thread'[c].target = x /\ thread'[c].requested = thread[c].requested
           /\ thread'[c].signaled = thread[c].signaled
<1>1. PICK r \in ThreadRecords : r = [thread[c] EXCEPT !.pc = pc, !.target = x]
    <2>1. thread[c] \in ThreadRecords
        OBVIOUS
    <2>. QED
        BY <2>1, Zenon DEF ThreadRecords, Pcs
<1>2. thread' = [thread EXCEPT ![c] = r]
    BY <1>1, Zenon
<1>3. /\ r.pc = pc /\ r.state = thread[c].state /\ r.target = x
      /\ r.requested = thread[c].requested /\ r.signaled = thread[c].signaled
    BY <1>1 DEF ThreadRecords
<1>4. thread' \in [Threads -> ThreadRecords]
    BY <1>2, Zenon
<1>5. thread'[c] = r /\ \A u \in Threads \ {c} : thread'[u] = thread[u]
    BY <1>2, Zenon
<1>. QED
    BY <1>3, <1>4, <1>5, Zenon

(* What a thread that creates or starts another does to it.                *)
LEMMA UserFacts ==
    ASSUME ProcessInv, NEW c \in Threads, thread[c].pc \in {"adding", "starting"}
    PROVE  /\ thread[c].target \in Threads /\ thread[thread[c].target].state # "None"
           /\ c \in Users(thread[c].target) /\ refs[thread[c].target] > 0
<1>1. thread[c].target \in Threads /\ thread[thread[c].target].state # "None"
    BY ProcessFacts DEF ThreadInv
<1>2. c \in Users(thread[c].target) /\ Users(thread[c].target) \in SUBSET Threads
    BY <1>1 DEF Users
<1>3. Cardinality(Users(thread[c].target)) # 0
    BY <1>2, ThreadsCounted
<1>4. refs[thread[c].target] > 0
    BY <1>1, <1>3, CountedFacts DEF ProcessInv, RefsInv, Held, One
<1>. QED
    BY <1>1, <1>2, <1>4

(* Nothing about the references to t changes.                              *)
Kept(t) ==
    /\ refs'[t] = refs[t] /\ Users(t)' = Users(t) /\ (t \in Handled' <=> t \in Handled)
    /\ (Runs(t)' <=> Runs(t)) /\ (term'.child = t <=> term.child = t)
    /\ request'[t].bound = request[t].bound

KeptBut(t) == \A u \in Threads \ {t} : Kept(u)

(* The references are counted anew only for t.                             *)
LEMMA RefsKept ==
    ASSUME ProcessInv, NEW t, KeptBut(t), t \in Threads => refs'[t] = Held(t)',
           refs'[Client] = ClientHeld'
    PROVE  RefsInv'
<1>1. ASSUME NEW u \in Threads \ {t} PROVE refs'[u] = Held(u)'
    <2>1. Kept(u)
        BY <1>1 DEF KeptBut
    <2>2. refs[u] = Held(u)
        BY <1>1 DEF ProcessInv, RefsInv
    <2>. QED
        BY <2>1, <2>2 DEF Kept, Held, One
<1>. QED
    BY <1>1 DEF RefsInv

(* The client session's references do not change.                          *)
LEMMA ClientKept ==
    ASSUME ProcessInv, refs'[Client] = refs[Client], Senders' = Senders,
           Client \in Handled' <=> Client \in Handled
    PROVE  refs'[Client] = ClientHeld'
BY DEF ProcessInv, RefsInv, ClientHeld, One

(* One reference to the request of t is closed,                            *)
LEMMA RequestClosedFacts ==
    ASSUME request \in [Threads -> [refs : 0..2, bound : BOOLEAN]], NEW t \in Threads,
           request[t].refs > 0,
           request' = [request EXCEPT ![t] = RequestClosed(@)]
    PROVE  /\ request' \in [Threads -> [refs : 0..2, bound : BOOLEAN]]
           /\ request'[t].refs = request[t].refs - 1
           /\ (request'[t].bound <=> request[t].refs = 2 /\ request[t].bound)
           /\ \A u \in Threads \ {t} : request'[u] = request[u]
<1>1. request[t] \in [refs : 0..2, bound : BOOLEAN]
    OBVIOUS
<1>2. PICK r \in [refs : 0..2, bound : BOOLEAN] :
          /\ r = RequestClosed(request[t]) /\ r.refs = request[t].refs - 1
          /\ (r.bound <=> request[t].refs = 2 /\ request[t].bound)
    <2>1. CASE request[t].refs = 1
        <3>1. RequestClosed(request[t]) = [refs |-> 0, bound |-> FALSE]
            BY <2>1 DEF RequestClosed, NoRequest
        <3>2. /\ RequestClosed(request[t]) \in [refs : 0..2, bound : BOOLEAN]
              /\ RequestClosed(request[t]).refs = 0 /\ ~RequestClosed(request[t]).bound
            BY <3>1
        <3>3. 0 = request[t].refs - 1 /\ request[t].refs # 2
            BY <2>1
        <3>. QED
            BY <3>2, <3>3
    <2>2. CASE request[t].refs = 2
        BY <1>1, <2>2 DEF RequestClosed
    <2>. QED
        BY <1>1, <2>1, <2>2
<1>3. request' = [request EXCEPT ![t] = r]
    BY <1>2
<1>. QED
    BY <1>2, <1>3

(* and with the last one its reference to t.                               *)
LEMMA RefsAfterRequestFacts ==
    ASSUME refs \in [Objects -> Nat], NEW t \in Threads, request[t].bound => refs[t] > 0
    PROVE  /\ RefsAfterRequest(refs, t) \in [Objects -> Nat]
           /\ RefsAfterRequest(refs, t)[t] = refs[t] - One(request[t].refs = 1 /\ request[t].bound)
           /\ \A o \in Objects \ {t} : RefsAfterRequest(refs, t)[o] = refs[o]
<1>1. t \in Objects
    BY DEF Objects
<1>2. CASE request[t].refs = 1 /\ request[t].bound
    BY <1>1, <1>2 DEF RefsAfterRequest, Closed, One
<1>3. CASE ~(request[t].refs = 1 /\ request[t].bound)
    BY <1>1, <1>3 DEF RefsAfterRequest, One
<1>. QED
    BY <1>2, <1>3

(* A thread with a request has a reference.                                *)
LEMMA BoundFacts ==
    ASSUME ProcessInv, NEW t \in Threads, request[t].bound
    PROVE  refs[t] > 0
BY CountedFacts DEF ProcessInv, RefsInv, Held, One

(* The requests of the threads that take no part in a step.                *)
LEMMA OthersRequests ==
    ASSUME ProcessInv, NEW t \in Threads, \A u \in Threads \ {t} : thread'[u] = thread[u],
           \A u \in Threads \ {t} : request'[u] = request[u],
           \A u \in Threads \ {t} : InSession(u)' <=> InSession(u)
    PROVE  \A u \in Threads \ {t} : RequestOf(u)'
<1>1. ASSUME NEW u \in Threads \ {t}
      PROVE  RequestOf(u)'
    <2>1. /\ RequestOf(u) /\ thread'[u] = thread[u] /\ request'[u] = request[u]
          /\ InSession(u)' <=> InSession(u)
        BY <1>1, Zenon DEF ProcessInv, RequestInv
    <2>. QED
        BY <2>1, Zenon DEF RequestOf, One
<1>. QED
    BY <1>1, Zenon

(* The states of the threads when one goes on running.                     *)
LEMMA OneRunsOn ==
    ASSUME ProcessInv, NEW t \in Threads, \A u \in Threads \ {t} : thread'[u] = thread[u],
           thread'[t].pc \in Running \cup {"exiting"}, thread'[t].pc \notin {"adding", "starting"},
           thread'[t].state = "Runnable", ~thread'[t].signaled
    PROVE  ThreadInv'
<1>1. ASSUME NEW u \in Threads, thread[u].state # "None"
      PROVE  thread'[u].state # "None"
    BY <1>1
<1>2. ASSUME NEW u \in Threads \ {t}
      PROVE  /\ thread'[u].pc = "none" => thread'[u].state \in {"None", "Initialized", "Terminated"}
             /\ thread'[u].pc \in Running \cup {"exiting"} => thread'[u].state = "Runnable"
             /\ thread'[u].pc = "waiting" => thread'[u].state = "Waiting" /\ ~thread'[u].requested
             /\ thread'[u].pc = "gone" => thread'[u].state = "Terminated"
             /\ thread'[u].signaled => thread'[u].pc = "gone"
             /\ thread'[u].pc \in {"adding", "starting"} =>
                   thread'[u].target \in Threads /\ thread'[thread'[u].target].state # "None"
    BY <1>1, <1>2, ZenonT(30) DEF ProcessInv, ThreadInv
<1>3. thread'[t].pc \notin {"none", "waiting", "gone"}
    BY DEF Running
<1>. QED
    BY <1>2, <1>3 DEF ThreadInv

(* The references to a thread after a step that moves what holds it.       *)
LEMMA HeldMoves ==
    ASSUME ProcessInv, NEW t \in Threads, UNCHANGED <<table, term>>,
           refs'[t] \in Nat, Cardinality(Users(t)') \in Nat,
           refs'[t] + Cardinality(Users(t)) + One(Runs(t)) + One(request[t].bound)
           = refs[t] + Cardinality(Users(t)') + One(Runs(t)') + One(request'[t].bound)
    PROVE  refs'[t] = Held(t)'
<1>1. refs[t] = Cardinality(Users(t)) + One(t \in Handled) + One(Runs(t)) + One(term.child = t)
                + One(request[t].bound)
    BY Zenon DEF ProcessInv, RefsInv, Held
<1>2. Held(t)' = Cardinality(Users(t)') + One(t \in Handled) + One(Runs(t)') + One(term.child = t)
                 + One(request'[t].bound)
    BY Zenon DEF Held, Handled
<1>3. /\ One(t \in Handled) \in Nat /\ One(Runs(t)) \in Nat /\ One(term.child = t) \in Nat
      /\ One(request[t].bound) \in Nat /\ One(Runs(t)') \in Nat /\ One(request'[t].bound) \in Nat
    BY DEF One
<1>4. refs[t] \in Nat /\ Cardinality(Users(t)) \in Nat
    BY CountedFacts, Zenon
<1>5. PICK h \in Nat : h = One(t \in Handled)
    BY <1>3, Zenon
<1>6. PICK k \in Nat : k = One(term.child = t)
    BY <1>3, Zenon
<1>7. PICK n \in Nat : n = One(Runs(t))
    BY <1>3, Zenon
<1>8. PICK m \in Nat : m = One(Runs(t)')
    BY <1>3, Zenon
<1>9. PICK b \in Nat : b = One(request[t].bound)
    BY <1>3, Zenon
<1>10. PICK d \in Nat : d = One(request'[t].bound)
    BY <1>3, Zenon
<1>11. PICK u \in Nat : u = Cardinality(Users(t))
    BY <1>4, Zenon
<1>12. PICK v \in Nat : v = Cardinality(Users(t)')
    BY Zenon
<1>13. PICK p \in Nat : p = refs[t]
    BY <1>4, Zenon
<1>14. PICK q \in Nat : q = refs'[t]
    BY Zenon
<1>15. p = u + h + n + k + b /\ q + u + n + b = p + v + m + d
    BY <1>1, <1>5, <1>6, <1>7, <1>8, <1>9, <1>10, <1>11, <1>12, <1>13, <1>14, Zenon
<1>16. q = v + h + m + k + d
    BY <1>15, SMTT(20), Z3T(20)
<1>. QED
    BY <1>2, <1>5, <1>6, <1>8, <1>10, <1>12, <1>14, <1>16, Zenon

(* The handle table when one thread goes on, not to add a handle.          *)
LEMMA TableOneMoves ==
    ASSUME ProcessInv, NEW t \in Threads, UNCHANGED <<process, table, term>>,
           \A u \in Threads \ {t} : thread'[u] = thread[u], thread'[t].pc # "adding",
           thread[t].state # "None" => thread'[t].state # "None"
    PROVE  TableInv'
<1>1. TableInv /\ Handled' = Handled
    BY Zenon DEF ProcessInv, Handled
<1>2. ASSUME NEW u \in Threads, u \in Handled
      PROVE  thread'[u].state # "None"
    <2>1. thread[u].state # "None"
        BY <1>1, <1>2, Zenon DEF TableInv
    <2>. QED
        BY <2>1, Zenon
<1>3. ASSUME NEW c \in Threads, thread'[c].pc = "adding"
      PROVE  /\ c # t /\ thread'[c] = thread[c] /\ thread'[c].target \notin Handled
             /\ \A d \in Threads : thread'[d].pc = "adding" /\ thread'[d].target = thread'[c].target => d = c
    <2>1. c # t /\ thread'[c] = thread[c]
        BY <1>3, Zenon
    <2>2. /\ thread[c].target \notin Handled
          /\ \A d \in Threads : thread[d].pc = "adding" /\ thread[d].target = thread[c].target => d = c
        BY <1>1, <1>3, <2>1, Zenon DEF TableInv
    <2>. QED
        BY <2>1, <2>2, Zenon
<1>. QED
    BY <1>1, <1>2, <1>3, Zenon DEF TableInv

(* A thread that is to terminate is interrupted.                           *)
LEMMA InterruptedPreserves ==
    ASSUME ProcessInv, NEW t \in Threads, Interrupted(t), UNCHANGED <<request, session, server>>
    PROVE  ProcessInv'
<1>1. /\ thread[t].pc = "guest" /\ thread[t].requested /\ GoTo(t, "end")
      /\ UNCHANGED <<process, running, refs, table, tasks, term, destroying>>
    BY DEF Interrupted, At, Onward
<1>2. /\ thread' \in [Threads -> ThreadRecords]
      /\ \A u \in Threads \ {t} : thread'[u] = thread[u]
      /\ thread'[t].pc = "end" /\ thread'[t].state = thread[t].state
      /\ thread'[t].target = thread[t].target /\ thread'[t].requested = thread[t].requested
      /\ thread'[t].signaled = thread[t].signaled
    <2>1. "end" \in Pcs
        BY DEF Pcs, Running
    <2>. QED
        BY <1>1, <2>1, ProcessFacts, GoToFacts, Zenon
<1>3. /\ process # "Created" /\ term.pc \notin {"table", "entries", "done"} /\ t # term.by
      /\ table.closing = {} /\ thread[t].state = "Runnable" /\ ~thread[t].signaled
    BY <1>1, RunningFacts, Zenon DEF Running
<1>. USE <1>1, <1>2, <1>3
<1>4. ThreadInv'
    BY SMTT(20), Z3T(20) DEF ProcessInv, ThreadInv, Running
<1>5. TermInv'
    BY Zenon DEF ProcessInv, TermInv
<1>6. TableInv'
    BY SMTT(20), Z3T(20) DEF ProcessInv, TableInv, Handled
<1>7. TaskInv'
    BY Zenon DEF ProcessInv, TaskInv
<1>8. RequestInv'
    BY SMTT(20), Z3T(20) DEF ProcessInv, RequestInv, RequestOf, InSession
<1>9. RefsInv'
    <2>1. \A u \in Threads : Users(u)' = Users(u)
        BY Zenon DEF Users
    <2>2. Senders' = Senders
        BY DEF Senders
    <2>3. KeptBut(Null)
        BY <2>1, Zenon DEF KeptBut, Kept, Handled, Runs
    <2>4. refs'[Client] = ClientHeld'
        BY <2>2, ClientKept, Zenon DEF Handled
    <2>. QED
        BY <2>3, <2>4, RefsKept, ThreadsApart, Zenon
<1>10. ClientInv'
    BY Zenon DEF ProcessInv, ClientInv
<1>11. RunningInv'
    <2>1. Runners' = Runners
        BY Zenon DEF Runners, Running
    <2>. QED
        BY <2>1, Zenon DEF ProcessInv, RunningInv
<1>. QED
    BY <1>4, <1>5, <1>6, <1>7, <1>8, <1>9, <1>10, <1>11, CountingKept, ZenonT(30) DEF ProcessInv,
       ProcessType

(* A new thread has a reference of its creator, and no handle yet.         *)
LEMMA CreateThreadPreserves ==
    ASSUME ProcessInv, NEW c \in Threads, NEW t \in Threads, CreateThread(c, t),
           UNCHANGED <<request, session, server>>
    PROVE  ProcessInv'
<1>1. /\ thread[c].pc = "guest" /\ thread[t].state = "None" /\ refs' = [refs EXCEPT ![t] = refs[t] + 1]
      /\ thread' = [thread EXCEPT ![c].pc = "adding", ![c].target = t, ![t].state = "Initialized"]
      /\ UNCHANGED <<process, running, table, tasks, term, destroying>>
    BY DEF CreateThread, At, Opened
<1>2. /\ process # "Created" /\ term.pc \notin {"table", "entries", "done"} /\ c # term.by
      /\ table.closing = {} /\ thread[c].state = "Runnable" /\ ~thread[c].signaled
    BY <1>1, RunningFacts DEF Running
<1>3. /\ thread' \in [Threads -> ThreadRecords] /\ t # c
      /\ \A u \in Threads \ {c, t} : thread'[u] = thread[u]
      /\ thread'[c].pc = "adding" /\ thread'[c].state = "Runnable" /\ thread'[c].target = t
      /\ thread'[c].requested = thread[c].requested /\ thread'[c].signaled = thread[c].signaled
      /\ thread'[t].pc = thread[t].pc /\ thread'[t].state = "Initialized"
      /\ thread'[t].target = thread[t].target /\ thread'[t].requested = thread[t].requested
      /\ thread'[t].signaled = thread[t].signaled
    <2>1. t # c /\ thread[c] \in ThreadRecords /\ thread[t] \in ThreadRecords
        BY <1>1, <1>2, ProcessFacts
    <2>2. PICK r \in ThreadRecords : r = [thread[c] EXCEPT !.pc = "adding", !.target = t]
        BY <2>1, Zenon DEF ThreadRecords, Running
    <2>3. PICK q \in ThreadRecords : q = [thread[t] EXCEPT !.state = "Initialized"]
        BY <2>1, ZenonT(20) DEF ThreadRecords
    <2>4. thread' = [thread EXCEPT ![c] = r, ![t] = q]
        BY <1>1, <2>1, <2>2, <2>3, ProcessFacts, Zenon
    <2>5. /\ r.pc = "adding" /\ r.state = "Runnable" /\ r.target = t
          /\ r.requested = thread[c].requested /\ r.signaled = thread[c].signaled
          /\ q.pc = thread[t].pc /\ q.state = "Initialized" /\ q.target = thread[t].target
          /\ q.requested = thread[t].requested /\ q.signaled = thread[t].signaled
        BY <1>2, <2>1, <2>2, <2>3 DEF ThreadRecords
    <2>. QED
        BY <2>1, <2>4, <2>5, ProcessFacts, Zenon
<1>4. /\ thread[t].pc = "none" /\ t \notin Handled /\ c \notin Users(t)
      /\ \A d \in Threads : thread[d].pc = "adding" => thread[d].target # t
    <2>1. thread[t].pc = "none"
        BY <1>1, ProcessFacts, Zenon DEF ThreadInv, ThreadRecords
    <2>. QED
        BY <1>1, <2>1, ProcessFacts, Zenon DEF ThreadInv, TableInv, Users
<1>5. /\ refs' \in [Objects -> Nat] /\ refs'[t] = refs[t] + 1
      /\ \A u \in Objects \ {t} : refs'[u] = refs[u]
    BY <1>1, ProcessFacts, SMTT(20), Z3T(20) DEF Objects
<1>. USE <1>1, <1>2, <1>3, <1>4, <1>5
<1>6. ThreadInv'
    BY SMTT(20), Z3T(20) DEF ProcessInv, ThreadInv, Running
<1>7. TermInv'
    BY SMTT(20), Z3T(20) DEF ProcessInv, TermInv
<1>8. TableInv'
    BY SMTT(20), Z3T(20) DEF ProcessInv, TableInv, Handled
<1>9. TaskInv'
    BY Zenon DEF ProcessInv, TaskInv
<1>10. RequestInv'
    BY SMTT(20), Z3T(20) DEF ProcessInv, RequestInv, RequestOf, InSession
<1>11. RefsInv'
    <2>1. \A u \in Threads \ {t} : Users(u)' = Users(u)
        BY ZenonT(30) DEF Users
    <2>2. Users(t)' = Users(t) \cup {c} /\ Users(t) \in SUBSET Threads
        BY SMTT(20), Z3T(20) DEF Users
    <2>3. Cardinality(Users(t)') = Cardinality(Users(t)) + 1
        BY <2>2, OneMore, SMTT(20), Z3T(20)
    <2>4. KeptBut(t)
        BY <2>1, <2>2, <2>3, ThreadsApart, ZenonT(30) DEF KeptBut, Kept, Handled, Runs, Objects
    <2>5. Senders' = Senders
        BY Zenon DEF Senders
    <2>6. refs'[Client] = ClientHeld'
        BY <2>5, ClientKept, ThreadsApart, Zenon DEF Handled, Objects
    <2>7. refs'[t] = Held(t)'
        BY <2>1, <2>2, <2>3, CountedFacts, ThreadsApart, SMTT(20), Z3T(20) DEF ProcessInv, RefsInv,
           Held, Runs,
           Handled, Objects, One
    <2>. QED
        BY <2>4, <2>6, <2>7, RefsKept, Zenon
<1>12. ClientInv'
    BY ThreadsApart, Zenon DEF ProcessInv, ClientInv, Objects
<1>13. RunningInv'
    <2>1. Runners' = Runners
        BY SMTT(20), Z3T(20) DEF Runners, Running
    <2>. QED
        BY <2>1, Zenon DEF ProcessInv, RunningInv
<1>. QED
    BY <1>6, <1>7, <1>8, <1>9, <1>10, <1>11, <1>12, <1>13, CountingKept, ZenonT(30) DEF ProcessInv,
       ProcessType

(* A handle takes over the reference of the creator, unless the table is   *)
(* gone.                                                                   *)
LEMMA AddThreadPreserves ==
    ASSUME ProcessInv, NEW c \in Threads, AddThread(c), UNCHANGED <<request, session, server>>
    PROVE  ProcessInv'
<1>1. PICK t \in Threads, pc \in {"end", "guest"} :
          /\ thread[c].pc = "adding" /\ thread[c].target = t /\ (pc = "end" <=> thread[c].requested)
          /\ thread' = [thread EXCEPT ![c].pc = pc, ![c].target = Null]
          /\ table' = IF table.open THEN [table EXCEPT !.entries = @ \cup {t}] ELSE table
          /\ refs' = IF table.open THEN Closed(Opened(refs, t), t) ELSE Closed(refs, t)
          /\ UNCHANGED <<process, running, tasks, term, destroying>>
    BY UserFacts, Zenon DEF AddThread, At, Onward
<1>2. /\ process # "Created" /\ term.pc \notin {"table", "entries", "done"} /\ c # term.by
      /\ table.closing = {} /\ thread[c].state = "Runnable" /\ ~thread[c].signaled
    BY <1>1, RunningFacts DEF Running
<1>3. /\ thread' \in [Threads -> ThreadRecords]
      /\ \A u \in Threads \ {c} : thread'[u] = thread[u]
      /\ thread'[c].pc = pc /\ thread'[c].state = thread[c].state
      /\ thread'[c].target = Null /\ thread'[c].requested = thread[c].requested
      /\ thread'[c].signaled = thread[c].signaled
    <2>1. pc \in Pcs
        BY <1>1 DEF Pcs, Running
    <2>. QED
        BY <1>1, <2>1, ProcessFacts, TargetFacts, Zenon
<1>4. /\ t \notin Handled /\ c \in Users(t) /\ thread[t].state # "None" /\ refs[t] > 0
      /\ \A d \in Threads \ {c} : thread[d].pc = "adding" => thread[d].target # t
    BY <1>1, UserFacts, ProcessFacts DEF TableInv
<1>5. /\ refs' \in [Objects -> Nat] /\ refs'[t] = (refs[t] - 1) + One(table.open)
      /\ \A u \in Objects \ {t} : refs'[u] = refs[u]
    BY <1>1, <1>4, ProcessFacts, SMTT(20), Z3T(20) DEF Objects, Closed, Opened, One
<1>6. /\ table' \in [open : BOOLEAN, entries : SUBSET Objects, closing : SUBSET Objects]
      /\ table'.open = table.open /\ table'.closing = table.closing
      /\ \A u \in Objects : u \in table'.entries <=> u \in table.entries \/ (table.open /\ u = t)
    BY <1>1, ProcessFacts, Zenon DEF Objects
<1>. USE <1>1, <1>2, <1>3, <1>4, <1>5, <1>6
<1>7. ThreadInv'
    BY SMTT(20), Z3T(20) DEF ProcessInv, ThreadInv, Running
<1>8. TermInv'
    BY ZenonT(30) DEF ProcessInv, TermInv
<1>9. TableInv'
    BY SMTT(20), Z3T(20) DEF ProcessInv, TableInv, Handled, Objects
<1>10. TaskInv'
    BY Zenon DEF ProcessInv, TaskInv
<1>11. RequestInv'
    BY SMTT(20), Z3T(20) DEF ProcessInv, RequestInv, RequestOf, InSession
<1>12. RefsInv'
    <2>1. \A u \in Threads \ {t} : Users(u)' = Users(u)
        BY SMTT(20), Z3T(20) DEF Users
    <2>2. Users(t)' = Users(t) \ {c} /\ Users(t) \in SUBSET Threads
        BY ZenonT(30) DEF Users
    <2>3. Cardinality(Users(t)') = Cardinality(Users(t)) - 1
        BY <2>2, OneLess, SMTT(20), Z3T(20)
    <2>4. KeptBut(t)
        BY <2>1, <2>2, <2>3, ThreadsApart, SMTT(20), Z3T(20) DEF KeptBut, Kept, Handled, Runs, Objects
    <2>5. Senders' = Senders
        BY Zenon DEF Senders
    <2>6. refs'[Client] = ClientHeld'
        BY <2>5, ClientKept, ThreadsApart, Zenon DEF Handled, Objects
    <2>7. refs'[t] = Held(t)'
        BY <2>1, <2>2, <2>3, CountedFacts, ThreadsApart, SMTT(20), Z3T(20) DEF ProcessInv, RefsInv,
           Held, Runs,
           Handled, Objects, One
    <2>. QED
        BY <2>4, <2>6, <2>7, RefsKept, Zenon
<1>13. ClientInv'
    BY ThreadsApart, SMTT(20), Z3T(20) DEF ProcessInv, ClientInv, Objects
<1>14. RunningInv'
    <2>1. Runners' = Runners
        BY SMTT(20), Z3T(20) DEF Runners, Running
    <2>. QED
        BY <2>1, Zenon DEF ProcessInv, RunningInv
<1>. QED
    BY <1>7, <1>8, <1>9, <1>10, <1>11, <1>12, <1>13, <1>14, CountingKept, ZenonT(20) DEF ProcessInv,
       ProcessType

(* A thread that is to be started is looked up.                            *)
LEMMA StartThreadPreserves ==
    ASSUME ProcessInv, NEW c \in Threads, NEW t \in Threads, StartThread(c, t),
           UNCHANGED <<request, session, server>>
    PROVE  ProcessInv'
<1>1. /\ thread[c].pc = "guest" /\ t \in table.entries /\ t # c
      /\ thread' = [thread EXCEPT ![c].pc = "starting", ![c].target = t]
      /\ refs' = [refs EXCEPT ![t] = refs[t] + 1]
      /\ UNCHANGED <<process, running, table, tasks, term, destroying>>
    BY DEF StartThread, At, Opened
<1>2. /\ process # "Created" /\ term.pc \notin {"table", "entries", "done"} /\ c # term.by
      /\ table.closing = {} /\ thread[c].state = "Runnable" /\ ~thread[c].signaled
    BY <1>1, RunningFacts, Zenon DEF Running
<1>3. /\ thread' \in [Threads -> ThreadRecords]
      /\ \A u \in Threads \ {c} : thread'[u] = thread[u]
      /\ thread'[c].pc = "starting" /\ thread'[c].state = thread[c].state
      /\ thread'[c].target = t /\ thread'[c].requested = thread[c].requested
      /\ thread'[c].signaled = thread[c].signaled
    <2>1. "starting" \in Pcs
        BY DEF Pcs, Running
    <2>. QED
        BY <1>1, <2>1, ProcessFacts, TargetFacts, Zenon
<1>4. c \notin Users(t) /\ thread[t].state # "None"
    BY <1>1, ProcessFacts DEF TableInv, Users, Handled
<1>5. /\ refs' \in [Objects -> Nat] /\ refs'[t] = refs[t] + 1
      /\ \A u \in Objects \ {t} : refs'[u] = refs[u]
    BY <1>1, ProcessFacts, SMTT(20), Z3T(20) DEF Objects
<1>. USE <1>1, <1>2, <1>3, <1>4, <1>5
<1>6. ThreadInv'
    BY SMTT(20), Z3T(20) DEF ProcessInv, ThreadInv, Running
<1>7. TermInv'
    BY Zenon DEF ProcessInv, TermInv
<1>8. TableInv'
    BY SMTT(20), Z3T(20) DEF ProcessInv, TableInv, Handled
<1>9. TaskInv'
    BY Zenon DEF ProcessInv, TaskInv
<1>10. RequestInv'
    BY ZenonT(30) DEF ProcessInv, RequestInv, RequestOf, InSession
<1>11. RefsInv'
    <2>1. \A u \in Threads \ {t} : Users(u)' = Users(u)
        BY DEF Users
    <2>2. Users(t)' = Users(t) \cup {c} /\ Users(t) \in SUBSET Threads
        BY DEF Users
    <2>3. Cardinality(Users(t)') = Cardinality(Users(t)) + 1
        BY <2>2, OneMore
    <2>4. KeptBut(t)
        BY <2>1, <2>2, <2>3, ThreadsApart DEF KeptBut, Kept, Handled, Runs, Objects
    <2>5. Senders' = Senders
        BY DEF Senders
    <2>6. refs'[Client] = ClientHeld'
        BY <2>5, ClientKept, ThreadsApart DEF Handled, Objects
    <2>7. refs'[t] = Held(t)'
        BY <2>1, <2>2, <2>3, CountedFacts, ThreadsApart, SMTT(20), Z3T(20) DEF ProcessInv, RefsInv,
           Held, Runs,
           Handled, Objects, One
    <2>. QED
        BY <2>4, <2>6, <2>7, RefsKept
<1>12. ClientInv'
    BY ThreadsApart DEF ProcessInv, ClientInv, Objects
<1>13. RunningInv'
    <2>1. Runners' = Runners
        BY ZenonT(30) DEF Runners, Running
    <2>. QED
        BY <2>1 DEF ProcessInv, RunningInv
<1>. QED
    BY <1>6, <1>7, <1>8, <1>9, <1>10, <1>11, <1>12, <1>13, CountingKept, SMTT(20),
       Z3T(20) DEF ProcessInv,
       ProcessType

(* StartThread's thread can be run.                                        *)
Startable(c) ==
    /\ ~IsTerminationRequested(thread[c].target) /\ ~IsTerminationRequested(c)
    /\ thread[thread[c].target].state = "Initialized"

(* KThread::Run: the thread has a reference of its own, in the place of    *)
(* that of its starter.                                                    *)
LEMMA RunThreadPreserves ==
    ASSUME ProcessInv, NEW c \in Threads, RunThread(c), Startable(c),
           UNCHANGED <<request, session, server>>
    PROVE  ProcessInv'
<1>1. PICK t \in Threads :
          /\ thread[c].pc = "starting" /\ thread[c].target = t /\ ~thread[c].requested /\ ~thread[t].requested
          /\ thread[t].state = "Initialized" /\ c \in Users(t)
          /\ thread' = [thread EXCEPT ![c].pc = "guest", ![c].target = Null,
                                      ![t].state = "Runnable", ![t].pc = "guest"]
          /\ running' = running + 1
          /\ refs' = [[refs EXCEPT ![t] = @ + 1] EXCEPT ![t] = @ - 1]
          /\ UNCHANGED <<process, table, tasks, term, destroying>>
    BY UserFacts, Zenon DEF RunThread, Startable, At, Onward, IsTerminationRequested, Opened, Closed
<1>2. /\ process # "Created" /\ term.pc \notin {"table", "entries", "done"} /\ c # term.by
      /\ table.closing = {} /\ thread[c].state = "Runnable" /\ ~thread[c].signaled
    BY <1>1, RunningFacts, Zenon DEF Running
<1>3. /\ thread' \in [Threads -> ThreadRecords] /\ t # c
      /\ \A u \in Threads \ {c, t} : thread'[u] = thread[u]
      /\ thread'[c].pc = "guest" /\ thread'[c].state = "Runnable" /\ thread'[c].target = Null
      /\ thread'[c].requested = thread[c].requested /\ thread'[c].signaled = thread[c].signaled
      /\ thread'[t].pc = "guest" /\ thread'[t].state = "Runnable"
      /\ thread'[t].target = thread[t].target /\ thread'[t].requested = thread[t].requested
      /\ thread'[t].signaled = thread[t].signaled
    <2>1. t # c /\ thread[c] \in ThreadRecords /\ thread[t] \in ThreadRecords
        BY <1>1, <1>2, ProcessFacts, Zenon
    <2>2. PICK r \in ThreadRecords : r = [thread[c] EXCEPT !.pc = "guest", !.target = Null]
        BY <2>1, Zenon DEF ThreadRecords, Running
    <2>3. PICK q \in ThreadRecords : q = [thread[t] EXCEPT !.state = "Runnable", !.pc = "guest"]
        BY <2>1, ZenonT(20) DEF ThreadRecords, Running
    <2>4. thread' = [thread EXCEPT ![c] = r, ![t] = q]
        BY <1>1, <2>1, <2>2, <2>3, ProcessFacts, Zenon
    <2>5. /\ r.pc = "guest" /\ r.state = "Runnable" /\ r.target = Null
          /\ r.requested = thread[c].requested /\ r.signaled = thread[c].signaled
          /\ q.pc = "guest" /\ q.state = "Runnable" /\ q.target = thread[t].target
          /\ q.requested = thread[t].requested /\ q.signaled = thread[t].signaled
        BY <1>2, <2>1, <2>2, <2>3 DEF ThreadRecords
    <2>. QED
        BY <2>1, <2>4, <2>5, ProcessFacts, Zenon
<1>4. /\ thread[t].pc = "none" /\ ~thread[t].signaled /\ t # term.by
      /\ ~InSession(t) /\ request[t].refs = 0 /\ ~request[t].bound
    <2>1. thread[t].pc = "none"
        BY <1>1, ProcessFacts, Zenon DEF ThreadInv, ThreadRecords
    <2>. QED
        BY <1>1, <2>1, ProcessFacts, NoRequestFacts, Zenon DEF ThreadInv, TermInv
<1>5. refs' = refs
    BY <1>1, ProcessFacts, SMTT(20), Z3T(20) DEF Objects
<1>6. /\ thread[c].pc = "starting" /\ thread[c].target = t /\ ~thread[c].requested /\ ~thread[t].requested
      /\ thread[t].state = "Initialized" /\ c \in Users(t) /\ running' = running + 1
      /\ UNCHANGED <<process, table, tasks, term, destroying>>
    BY <1>1, Zenon
<1>. USE <1>2, <1>3, <1>4, <1>5, <1>6
<1>7. ThreadInv'
    BY SMTT(20), Z3T(20) DEF ProcessInv, ThreadInv, Running
<1>8. TermInv'
    BY SMTT(20), Z3T(20) DEF ProcessInv, TermInv
<1>9. TableInv'
    BY SMTT(20), Z3T(20) DEF ProcessInv, TableInv, Handled
<1>10. TaskInv'
    BY SMTT(20), Z3T(20) DEF ProcessInv, TaskInv
<1>11. RequestInv'
    <2>1. \A u \in Threads : InSession(u)' <=> InSession(u)
        BY Zenon DEF InSession
    <2>2. \A u \in Threads \ {t} : RequestOf(u)'
        BY <2>1, SMTT(20), Z3T(20) DEF ProcessInv, RequestInv, RequestOf, One
    <2>3. RequestOf(t)'
        BY <2>1, Zenon DEF RequestOf, One
    <2>. QED
        BY <2>2, <2>3, Zenon DEF ProcessInv, RequestInv
<1>12. RefsInv'
    <2>1. \A u \in Threads \ {t} : Users(u)' = Users(u)
        BY SMTT(20), Z3T(20) DEF Users
    <2>2. Users(t)' = Users(t) \ {c} /\ Users(t) \in SUBSET Threads
        BY SMTT(20), Z3T(20) DEF Users
    <2>3. Cardinality(Users(t)') = Cardinality(Users(t)) - 1
        BY <2>2, OneLess, ZenonT(30)
    <2>4. KeptBut(t)
        BY <2>1, <2>2, <2>3, ThreadsApart, ZenonT(30) DEF KeptBut, Kept, Handled, Runs, Objects
    <2>5. Senders' = Senders
        BY Zenon DEF Senders
    <2>6. refs'[Client] = ClientHeld'
        BY <2>5, ClientKept, ThreadsApart, Zenon DEF Handled, Objects
    <2>7. refs'[t] = Held(t)'
        <3>1. One(Runs(t)) = 0 /\ One(Runs(t)') = 1 /\ One(request'[t].bound) = One(request[t].bound)
            BY Zenon DEF Runs, One
        <3>2. refs'[t] = refs[t] /\ UNCHANGED <<table, term>>
            BY Zenon
        <3>3. One(request[t].bound) \in Nat /\ refs[t] \in Nat /\ Cardinality(Users(t)) \in Nat
            BY CountedFacts DEF One
        <3>4. Cardinality(Users(t)') \in Nat
            BY <2>2, ThreadsCounted, Zenon
        <3>. HIDE <1>2, <1>3, <1>4, <1>5, <1>6
        <3>5. refs'[t] + Cardinality(Users(t)) + One(Runs(t)) + One(request[t].bound)
              = refs[t] + Cardinality(Users(t)') + One(Runs(t)') + One(request'[t].bound)
            BY <2>3, <3>1, <3>2, <3>3, <3>4
        <3>. QED
            BY <3>2, <3>3, <3>4, <3>5, HeldMoves, Zenon
    <2>. QED
        BY <2>4, <2>6, <2>7, RefsKept, Zenon
<1>13. ClientInv'
    BY Zenon DEF ProcessInv, ClientInv
<1>14. RunningInv'
    <2>1. Runners' = Runners \cup {t} /\ Runners \in SUBSET Threads /\ t \notin Runners
        BY SMTT(20), Z3T(20) DEF Runners, Running
    <2>. QED
        BY <2>1, OneMore, Zenon DEF ProcessInv, RunningInv
<1>15. ProcessType'
    BY ProcessFacts, ZenonT(30) DEF ProcessType
<1>. QED
    BY <1>7, <1>8, <1>9, <1>10, <1>11, <1>12, <1>13, <1>14, <1>15, CountingKept, Zenon
       DEF ProcessInv

(* A thread that is not run loses the reference of its starter.            *)
LEMMA RunThreadFails ==
    ASSUME ProcessInv, NEW c \in Threads, RunThread(c), ~Startable(c),
           UNCHANGED <<request, session, server>>
    PROVE  ProcessInv'
<1>1. PICK t \in Threads, pc \in {"end", "guest"} :
          /\ thread[c].pc = "starting" /\ thread[c].target = t /\ c \in Users(t)
          /\ (pc = "end" <=> thread[c].requested) /\ refs[t] > 0
          /\ thread' = [thread EXCEPT ![c].pc = pc, ![c].target = Null]
          /\ refs' = [refs EXCEPT ![t] = refs[t] - 1]
          /\ UNCHANGED <<process, running, table, tasks, term, destroying>>
    BY UserFacts, Zenon DEF RunThread, Startable, At, Onward, IsTerminationRequested, Closed
<1>2. /\ process # "Created" /\ term.pc \notin {"table", "entries", "done"} /\ c # term.by
      /\ table.closing = {} /\ thread[c].state = "Runnable" /\ ~thread[c].signaled
    BY <1>1, RunningFacts, Zenon DEF Running
<1>3. /\ thread' \in [Threads -> ThreadRecords]
      /\ \A u \in Threads \ {c} : thread'[u] = thread[u]
      /\ thread'[c].pc = pc /\ thread'[c].state = thread[c].state
      /\ thread'[c].target = Null /\ thread'[c].requested = thread[c].requested
      /\ thread'[c].signaled = thread[c].signaled
    <2>1. pc \in Pcs
        BY <1>1 DEF Pcs, Running
    <2>. QED
        BY <1>1, <2>1, ProcessFacts, TargetFacts, Zenon
<1>4. t \in Objects
    BY DEF Objects
<1>5. /\ refs' \in [Objects -> Nat] /\ refs'[t] = refs[t] - 1
      /\ \A u \in Objects \ {t} : refs'[u] = refs[u]
    BY <1>1, ProcessFacts, SMTT(20), Z3T(20) DEF Objects
<1>. USE <1>1, <1>2, <1>3, <1>4, <1>5
<1>6. ThreadInv'
    BY SMTT(20), Z3T(20) DEF ProcessInv, ThreadInv, Running
<1>7. TermInv'
    BY ZenonT(30) DEF ProcessInv, TermInv
<1>8. TableInv'
    BY SMTT(20), Z3T(20) DEF ProcessInv, TableInv, Handled
<1>9. TaskInv'
    BY DEF ProcessInv, TaskInv
<1>10. RequestInv'
    BY SMTT(20), Z3T(20) DEF ProcessInv, RequestInv, RequestOf, InSession
<1>11. RefsInv'
    <2>1. \A u \in Threads \ {t} : Users(u)' = Users(u)
        BY SMTT(20), Z3T(20) DEF Users
    <2>2. Users(t)' = Users(t) \ {c} /\ Users(t) \in SUBSET Threads
        BY DEF Users
    <2>3. Cardinality(Users(t)') = Cardinality(Users(t)) - 1
        BY <2>2, OneLess, SMTT(20), Z3T(20)
    <2>4. KeptBut(t)
        BY <2>1, <2>2, <2>3, ThreadsApart, ZenonT(30) DEF KeptBut, Kept, Handled, Runs, Objects
    <2>5. Senders' = Senders
        BY DEF Senders
    <2>6. refs'[Client] = ClientHeld'
        BY <2>5, ClientKept, ThreadsApart, Zenon DEF Handled, Objects
    <2>7. refs'[t] = Held(t)'
        BY <2>1, <2>2, <2>3, CountedFacts, ThreadsApart, SMTT(20), Z3T(20) DEF ProcessInv, RefsInv,
           Held, Runs,
           Handled, Objects, One
    <2>. QED
        BY <2>4, <2>6, <2>7, RefsKept, Zenon
<1>12. ClientInv'
    BY ThreadsApart DEF ProcessInv, ClientInv, Objects
<1>13. RunningInv'
    <2>1. Runners' = Runners
        BY DEF Runners, Running
    <2>. QED
        BY <2>1 DEF ProcessInv, RunningInv
<1>. QED
    BY <1>6, <1>7, <1>8, <1>9, <1>10, <1>11, <1>12, <1>13, CountingKept, ZenonT(30) DEF ProcessInv,
       ProcessType

(* A handle is closed with its reference.  With the last one to the client *)
(* session its destruction begins.                                         *)
LEMMA CloseHandlePreserves ==
    ASSUME ProcessInv, NEW t \in Threads, NEW o \in Objects, CloseHandle(t, o),
           UNCHANGED <<request, session, server>>
    PROVE  ProcessInv'
<1>1. /\ thread[t].pc = "guest" /\ o \in table.entries /\ refs' = [refs EXCEPT ![o] = refs[o] - 1]
      /\ table' = [table EXCEPT !.entries = @ \ {o}]
      /\ destroying' = IF o = Client /\ refs[o] = 1 THEN t ELSE destroying
      /\ UNCHANGED <<process, thread, running, tasks, term>>
    BY DEF CloseHandle, At, Close, Closed
<1>2. /\ process # "Created" /\ term.pc \notin {"table", "entries", "done"} /\ t # term.by
      /\ table.closing = {} /\ thread[t].state = "Runnable" /\ ~thread[t].signaled
    BY <1>1, RunningFacts DEF Running
<1>3. refs[o] > 0 /\ (o = Client => destroying = Null /\ session.client = "open")
    <2>1. CASE o = Client
        BY <1>1, <2>1, HandleFacts DEF Handled
    <2>2. CASE o \in Threads
        <3>1. refs[o] = Held(o) /\ One(o \in Handled) = 1
            BY <1>1, <2>2, ProcessFacts DEF RefsInv, Handled, One
        <3>. QED
            BY <2>2, <3>1, CountedFacts, ThreadsApart, SMTT(20), Z3T(20) DEF Held, One
    <2>. QED
        BY <2>1, <2>2 DEF Objects
<1>4. /\ refs' \in [Objects -> Nat] /\ refs'[o] = refs[o] - 1
      /\ \A u \in Objects \ {o} : refs'[u] = refs[u]
    BY <1>1, <1>3, ProcessFacts
<1>5. /\ table' \in [open : BOOLEAN, entries : SUBSET Objects, closing : SUBSET Objects]
      /\ table'.open = table.open /\ table'.closing = table.closing
      /\ table'.entries = table.entries \ {o}
    BY <1>1, ProcessFacts, Zenon
<1>6. destroying' \in Threads \cup {Server, Host, Null}
    BY <1>1, ProcessFacts
<1>. USE <1>1, <1>2, <1>3, <1>4, <1>5, <1>6
<1>7. ThreadInv'
    BY Zenon DEF ProcessInv, ThreadInv, Running
<1>8. TermInv'
    BY Zenon DEF ProcessInv, TermInv
<1>9. TableInv'
    BY SMTT(20), Z3T(20) DEF ProcessInv, TableInv, Handled
<1>10. TaskInv'
    BY DEF ProcessInv, TaskInv
<1>11. RequestInv'
    BY ZenonT(30) DEF ProcessInv, RequestInv, RequestOf, InSession
<1>12. RefsInv'
    <2>1. (\A u \in Threads : Users(u)' = Users(u)) /\ Senders' = Senders
        BY DEF Users, Senders
    <2>2. KeptBut(o)
        BY <2>1 DEF KeptBut, Kept, Handled, Runs, Objects
    <2>3. refs'[Client] = ClientHeld'
        <3>1. CASE o = Client
            BY <2>1, <3>1, CountedFacts, SMTT(20), Z3T(20) DEF ProcessInv, RefsInv, ClientHeld,
               Handled, One
        <3>2. CASE o # Client
            BY <2>1, <3>2, ClientKept DEF Handled, Objects
        <3>. QED
            BY <3>1, <3>2
    <2>4. o \in Threads => refs'[o] = Held(o)'
        BY <2>1, CountedFacts, SMTT(20), Z3T(20) DEF ProcessInv, RefsInv, Held, Runs, Handled, One
    <2>. QED
        BY <2>2, <2>3, <2>4, RefsKept
<1>13. ClientInv'
    <2>1. CASE o = Client
        BY <2>1, ThreadsApart DEF ClientInv
    <2>2. CASE o # Client
        BY <2>2 DEF ProcessInv, ClientInv, Objects
    <2>. QED
        BY <2>1, <2>2
<1>14. RunningInv'
    <2>1. Runners' = Runners
        BY DEF Runners, Running
    <2>. QED
        BY <2>1 DEF ProcessInv, RunningInv
<1>. QED
    BY <1>7, <1>8, <1>9, <1>10, <1>11, <1>12, <1>13, <1>14, CountingKept, Zenon DEF ProcessInv,
       ProcessType

(* The new session has one reference, its handle.                          *)
LEMMA ConnectPreserves ==
    ASSUME ManagerInv, ProcessInv, NEW t \in Threads, Connect(t), server'.replying = server.replying
    PROVE  ProcessInv'
<1>1. /\ thread[t].pc = "guest" /\ session.client = "none" /\ table.open
      /\ session' = [session EXCEPT !.client = "open", !.server = "open", !.pending = TRUE]
      /\ table' = [table EXCEPT !.entries = @ \cup {Client}]
      /\ refs' = [refs EXCEPT ![Client] = refs[Client] + 1]
      /\ UNCHANGED <<process, thread, running, tasks, term, destroying, request>>
    BY DEF Connect, At, Opened
<1>2. /\ process # "Created" /\ term.pc \notin {"table", "entries", "done"} /\ t # term.by
      /\ table.closing = {} /\ thread[t].state = "Runnable" /\ ~thread[t].signaled
    BY <1>1, RunningFacts DEF Running
<1>3. session'.list = session.list /\ session'.current = session.current /\ session'.client = "open"
    BY <1>1 DEF ManagerInv, ManagerType, SessionRecords
<1>4. /\ destroying = Null /\ refs[Client] = 0 /\ Client \notin Handled /\ Client \in Objects
      /\ Client \notin Threads
    BY <1>1, UnusedFacts, ProcessFacts, ProcessAssumption DEF ClientInv, Objects
<1>5. /\ refs' \in [Objects -> Nat] /\ refs'[Client] = refs[Client] + 1
      /\ \A u \in Objects \ {Client} : refs'[u] = refs[u]
    BY <1>1, <1>4, ProcessFacts
<1>6. /\ table' \in [open : BOOLEAN, entries : SUBSET Objects, closing : SUBSET Objects]
      /\ table'.open = table.open /\ table'.closing = table.closing
      /\ table'.entries = table.entries \cup {Client}
    BY <1>1, <1>4, ProcessFacts, Zenon
<1>. USE <1>1, <1>2, <1>3, <1>4, <1>5, <1>6
<1>7. ThreadInv'
    BY ZenonT(30) DEF ProcessInv, ThreadInv, Running
<1>8. TermInv'
    BY Zenon DEF ProcessInv, TermInv
<1>9. TableInv'
    BY SMTT(20), Z3T(20) DEF ProcessInv, TableInv, Handled, ThreadInv
<1>10. TaskInv'
    BY DEF ProcessInv, TaskInv
<1>11. RequestInv'
    BY SMTT(20), Z3T(20) DEF ProcessInv, RequestInv, RequestOf, InSession
<1>12. RefsInv'
    <2>1. (\A u \in Threads : Users(u)' = Users(u)) /\ Senders' = Senders
        BY DEF Users, Senders
    <2>2. KeptBut(Null)
        BY <2>1 DEF KeptBut, Kept, Handled, Runs, Objects
    <2>3. refs'[Client] = ClientHeld'
        BY <2>1, CountedFacts, SMTT(20), Z3T(20) DEF ProcessInv, RefsInv, ClientHeld, Handled, One
    <2>. QED
        BY <2>2, <2>3, RefsKept, ThreadsApart
<1>13. ClientInv'
    BY DEF ProcessInv, ClientInv
<1>14. RunningInv'
    <2>1. Runners' = Runners
        BY DEF Runners, Running
    <2>. QED
        BY <2>1 DEF ProcessInv, RunningInv
<1>. QED
    BY <1>7, <1>8, <1>9, <1>10, <1>11, <1>12, <1>13, <1>14, CountingKept, Zenon DEF ProcessInv,
       ProcessType

(* A sender has a reference to the client session.                         *)
LEMMA SendSyncRequestPreserves ==
    ASSUME ProcessInv, NEW t \in Threads, SendSyncRequest(t), UNCHANGED server
    PROVE  ProcessInv'
<1>1. /\ thread[t].pc = "guest" /\ Client \in Handled /\ GoTo(t, "sending")
      /\ refs' = [refs EXCEPT ![Client] = refs[Client] + 1]
      /\ UNCHANGED <<process, running, table, tasks, term, destroying, request, session, server>>
    BY DEF SendSyncRequest, At, Opened, Handled, sessionVars
<1>2. /\ thread' \in [Threads -> ThreadRecords]
      /\ \A u \in Threads \ {t} : thread'[u] = thread[u]
      /\ thread'[t].pc = "sending" /\ thread'[t].state = thread[t].state
      /\ thread'[t].target = thread[t].target /\ thread'[t].requested = thread[t].requested
      /\ thread'[t].signaled = thread[t].signaled
    <2>1. "sending" \in Pcs
        BY Zenon DEF Pcs, Running
    <2>. QED
        BY <1>1, <2>1, ProcessFacts, GoToFacts, Zenon
<1>3. /\ process # "Created" /\ term.pc \notin {"table", "entries", "done"} /\ t # term.by
      /\ table.closing = {} /\ thread[t].state = "Runnable" /\ ~thread[t].signaled
    BY <1>1, RunningFacts, Zenon DEF Running
<1>4. /\ refs' \in [Objects -> Nat] /\ refs'[Client] = refs[Client] + 1
      /\ \A u \in Threads : refs'[u] = refs[u]
    BY <1>1, ProcessFacts, ProcessAssumption, SMTT(20), Z3T(20) DEF Objects
<1>5. destroying = Null /\ session.client = "open"
    BY <1>1, HandleFacts, Zenon
<1>6. ThreadInv'
    BY <1>1, <1>2, <1>3, <1>4, <1>5, SMTT(20), Z3T(20) DEF ProcessInv, ThreadInv, Running
<1>7. TermInv'
    BY <1>1, <1>2, <1>3, <1>4, <1>5, ZenonT(20) DEF ProcessInv, TermInv
<1>8. TableInv'
    BY <1>1, <1>2, TableOneMoves, Zenon
<1>9. TaskInv'
    BY <1>1, <1>2, <1>3, <1>4, <1>5, ZenonT(30) DEF ProcessInv, TaskInv
<1>10. RequestInv'
    BY <1>1, <1>2, <1>3, <1>4, <1>5, SMTT(20), Z3T(20) DEF ProcessInv, RequestInv, RequestOf, InSession
<1>11. RefsInv'
    <2>1. \A u \in Threads : Users(u)' = Users(u)
        BY <1>1, <1>2, Zenon DEF Users
    <2>2. Senders' = Senders \cup {t} /\ Senders \in SUBSET Threads /\ t \notin Senders
        BY <1>1, <1>2, Zenon DEF Senders
    <2>3. Cardinality(Senders') = Cardinality(Senders) + 1
        BY <2>2, OneMore, Zenon
    <2>4. KeptBut(Null)
        BY <1>1, <1>2, <1>4, <2>1, Zenon DEF KeptBut, Kept, Handled, Runs
    <2>5. refs'[Client] = ClientHeld'
        BY <1>1, <1>4, <2>3, CountedFacts, Zenon DEF ProcessInv, RefsInv, ClientHeld, Handled, One
    <2>. QED
        BY <2>4, <2>5, RefsKept, ThreadsApart, Zenon
<1>12. ClientInv'
    BY <1>1, <1>2, <1>3, <1>4, <1>5, Zenon DEF ProcessInv, ClientInv
<1>13. RunningInv'
    <2>1. Runners' = Runners
        BY <1>1, <1>2, <1>3, <1>4, <1>5, Zenon DEF Runners, Running
    <2>. QED
        BY <1>1, <1>2, <1>3, <1>4, <1>5, <2>1, Zenon DEF ProcessInv, RunningInv
<1>. QED
    BY <1>1, <1>2, <1>3, <1>4, <1>5, <1>6, <1>7, <1>8, <1>9, <1>10, <1>11, <1>12, <1>13,
       CountingKept, ZenonT(20) DEF ProcessInv, ProcessType

(* A sender that terminates, or whose session is closed, makes no request. *)
LEMMA RequestRefused ==
    ASSUME ProcessInv, NEW t \in Threads, OnRequest(t), IsClosed(session) \/ IsTerminationRequested(t),
           server'.replying = server.replying
    PROVE  ProcessInv'
<1>1. /\ thread[t].pc = "sending" /\ GoTo(t, "returning")
      /\ UNCHANGED <<process, running, refs, table, tasks, term, destroying, request, session>>
    BY Zenon DEF OnRequest, At, sessionVars
<1>2. /\ thread' \in [Threads -> ThreadRecords]
      /\ \A u \in Threads \ {t} : thread'[u] = thread[u]
      /\ thread'[t].pc = "returning" /\ thread'[t].state = thread[t].state
      /\ thread'[t].target = thread[t].target /\ thread'[t].requested = thread[t].requested
      /\ thread'[t].signaled = thread[t].signaled
    <2>1. "returning" \in Pcs
        BY Zenon DEF Pcs, Running
    <2>. QED
        BY <1>1, <2>1, ProcessFacts, GoToFacts, Zenon
<1>3. /\ process # "Created" /\ term.pc \notin {"table", "entries", "done"} /\ t # term.by
      /\ table.closing = {} /\ thread[t].state = "Runnable" /\ ~thread[t].signaled
    BY <1>1, RunningFacts, Zenon DEF Running
<1>4. ~InSession(t) /\ request[t].refs = 0 /\ ~request[t].bound
    BY <1>1, NoRequestFacts, Zenon
<1>5. ThreadInv'
    BY <1>2, <1>3, OneRunsOn, Zenon DEF Running
<1>6. TermInv'
    BY <1>1, <1>2, <1>3, <1>4, Zenon DEF ProcessInv, TermInv
<1>7. TableInv'
    BY <1>1, <1>2, TableOneMoves, Zenon
<1>8. TaskInv'
    BY <1>1, <1>2, Zenon DEF ProcessInv, TaskInv
<1>9. RequestInv'
    <2>1. \A u \in Threads : InSession(u)' <=> InSession(u)
        BY <1>1, Zenon DEF InSession
    <2>2. \A u \in Threads \ {t} : RequestOf(u)'
        BY <1>1, <1>2, <2>1, OthersRequests, Zenon
    <2>3. RequestOf(t)'
        <3>1. /\ thread'[t].pc = "returning" /\ ~InSession(t)' /\ request'[t].refs = 0 /\ 0 < 2
              /\ ~request'[t].bound
            BY <1>1, <1>2, <1>4, <2>1, SMTT(20), Z3T(20)
        <3>. QED
            BY <3>1, Zenon DEF RequestOf
    <2>. QED
        BY <1>1, <2>2, <2>3, Zenon DEF ProcessInv, RequestInv
<1>10. RefsInv'
    <2>1. \A u \in Threads : Users(u)' = Users(u)
        BY <1>1, <1>2, <1>3, <1>4, Zenon DEF Users
    <2>2. Senders' = Senders
        BY <1>1, <1>2, <1>3, <1>4, Zenon DEF Senders
    <2>3. KeptBut(Null)
        BY <1>1, <1>2, <1>3, <1>4, <2>1, Zenon DEF KeptBut, Kept, Handled, Runs
    <2>4. refs'[Client] = ClientHeld'
        BY <1>1, <1>2, <1>3, <1>4, <2>2, ClientKept, Zenon DEF Handled
    <2>. QED
        BY <2>3, <2>4, RefsKept, ThreadsApart, Zenon
<1>11. ClientInv'
    BY <1>1, <1>2, <1>3, <1>4, Zenon DEF ProcessInv, ClientInv
<1>12. RunningInv'
    <2>1. Runners' = Runners
        BY <1>1, <1>2, <1>3, <1>4, Zenon DEF Runners, Running
    <2>. QED
        BY <1>1, <1>2, <1>3, <1>4, <2>1, Zenon DEF ProcessInv, RunningInv
<1>13. ProcessType'
    BY <1>1, <1>2, ProcessFacts, ZenonT(30) DEF ProcessType
<1>. QED
    BY <1>5, <1>6, <1>7, <1>8, <1>9, <1>10, <1>11, <1>12, <1>13, CountingKept, Zenon DEF ProcessInv

(* A request that is made is new, and its thread has one more reference.   *)
LEMMA RequestMade ==
    ASSUME ManagerInv, ProcessInv, NEW t \in Threads, OnRequest(t),
           ~(IsClosed(session) \/ IsTerminationRequested(t)), server'.replying = server.replying
    PROVE  ProcessInv'
<1>1. /\ thread[t].pc = "sending" /\ ~thread[t].requested
      /\ thread' = [thread EXCEPT ![t].state = "Waiting", ![t].pc = "waiting"]
      /\ refs' = [refs EXCEPT ![t] = refs[t] + 1]
      /\ session' = [session EXCEPT !.list = Append(@, t)]
      /\ request' = [request EXCEPT ![t] = [refs |-> 2, bound |-> TRUE]]
      /\ UNCHANGED <<process, running, table, tasks, term, destroying>>
    BY Zenon DEF OnRequest, At, IsTerminationRequested, Opened
<1>2. /\ thread' \in [Threads -> ThreadRecords]
      /\ \A u \in Threads \ {t} : thread'[u] = thread[u]
      /\ thread'[t].pc = "waiting" /\ thread'[t].state = "Waiting"
      /\ thread'[t].target = thread[t].target /\ thread'[t].requested = thread[t].requested
      /\ thread'[t].signaled = thread[t].signaled
    <2>1. thread[t] \in ThreadRecords
        BY ProcessFacts
    <2>2. PICK r \in ThreadRecords : r = [thread[t] EXCEPT !.state = "Waiting", !.pc = "waiting"]
        BY <2>1, Zenon DEF ThreadRecords
    <2>3. thread' = [thread EXCEPT ![t] = r]
        BY <1>1, <2>2, Zenon
    <2>4. /\ r.pc = "waiting" /\ r.state = "Waiting" /\ r.target = thread[t].target
          /\ r.requested = thread[t].requested /\ r.signaled = thread[t].signaled
        BY <2>1, <2>2 DEF ThreadRecords
    <2>. QED
        BY <2>3, <2>4, ProcessFacts, Zenon
<1>3. /\ process # "Created" /\ term.pc \notin {"table", "entries", "done"} /\ t # term.by
      /\ table.closing = {} /\ thread[t].state = "Runnable" /\ ~thread[t].signaled
    BY <1>1, RunningFacts DEF Running
<1>4. ~InSession(t) /\ request[t].refs = 0 /\ ~request[t].bound /\ session.client = "open"
    BY <1>1, NoRequestFacts, SenderFacts
<1>5. /\ session'.list = Append(session.list, t) /\ session'.current = session.current
      /\ session'.client = session.client
    BY <1>1 DEF ManagerInv, ManagerType, SessionRecords
<1>6. /\ request' \in [Threads -> [refs : 0..2, bound : BOOLEAN]]
      /\ request'[t].refs = 2 /\ request'[t].bound = TRUE
      /\ \A u \in Threads \ {t} : request'[u] = request[u]
    BY <1>1, ProcessFacts
<1>7. /\ refs' \in [Objects -> Nat] /\ refs'[t] = refs[t] + 1
      /\ \A u \in Objects \ {t} : refs'[u] = refs[u]
    BY <1>1, ProcessFacts, SMTT(20), Z3T(20) DEF Objects
<1>8. ThreadInv'
    BY <1>1, <1>2, <1>3, <1>4, <1>5, <1>6, <1>7, SMTT(20), Z3T(20) DEF ProcessInv, ThreadInv, Running
<1>9. TermInv'
    BY <1>1, <1>2, <1>3, <1>4, <1>5, <1>6, <1>7, ZenonT(30) DEF ProcessInv, TermInv
<1>10. TableInv'
    BY <1>1, <1>2, <1>3, <1>4, <1>5, <1>6, <1>7, SMTT(20), Z3T(20) DEF ProcessInv, TableInv, Handled
<1>11. TaskInv'
    BY <1>1, <1>2, <1>3, <1>4, <1>5, <1>6, <1>7, ZenonT(30) DEF ProcessInv, TaskInv
<1>12. RequestInv'
    <2>1. IsInjective(session.list) /\ t \notin Range(session.list)
        BY <1>4, Zenon DEF ProcessInv, RequestInv, InSession
    <2>2. IsInjective(session'.list) /\ Range(session'.list) = Range(session.list) \cup {t}
        BY <1>5, <2>1, AppendFacts, SMTT(20), Z3T(20) DEF ManagerInv, ManagerType, SessionRecords
    <2>3. \A u \in Threads \ {t} : InSession(u)' <=> InSession(u)
        BY <1>5, <2>2, Zenon DEF InSession
    <2>4. InSession(t)'
        BY <2>2, Zenon DEF InSession
    <2>5. \A u \in Threads \ {t} : RequestOf(u)'
        BY <1>2, <1>6, <2>3, OthersRequests, Zenon
    <2>6. RequestOf(t)'
        <3>1. thread'[t].pc = "waiting" /\ request'[t].refs = 2 /\ request'[t].bound /\ 2 > 0
            BY <1>2, <1>6, SMTT(20), Z3T(20)
        <3>. QED
            BY <2>4, <3>1, Zenon DEF RequestOf
    <2>. QED
        BY <1>4, <1>5, <2>2, <2>5, <2>6, Zenon DEF ProcessInv, RequestInv, InSession
<1>13. RefsInv'
    <2>1. \A u \in Threads : Users(u)' = Users(u)
        BY <1>1, <1>2 DEF Users
    <2>2. KeptBut(t)
        BY <1>1, <1>2, <1>3, <1>4, <1>6, <1>7, <2>1, ThreadsApart, Zenon DEF KeptBut, Kept, Handled,
           Runs, Objects
    <2>3. Senders' = Senders
        BY <1>1, <1>2, <1>3, <1>4, <1>6, <1>7, SMTT(20), Z3T(20) DEF Senders
    <2>4. refs'[Client] = ClientHeld'
        BY <1>1, <1>2, <1>3, <1>4, <1>6, <1>7, <2>3, ClientKept, ThreadsApart, Zenon DEF Handled,
           Objects
    <2>5. refs'[t] = Held(t)'
        <3>1. /\ One(Runs(t)') = One(Runs(t)) /\ One(request[t].bound) = 0 /\ One(request'[t].bound) = 1
              /\ Users(t)' = Users(t)
            <4>1. Runs(t) /\ Runs(t)'
                BY <1>1, <1>2, <1>3 DEF Runs
            <4>. QED
                BY <1>4, <1>6, <2>1, <4>1, Zenon DEF One
        <3>2. One(Runs(t)) \in Nat /\ refs[t] \in Nat /\ Cardinality(Users(t)) \in Nat
            BY CountedFacts DEF One
        <3>3. refs'[t] = refs[t] + 1
            BY <1>7, Zenon
        <3>4. /\ refs'[t] \in Nat /\ Cardinality(Users(t)') \in Nat
              /\ refs'[t] + Cardinality(Users(t)) + One(Runs(t)) + One(request[t].bound)
                 = refs[t] + Cardinality(Users(t)') + One(Runs(t)') + One(request'[t].bound)
            BY <3>1, <3>2, <3>3
        <3>. QED
            BY <1>1, <3>4, HeldMoves, Zenon
    <2>. QED
        BY <2>2, <2>4, <2>5, RefsKept, Zenon
<1>14. ClientInv'
    BY <1>1, <1>2, <1>3, <1>4, <1>5, <1>6, <1>7, ThreadsApart, ZenonT(20) DEF ProcessInv, ClientInv,
       Objects
<1>15. RunningInv'
    <2>1. Runners' = Runners
        BY <1>1, <1>2, <1>3, <1>4, <1>5, <1>6, <1>7, SMTT(20), Z3T(20) DEF Runners, Running
    <2>. QED
        BY <1>1, <1>2, <1>3, <1>4, <1>5, <1>6, <1>7, <2>1, Zenon DEF ProcessInv, RunningInv
<1>. QED
    BY <1>1, <1>2, <1>3, <1>4, <1>5, <1>6, <1>7, <1>8, <1>9, <1>10, <1>11, <1>12, <1>13, <1>14,
       <1>15, CountingKept, ZenonT(30) DEF ProcessInv, ProcessType

(* The sender closes its request, which the session may still have, and    *)
(* the client session.                                                     *)
LEMMA ReturnPreserves ==
    ASSUME ProcessInv, NEW t \in Threads, Return(t), UNCHANGED server
    PROVE  ProcessInv'
<1>1. PICK pc \in {"end", "guest"} :
          /\ thread[t].pc = "returning" /\ (pc = "end" <=> thread[t].requested) /\ GoTo(t, pc)
          /\ refs' = Closed(IF request[t].refs > 0 THEN RefsAfterRequest(refs, t) ELSE refs, Client)
          /\ request' = IF request[t].refs > 0
                        THEN [request EXCEPT ![t] = RequestClosed(@)] ELSE request
          /\ destroying' = IF refs[Client] = 1 THEN t ELSE destroying
          /\ UNCHANGED <<process, running, table, tasks, term, session, server>>
    BY Zenon DEF Return, At, Onward
<1>2. /\ thread' \in [Threads -> ThreadRecords]
      /\ \A u \in Threads \ {t} : thread'[u] = thread[u]
      /\ thread'[t].pc = pc /\ thread'[t].state = thread[t].state
      /\ thread'[t].target = thread[t].target /\ thread'[t].requested = thread[t].requested
      /\ thread'[t].signaled = thread[t].signaled
    <2>1. pc \in Pcs
        BY <1>1, Zenon DEF Pcs, Running
    <2>. QED
        BY <1>1, <2>1, ProcessFacts, GoToFacts, Zenon
<1>3. /\ process # "Created" /\ term.pc \notin {"table", "entries", "done"} /\ t # term.by
      /\ table.closing = {} /\ thread[t].state = "Runnable" /\ ~thread[t].signaled
    BY <1>1, RunningFacts, Zenon DEF Running
<1>4. refs[Client] > 0 /\ destroying = Null /\ session.client = "open"
    BY <1>1, SenderFacts, Zenon
<1>5. /\ request[t] \in [refs : 0..2, bound : BOOLEAN] /\ (request[t].bound => request[t].refs > 0)
      /\ (request[t].refs < 2 <=> ~InSession(t)) /\ (InSession(t) => thread[t].requested)
    <2>1. RequestOf(t) /\ thread[t].pc = "returning" /\ request[t] \in [refs : 0..2, bound : BOOLEAN]
        BY <1>1, ProcessFacts, Zenon DEF RequestInv
    <2>. QED
        BY <2>1, SMTT(20), Z3T(20) DEF RequestOf
<1>6. /\ request' \in [Threads -> [refs : 0..2, bound : BOOLEAN]]
      /\ request'[t].refs = One(InSession(t)) /\ (request'[t].bound <=> InSession(t) /\ request[t].bound)
      /\ \A u \in Threads \ {t} : request'[u] = request[u]
    <2>1. CASE request[t].refs = 0
        BY <1>1, <1>5, <2>1, ProcessFacts, SMTT(20), Z3T(20) DEF One
    <2>2. CASE request[t].refs > 0
        <3>1. request' = [request EXCEPT ![t] = RequestClosed(@)]
            BY <1>1, <2>2, Zenon
        <3>2. /\ request' \in [Threads -> [refs : 0..2, bound : BOOLEAN]]
              /\ request'[t].refs = request[t].refs - 1
              /\ (request'[t].bound <=> request[t].refs = 2 /\ request[t].bound)
              /\ \A u \in Threads \ {t} : request'[u] = request[u]
            BY <2>2, <3>1, RequestClosedFacts, ProcessFacts, Zenon
        <3>3. request[t].refs = 2 <=> InSession(t)
            BY <1>5, SMTT(20), Z3T(20)
        <3>. QED
            BY <1>5, <2>2, <3>2, <3>3, SMTT(20), Z3T(20) DEF One
    <2>. QED
        BY <1>5, <2>1, <2>2, SMTT(20), Z3T(20)
<1>7. /\ refs' \in [Objects -> Nat] /\ refs'[Client] = refs[Client] - 1
      /\ refs'[t] = refs[t] - One(~InSession(t) /\ request[t].bound)
      /\ \A u \in Threads \ {t} : refs'[u] = refs[u]
    <2>1. /\ t \in Objects /\ Client \in Objects /\ t # Client /\ Client \notin Threads
          /\ refs \in [Objects -> Nat] /\ refs[t] > 0
        BY <1>1, RunningFacts, ThreadsApart, ProcessFacts, ProcessAssumption, Zenon DEF Objects, Running
    <2>2. PICK rs \in [Objects -> Nat] :
              /\ refs' = [rs EXCEPT ![Client] = @ - 1]
              /\ rs[t] = refs[t] - One(~InSession(t) /\ request[t].bound)
              /\ \A o \in Objects \ {t} : rs[o] = refs[o]
        <3>1. CASE request[t].refs = 0
            <4>1. refs' = [refs EXCEPT ![Client] = @ - 1] /\ refs[t] = refs[t] - 0
                BY <1>1, <2>1, <3>1, SMTT(20), Z3T(20) DEF Closed
            <4>2. One(~InSession(t) /\ request[t].bound) = 0
                BY <1>5, <3>1, SMTT(20), Z3T(20) DEF One
            <4>. QED
                BY <2>1, <4>1, <4>2, Zenon
        <3>2. CASE request[t].refs > 0
            <4>1. refs' = [RefsAfterRequest(refs, t) EXCEPT ![Client] = @ - 1]
                BY <1>1, <3>2, Zenon DEF Closed
            <4>2. /\ RefsAfterRequest(refs, t) \in [Objects -> Nat]
                  /\ RefsAfterRequest(refs, t)[t] = refs[t] - One(request[t].refs = 1 /\ request[t].bound)
                  /\ \A o \in Objects \ {t} : RefsAfterRequest(refs, t)[o] = refs[o]
                BY <2>1, RefsAfterRequestFacts, Zenon
            <4>3. One(request[t].refs = 1 /\ request[t].bound) = One(~InSession(t) /\ request[t].bound)
                BY <1>5, <3>2, SMTT(20), Z3T(20) DEF One
            <4>. QED
                BY <4>1, <4>2, <4>3, Zenon
        <3>. QED
            BY <1>5, <3>1, <3>2, SMTT(20), Z3T(20)
    <2>. QED
        BY <1>4, <2>1, <2>2, SMTT(20), Z3T(20) DEF Objects
<1>8. destroying' \in Threads \cup {Server, Host, Null}
    BY <1>1, ProcessFacts, Zenon
<1>9. /\ thread[t].pc = "returning" /\ (pc = "end" <=> thread[t].requested)
      /\ destroying' = IF refs[Client] = 1 THEN t ELSE destroying
      /\ UNCHANGED <<process, running, table, tasks, term, session, server>>
    BY <1>1, Zenon
<1>10. ThreadInv'
    BY <1>2, <1>3, <1>9, SMTT(20), Z3T(20) DEF ProcessInv, ThreadInv, Running
<1>11. TermInv'
    <2>1. \A u \in Threads : refs'[u] > 0 => refs[u] > 0
        BY <1>7, CountedFacts, SMTT(20), Z3T(20) DEF One
    <2>. QED
        BY <1>9, <1>2, <1>3, <2>1, Zenon DEF ProcessInv, TermInv
<1>12. TableInv'
    <2>1. table' = table /\ Handled' = Handled
        BY <1>9, Zenon DEF Handled
    <2>. QED
        BY <1>2, <1>9, <2>1, ZenonT(30) DEF ProcessInv, TableInv
<1>13. TaskInv'
    BY <1>2, <1>9, Zenon DEF ProcessInv, TaskInv
<1>14. RequestInv'
    <2>1. \A u \in Threads : InSession(u)' <=> InSession(u)
        BY <1>9, Zenon DEF InSession
    <2>2. \A u \in Threads \ {t} : RequestOf(u)'
        BY <1>2, <1>6, <2>1, OthersRequests, Zenon
    <2>3. RequestOf(t)'
        BY <1>9, <1>2, <1>5, <1>6, <2>1, SMTT(20), Z3T(20) DEF RequestOf, One
    <2>. QED
        BY <1>9, <2>2, <2>3, Zenon DEF ProcessInv, RequestInv
<1>15. RefsInv'
    <2>1. \A u \in Threads : Users(u)' = Users(u)
        BY <1>9, <1>2, Zenon DEF Users
    <2>2. Senders' = Senders \ {t} /\ Senders \in SUBSET Threads /\ t \in Senders
        BY <1>9, <1>2, Zenon DEF Senders
    <2>3. Cardinality(Senders') = Cardinality(Senders) - 1
        BY <2>2, OneLess, Zenon
    <2>4. KeptBut(t)
        BY <1>9, <1>2, <1>6, <1>7, <2>1, Zenon DEF KeptBut, Kept, Handled, Runs
    <2>5. refs'[Client] = ClientHeld'
        BY <1>9, <1>7, <2>3, CountedFacts, SMTT(20), Z3T(20) DEF ProcessInv, RefsInv, ClientHeld,
           Handled, One
    <2>6. refs'[t] = Held(t)'
        <3>1. refs[t] = Held(t)
            BY ProcessFacts, Zenon DEF RefsInv
        <3>2. /\ One((t \in Handled)') = One(t \in Handled) /\ One(Runs(t)') = One(Runs(t))
              /\ One((term.child = t)') = One(term.child = t)
              /\ One((request[t].bound)') = One(request[t].bound) - One(~InSession(t) /\ request[t].bound)
              /\ One(t \in Handled) \in Nat /\ One(Runs(t)) \in Nat /\ One(term.child = t) \in Nat
              /\ One(request[t].bound) \in Nat /\ One(~InSession(t) /\ request[t].bound) \in Nat
            <4>1. /\ (t \in Handled)' <=> t \in Handled
                  /\ Runs(t)' <=> Runs(t)
                  /\ (term.child = t)' <=> term.child = t
                BY <1>2, <1>3, <1>9, Zenon DEF Handled, Runs
            <4>2. request'[t].bound <=> InSession(t) /\ request[t].bound
                BY <1>6, Zenon
            <4>3. One(request'[t].bound) = One(request[t].bound) - One(~InSession(t) /\ request[t].bound)
                BY <4>2 DEF One
            <4>4. /\ One(t \in Handled) \in Nat /\ One(Runs(t)) \in Nat /\ One(term.child = t) \in Nat
                  /\ One(request[t].bound) \in Nat /\ One(~InSession(t) /\ request[t].bound) \in Nat
                BY DEF One
            <4>. QED
                BY <4>1, <4>3, <4>4, Zenon DEF One
        <3>3. Cardinality(Users(t)) \in Nat /\ Cardinality(Users(t)') = Cardinality(Users(t))
            BY <2>1, CountedFacts
        <3>4. /\ Held(t)' = Cardinality(Users(t)') + One((t \in Handled)') + One(Runs(t)')
                            + One((term.child = t)') + One((request[t].bound)')
              /\ Held(t) = Cardinality(Users(t)) + One(t \in Handled) + One(Runs(t))
                           + One(term.child = t) + One(request[t].bound)
            BY Zenon DEF Held, One
        <3>5. refs'[t] = refs[t] - One(~InSession(t) /\ request[t].bound)
            BY <1>7, Zenon
        <3>. QED
            BY <3>1, <3>2, <3>3, <3>4, <3>5, SMTT(20), Z3T(20)
    <2>. QED
        BY <2>4, <2>5, <2>6, RefsKept, Zenon
<1>16. ClientInv'
    BY <1>9, <1>4, <1>7, CountedFacts, ThreadsApart, SMTT(20), Z3T(20) DEF ProcessInv, ClientInv
<1>17. RunningInv'
    <2>1. Runners' = Runners
        BY <1>2, <1>3, <1>9, Zenon DEF Runners, Running
    <2>. QED
        BY <1>9, <2>1, Zenon DEF ProcessInv, RunningInv
<1>18. ProcessType'
    BY <1>2, <1>6, <1>7, <1>8, <1>9, ProcessFacts, Zenon DEF ProcessType
<1>. QED
    BY <1>10, <1>11, <1>12, <1>13, <1>14, <1>15, <1>16, <1>17, <1>18, CountingKept, Zenon
       DEF ProcessInv

(* A thread exits.  If it is the last one, it terminates the process, and  *)
(* nobody has been asked to terminate.                                     *)
LEMMA ExitPreserves ==
    ASSUME ProcessInv, NEW t \in Threads, Exit(t), UNCHANGED <<request, session, server>>
    PROVE  ProcessInv'
<1>1. PICK last \in BOOLEAN :
          /\ thread[t].pc \in {"guest", "end"} /\ GoTo(t, "exiting") /\ running' = running - 1
          /\ last => process = "Running"
          /\ process' = IF last THEN "Terminating" ELSE process
          /\ term' = IF last THEN [by |-> t, pc |-> "request", child |-> Null] ELSE term
          /\ UNCHANGED <<refs, table, tasks, destroying>>
    <2>1. (running = 1 /\ process = "Running") \in BOOLEAN
        BY Zenon
    <2>. QED
        BY <2>1, Zenon DEF Exit, At
<1>2. /\ thread' \in [Threads -> ThreadRecords]
      /\ \A u \in Threads \ {t} : thread'[u] = thread[u]
      /\ thread'[t].pc = "exiting" /\ thread'[t].state = thread[t].state
      /\ thread'[t].target = thread[t].target /\ thread'[t].requested = thread[t].requested
      /\ thread'[t].signaled = thread[t].signaled
    <2>1. "exiting" \in Pcs
        BY Zenon DEF Pcs, Running
    <2>. QED
        BY <1>1, <2>1, ProcessFacts, GoToFacts, Zenon
<1>3. /\ process # "Created" /\ term.pc \notin {"table", "entries", "done"} /\ t # term.by
      /\ table.closing = {} /\ thread[t].state = "Runnable" /\ ~thread[t].signaled
    BY <1>1, RunningFacts, Zenon DEF Running
<1>4. /\ process' \in {"Created", "Running", "Terminating", "Terminated"}
      /\ term' \in [by : Threads \cup {Server, Host, Null}, child : Threads \cup {Null},
                    pc : {"none", "request", "pick", "child", "wait", "table", "entries", "done"}]
    BY <1>1, ProcessFacts, Zenon
<1>5. /\ term'.child = term.child
      /\ last => /\ term'.by = t /\ term'.pc = "request" /\ ~thread[t].requested /\ term'.child = Null
                 /\ process' = "Terminating" /\ term.pc = "none"
      /\ ~last => term' = term /\ process' = process
    BY <1>1, ProcessFacts, Zenon DEF TermInv
<1>6. ThreadInv'
    <2>1. thread[t].pc \in {"guest", "end"}
        BY <1>1, Zenon
    <2>. QED
        BY <1>2, <1>3, <2>1, SMTT(20), Z3T(20) DEF ProcessInv, ThreadInv, Running
<1>7. TermInv'
    <2>1. CASE last
        BY <1>1, <1>2, <1>5, <2>1, ThreadsApart, Zenon DEF TermInv
    <2>2. CASE ~last
        BY <1>1, <1>2, <1>3, <1>5, <2>2, Zenon DEF ProcessInv, TermInv
    <2>. QED
        BY <2>1, <2>2
<1>8. TableInv'
    <2>1. table' = table /\ Handled' = Handled
        BY <1>1, Zenon DEF Handled
    <2>2. CASE last
        BY <1>2, <1>3, <1>5, <2>1, <2>2, ZenonT(30) DEF ProcessInv, TableInv
    <2>3. CASE ~last
        BY <1>2, <1>5, <2>1, <2>3, SMTT(20), Z3T(20) DEF ProcessInv, TableInv
    <2>. QED
        BY <2>2, <2>3
<1>9. TaskInv'
    BY <1>1, <1>2, <1>3, <1>4, <1>5, ZenonT(30) DEF ProcessInv, TaskInv
<1>10. RequestInv'
    <2>1. \A u \in Threads : InSession(u)' <=> InSession(u)
        BY Zenon DEF InSession
    <2>2. \A u \in Threads \ {t} : RequestOf(u)'
        BY <1>2, <2>1, OthersRequests, Zenon
    <2>3. RequestOf(t)'
        <3>1. thread[t].pc \in {"guest", "end"} /\ RequestOf(t)
            BY <1>1, ProcessFacts, Zenon DEF RequestInv
        <3>. QED
            BY <1>2, <2>1, <3>1, Zenon DEF RequestOf, One
    <2>. QED
        BY <2>2, <2>3, Zenon DEF ProcessInv, RequestInv
<1>11. RefsInv'
    <2>1. \A u \in Threads : Users(u)' = Users(u)
        BY <1>1, <1>2, <1>3, <1>4, <1>5, SMTT(20), Z3T(20) DEF Users
    <2>2. Senders' = Senders
        BY <1>1, <1>2, <1>3, <1>4, <1>5, Zenon DEF Senders
    <2>3. KeptBut(Null)
        BY <1>1, <1>2, <1>3, <1>4, <1>5, <2>1, ZenonT(20) DEF KeptBut, Kept, Handled, Runs
    <2>4. refs'[Client] = ClientHeld'
        BY <1>1, <1>2, <1>3, <1>4, <1>5, <2>2, ClientKept, Zenon DEF Handled
    <2>. QED
        BY <2>3, <2>4, RefsKept, ThreadsApart
<1>12. ClientInv'
    BY <1>1, <1>2, <1>3, <1>4, <1>5, Zenon DEF ProcessInv, ClientInv
<1>13. RunningInv'
    <2>1. Runners' = Runners \ {t} /\ Runners \in SUBSET Threads /\ t \in Runners
        BY <1>1, <1>2, Zenon DEF Runners, Running
    <2>. QED
        BY <1>1, <2>1, OneLess, Zenon DEF ProcessInv, RunningInv
<1>. QED
    BY <1>1, <1>2, <1>3, <1>4, <1>5, <1>6, <1>7, <1>8, <1>9, <1>10, <1>11, <1>12, <1>13,
       CountingKept, Zenon DEF ProcessInv, ProcessType

(* A thread that is gone has a task of the worker.                         *)
LEMMA ExitFinishPreserves ==
    ASSUME ProcessInv, NEW t \in Threads, ExitFinish(t), UNCHANGED <<request, session, server>>
    PROVE  ProcessInv'
<1>1. /\ thread[t].pc = "exiting"
      /\ thread' = [thread EXCEPT ![t].state = "Terminated", ![t].pc = "gone", ![t].suspended = "never"]
      /\ tasks' = Append(tasks, t) /\ UNCHANGED <<process, running, refs, table, term, destroying>>
    BY Zenon DEF ExitFinish, At
<1>2. /\ thread' \in [Threads -> ThreadRecords]
      /\ \A u \in Threads \ {t} : thread'[u] = thread[u]
      /\ thread'[t].pc = "gone" /\ thread'[t].state = "Terminated"
      /\ thread'[t].target = thread[t].target /\ thread'[t].requested = thread[t].requested
      /\ thread'[t].signaled = thread[t].signaled
    <2>1. thread[t] \in ThreadRecords
        BY ProcessFacts, Zenon
    <2>2. PICK r \in ThreadRecords :
              r = [thread[t] EXCEPT !.state = "Terminated", !.pc = "gone", !.suspended = "never"]
        BY <2>1, Zenon DEF ThreadRecords
    <2>3. thread' = [thread EXCEPT ![t] = r]
        BY <1>1, <2>2, Zenon
    <2>4. /\ r.pc = "gone" /\ r.state = "Terminated" /\ r.target = thread[t].target
          /\ r.requested = thread[t].requested /\ r.signaled = thread[t].signaled
        BY <2>1, <2>2 DEF ThreadRecords
    <2>. QED
        BY <2>3, <2>4, ProcessFacts, Zenon
<1>3. thread[t].state = "Runnable" /\ ~thread[t].signaled /\ t \notin Range(tasks) /\ process # "Created"
    BY <1>1, ProcessFacts, SMTT(20), Z3T(20) DEF ThreadInv, TaskInv, TermInv, NewThread
<1>4. /\ tasks' \in Seq(Threads) /\ Range(tasks') = Range(tasks) \cup {t}
      /\ IsInjective(tasks')
    BY <1>1, <1>3, AppendFacts, ProcessFacts, SMTT(20), Z3T(20) DEF TaskInv
<1>. USE <1>1, <1>2, <1>3, <1>4
<1>5. ThreadInv'
    BY ZenonT(30) DEF ProcessInv, ThreadInv, Running
<1>6. TermInv'
    BY Zenon DEF ProcessInv, TermInv
<1>7. TableInv'
    BY SMTT(20), Z3T(20) DEF ProcessInv, TableInv, Handled
<1>8. TaskInv'
    BY Zenon DEF ProcessInv, TaskInv
<1>9. RequestInv'
    BY ZenonT(30) DEF ProcessInv, RequestInv, RequestOf, InSession
<1>10. RefsInv'
    <2>1. \A u \in Threads : Users(u)' = Users(u)
        BY DEF Users
    <2>2. Senders' = Senders
        BY DEF Senders
    <2>3. KeptBut(Null)
        BY <2>1 DEF KeptBut, Kept, Handled, Runs
    <2>4. refs'[Client] = ClientHeld'
        BY <2>2, ClientKept DEF Handled
    <2>. QED
        BY <2>3, <2>4, RefsKept, ThreadsApart
<1>11. ClientInv'
    BY DEF ProcessInv, ClientInv
<1>12. RunningInv'
    <2>1. Runners' = Runners
        BY DEF Runners, Running
    <2>. QED
        BY <2>1 DEF ProcessInv, RunningInv
<1>. QED
    BY <1>5, <1>6, <1>7, <1>8, <1>9, <1>10, <1>11, <1>12, CountingKept, SMTT(20),
       Z3T(20) DEF ProcessInv, ProcessType

(* The worker closes the reference of the thread to itself.                *)
LEMMA FinishTerminationPreserves ==
    ASSUME ProcessInv, FinishTermination, UNCHANGED <<request, session, server>>
    PROVE  ProcessInv'
<1>1. PICK t \in Threads :
          /\ t = Head(tasks) /\ tasks # <<>> /\ tasks' = Tail(tasks)
          /\ thread' = [thread EXCEPT ![t].signaled = TRUE] /\ refs' = [refs EXCEPT ![t] = refs[t] - 1]
          /\ UNCHANGED <<process, running, table, term, destroying>>
    BY ProcessFacts, TailFacts, Zenon DEF FinishTermination, Closed
<1>2. /\ thread' \in [Threads -> ThreadRecords]
      /\ \A u \in Threads \ {t} : thread'[u] = thread[u]
      /\ thread'[t].pc = thread[t].pc /\ thread'[t].state = thread[t].state
      /\ thread'[t].target = thread[t].target /\ thread'[t].requested = thread[t].requested
      /\ thread'[t].signaled = TRUE
    <2>1. thread[t] \in ThreadRecords
        BY ProcessFacts, Zenon
    <2>2. PICK r \in ThreadRecords : r = [thread[t] EXCEPT !.signaled = TRUE]
        BY <2>1, Zenon DEF ThreadRecords
    <2>3. thread' = [thread EXCEPT ![t] = r]
        BY <1>1, <2>2
    <2>4. /\ r.pc = thread[t].pc /\ r.state = thread[t].state /\ r.target = thread[t].target
          /\ r.requested = thread[t].requested /\ r.signaled = TRUE
        BY <2>1, <2>2 DEF ThreadRecords
    <2>. QED
        BY <2>3, <2>4, ProcessFacts, Zenon
<1>3. /\ tasks' \in Seq(Threads) /\ Range(tasks) = {t} \cup Range(tasks')
      /\ IsInjective(tasks') /\ t \notin Range(tasks')
    BY <1>1, TailFacts, ProcessFacts DEF TaskInv
<1>4. /\ thread[t].pc = "gone" /\ ~thread[t].signaled /\ process # "Created" /\ refs[t] > 0
    <2>1. thread[t].pc = "gone" /\ ~thread[t].signaled
        BY <1>1, <1>3, ProcessFacts, Zenon DEF TaskInv
    <2>2. refs[t] > 0
        BY <2>1, CountedFacts, SMTT(20), Z3T(20) DEF ProcessInv, RefsInv, Held, Runs, One
    <2>. QED
        BY <2>1, <2>2, SMTT(20), Z3T(20) DEF ProcessInv, TermInv, NewThread
<1>5. /\ refs' \in [Objects -> Nat] /\ refs'[t] = refs[t] - 1
      /\ \A u \in Objects \ {t} : refs'[u] = refs[u]
    BY <1>1, <1>4, ProcessFacts, SMTT(20), Z3T(20) DEF Objects
<1>. USE <1>1, <1>2, <1>3, <1>4, <1>5
<1>6. ThreadInv'
    BY SMTT(20), Z3T(20) DEF ProcessInv, ThreadInv, Running
<1>7. TermInv'
    BY SMTT(20), Z3T(20) DEF ProcessInv, TermInv, Objects
<1>8. TableInv'
    BY SMTT(20), Z3T(20) DEF ProcessInv, TableInv, Handled
<1>9. TaskInv'
    BY Zenon DEF ProcessInv, TaskInv
<1>10. RequestInv'
    BY SMTT(20), Z3T(20) DEF ProcessInv, RequestInv, RequestOf, InSession
<1>11. RefsInv'
    <2>1. \A u \in Threads : Users(u)' = Users(u)
        BY Zenon DEF Users
    <2>2. Runs(t) /\ ~Runs(t)'
        BY Zenon DEF Runs
    <2>3. refs[t] = Held(t)
        BY ProcessFacts, Zenon DEF RefsInv
    <2>4. KeptBut(t)
        BY <2>1, <2>2, <2>3, ThreadsApart, Zenon DEF KeptBut, Kept, Handled, Runs, Objects
    <2>5. Senders' = Senders
        BY DEF Senders
    <2>6. refs'[Client] = ClientHeld'
        BY <2>5, ClientKept, ThreadsApart, Zenon DEF Handled, Objects
    <2>7. refs'[t] = Held(t)'
        <3>1. /\ One(Runs(t)) = 1 /\ One(Runs(t)') = 0 /\ One(request'[t].bound) = One(request[t].bound)
              /\ Users(t)' = Users(t)
            BY <2>1, <2>2, Zenon DEF One
        <3>2. One(request[t].bound) \in Nat /\ refs[t] \in Nat /\ Cardinality(Users(t)) \in Nat
            BY CountedFacts DEF One
        <3>3. refs'[t] = refs[t] - 1 /\ refs[t] > 0 /\ UNCHANGED <<table, term>>
            BY Zenon
        <3>. HIDE <1>1, <1>2, <1>3, <1>4, <1>5
        <3>4. /\ refs'[t] \in Nat /\ Cardinality(Users(t)') \in Nat
              /\ refs'[t] + Cardinality(Users(t)) + One(Runs(t)) + One(request[t].bound)
                 = refs[t] + Cardinality(Users(t)') + One(Runs(t)') + One(request'[t].bound)
            BY <3>1, <3>2, <3>3
        <3>. QED
            BY <3>3, <3>4, HeldMoves, Zenon
    <2>. QED
        BY <2>4, <2>6, <2>7, RefsKept, Zenon
<1>12. ClientInv'
    BY ThreadsApart DEF ProcessInv, ClientInv, Objects
<1>13. RunningInv'
    <2>1. Runners' = Runners
        BY Zenon DEF Runners, Running
    <2>. QED
        BY <2>1 DEF ProcessInv, RunningInv
<1>. QED
    BY <1>6, <1>7, <1>8, <1>9, <1>10, <1>11, <1>12, <1>13, CountingKept, SMTT(20),
       Z3T(20) DEF ProcessInv,
       ProcessType

-----------------------------------------------------------------------------
(* KProcess::Terminate.                                                    *)

(* RequestTerminate of one thread,                                         *)
LEMMA RequestTerminateFacts ==
    ASSUME NEW r \in ThreadRecords
    PROVE  /\ RequestTerminate(r) \in ThreadRecords /\ RequestTerminate(r).requested
           /\ RequestTerminate(r).target = r.target
           /\ (RequestTerminate(r).signaled <=> r.signaled)
           /\ (r.requested => RequestTerminate(r) = r)
           /\ (~r.requested /\ r.state = "Initialized" =>
                 RequestTerminate(r).state = "Terminated" /\ RequestTerminate(r).pc = r.pc)
           /\ (~r.requested /\ r.state = "Waiting" =>
                 RequestTerminate(r).state = "Runnable" /\ RequestTerminate(r).pc = "returning")
           /\ (~r.requested /\ r.state \notin {"Initialized", "Waiting"} =>
                 RequestTerminate(r).state = r.state /\ RequestTerminate(r).pc = r.pc)
<1>1. CASE r.requested
    BY <1>1 DEF RequestTerminate, ThreadRecords
<1>2. CASE ~r.requested /\ r.state = "Initialized"
    <2>1. RequestTerminate(r) = [r EXCEPT !.requested = TRUE, !.state = "Terminated"]
        BY <1>2 DEF RequestTerminate
    <2>. QED
        BY <1>2, <2>1, Zenon DEF ThreadRecords
<1>3. CASE ~r.requested /\ r.state = "Waiting"
    <2>1. PICK s \in {"no", "yes", "never"} : RequestTerminate(r) =
              [r EXCEPT !.requested = TRUE, !.suspended = s, !.state = "Runnable", !.pc = "returning"]
        BY <1>3, Zenon DEF RequestTerminate, ThreadRecords
    <2>. QED
        BY <1>3, <2>1, Zenon DEF ThreadRecords, Running
<1>4. CASE ~r.requested /\ r.state \notin {"Initialized", "Waiting"}
    <2>1. PICK s \in {"no", "yes", "never"} : RequestTerminate(r) =
              [r EXCEPT !.requested = TRUE, !.suspended = s, !.state = r.state, !.pc = r.pc]
        BY <1>4, Zenon DEF RequestTerminate, ThreadRecords
    <2>. QED
        BY <1>4, <2>1, Zenon DEF ThreadRecords
<1>. QED
    BY <1>1, <1>2, <1>3, <1>4, Zenon

(* and of those of a set.                                                  *)
Asked(S) ==
    thread' = [t \in Threads |-> IF t \in S THEN RequestTerminate(thread[t]) ELSE thread[t]]

(* What becomes of the threads that are asked to terminate.                *)
LEMMA AskedFacts ==
    ASSUME ProcessInv, NEW S \in SUBSET Threads, Asked(S)
    PROVE  /\ thread' \in [Threads -> ThreadRecords]
           /\ \A t \in Threads \ S : thread'[t] = thread[t]
           /\ \A t \in S :
                 /\ thread'[t].requested /\ thread'[t].target = thread[t].target
                 /\ (thread'[t].signaled <=> thread[t].signaled)
                 /\ thread[t].pc = "waiting" =>
                       thread'[t].pc = "returning" /\ thread'[t].state = "Runnable"
                 /\ thread[t].pc # "waiting" =>
                       /\ thread'[t].pc = thread[t].pc
                       /\ \/ thread'[t].state = thread[t].state
                          \/ thread[t].pc = "none" /\ thread'[t].state = "Terminated"
<1>1. \A t \in Threads : thread'[t] = IF t \in S THEN RequestTerminate(thread[t]) ELSE thread[t]
    BY Zenon DEF Asked
<1>2. ASSUME NEW t \in Threads
      PROVE  thread[t] \in ThreadRecords /\ thread'[t] \in ThreadRecords
    <2>1. thread[t] \in ThreadRecords
        BY ProcessFacts, Zenon
    <2>2. RequestTerminate(thread[t]) \in ThreadRecords
        BY <2>1, RequestTerminateFacts, Zenon
    <2>. QED
        BY <1>1, <2>1, <2>2, Zenon
<1>3. thread' \in [Threads -> ThreadRecords]
    BY <1>2, Zenon DEF Asked
<1>4. ASSUME NEW t \in S
      PROVE  /\ thread'[t].requested /\ thread'[t].target = thread[t].target
             /\ (thread'[t].signaled <=> thread[t].signaled)
             /\ thread[t].pc = "waiting" => thread'[t].pc = "returning" /\ thread'[t].state = "Runnable"
             /\ thread[t].pc # "waiting" =>
                   /\ thread'[t].pc = thread[t].pc
                   /\ \/ thread'[t].state = thread[t].state
                      \/ thread[t].pc = "none" /\ thread'[t].state = "Terminated"
    <2>1. thread'[t] = RequestTerminate(thread[t]) /\ thread[t] \in ThreadRecords
        BY <1>1, <1>2, Zenon
    <2>2. /\ thread[t].state = "Waiting" <=> thread[t].pc = "waiting"
          /\ thread[t].state = "Initialized" => thread[t].pc = "none"
          /\ thread[t].pc = "waiting" => ~thread[t].requested
        BY <2>1, ProcessFacts, Zenon DEF ThreadInv, ThreadRecords, Running
    <2>. QED
        BY <2>1, <2>2, RequestTerminateFacts, SMTT(20), Z3T(20)
<1>. QED
    BY <1>1, <1>3, <1>4, Zenon

(* What counts of a thread stays as it is: one that waited has yet to      *)
(* return, and may do so.                                                  *)
LEMMA AskedKeeps ==
    ASSUME ProcessInv, NEW S \in SUBSET Threads, Asked(S),
           UNCHANGED <<running, tasks, request, session, server>>
    PROVE  /\ ThreadInv' /\ TaskInv' /\ RequestInv' /\ RunningInv'
           /\ (\A t \in Threads : Users(t)' = Users(t) /\ (Runs(t)' <=> Runs(t))) /\ Senders' = Senders
<1>1. /\ thread' \in [Threads -> ThreadRecords]
      /\ \A t \in Threads \ S : thread'[t] = thread[t]
      /\ \A t \in S :
            /\ thread'[t].requested /\ thread'[t].target = thread[t].target
            /\ (thread'[t].signaled <=> thread[t].signaled)
            /\ thread[t].pc = "waiting" =>
                  thread'[t].pc = "returning" /\ thread'[t].state = "Runnable"
            /\ thread[t].pc # "waiting" =>
                  /\ thread'[t].pc = thread[t].pc
                  /\ \/ thread'[t].state = thread[t].state
                     \/ thread[t].pc = "none" /\ thread'[t].state = "Terminated"
    BY AskedFacts, Zenon
<1>2. \A t \in Threads :
          /\ thread'[t].target = thread[t].target /\ (thread'[t].signaled <=> thread[t].signaled)
          /\ thread'[t].pc = thread[t].pc \/ (thread[t].pc = "waiting" /\ thread'[t].pc = "returning")
          /\ thread[t].state # "None" => thread'[t].state # "None"
    BY <1>1, ProcessFacts, Zenon
<1>3. /\ \A t \in Threads : Users(t)' = Users(t) /\ (Runs(t)' <=> Runs(t))
      /\ Senders' = Senders /\ Runners' = Runners
    BY <1>2, ZenonT(20) DEF Users, Runs, Senders, Runners, Running
<1>4. ThreadInv'
    <2>1. ASSUME NEW t \in Threads
          PROVE  /\ thread'[t].pc = "none" => thread'[t].state \in {"None", "Initialized", "Terminated"}
                 /\ thread'[t].pc \in Running \cup {"exiting"} => thread'[t].state = "Runnable"
                 /\ thread'[t].pc = "waiting" => thread'[t].state = "Waiting" /\ ~thread'[t].requested
                 /\ thread'[t].pc = "gone" => thread'[t].state = "Terminated"
        <3>1. /\ thread[t].pc = "none" => thread[t].state \in {"None", "Initialized", "Terminated"}
              /\ thread[t].pc \in Running \cup {"exiting"} => thread[t].state = "Runnable"
              /\ thread[t].pc = "waiting" => thread[t].state = "Waiting" /\ ~thread[t].requested
              /\ thread[t].pc = "gone" => thread[t].state = "Terminated"
            BY ProcessFacts, Zenon DEF ThreadInv
        <3>2. CASE t \notin S
            BY <1>1, <3>1, <3>2, Zenon
        <3>3. CASE t \in S /\ thread[t].pc = "waiting"
            <4>1. thread'[t].pc = "returning" /\ thread'[t].state = "Runnable"
                BY <1>1, <3>3, Zenon
            <4>. QED
                BY <4>1
        <3>4. CASE t \in S /\ thread[t].pc # "waiting"
            <4>1. /\ thread'[t].pc = thread[t].pc
                  /\ \/ thread'[t].state = thread[t].state
                     \/ thread[t].pc = "none" /\ thread'[t].state = "Terminated"
                BY <1>1, <3>4, Zenon
            <4>. HIDE <1>1
            <4>. QED
                BY <3>1, <3>4, <4>1 DEF Running
        <3>. QED
            BY <3>2, <3>3, <3>4, Zenon
    <2>2. ASSUME NEW t \in Threads
          PROVE  /\ thread'[t].signaled => thread'[t].pc = "gone"
                 /\ thread'[t].pc \in {"adding", "starting"} =>
                       thread'[t].target \in Threads /\ thread'[thread'[t].target].state # "None"
        <3>1. /\ thread[t].signaled => thread[t].pc = "gone"
              /\ thread[t].pc \in {"adding", "starting"} =>
                    thread[t].target \in Threads /\ thread[thread[t].target].state # "None"
            BY ProcessFacts, Zenon DEF ThreadInv
        <3>2. /\ thread'[t].target = thread[t].target /\ (thread'[t].signaled <=> thread[t].signaled)
              /\ thread'[t].pc = thread[t].pc \/ (thread[t].pc = "waiting" /\ thread'[t].pc = "returning")
            BY <1>2, Zenon
        <3>3. thread'[t].pc \in {"adding", "starting", "gone"} \/ thread'[t].signaled =>
                 thread'[t].pc = thread[t].pc
            BY <3>1, <3>2, Zenon
        <3>. QED
            BY <1>2, <3>1, <3>2, <3>3, Zenon
    <2>. QED
        BY <2>1, <2>2, Zenon DEF ThreadInv
<1>5. TaskInv'
    BY <1>2, Zenon DEF ProcessInv, TaskInv
<1>6. RequestInv'
    <2>1. ASSUME NEW t \in Threads
          PROVE  RequestOf(t)'
        <3>1. InSession(t)' <=> InSession(t)
            BY Zenon DEF InSession
        <3>2. RequestOf(t)
            BY ProcessFacts, Zenon DEF RequestInv
        <3>3. CASE t \in S
            BY <1>1, <3>1, <3>2, <3>3, Zenon DEF RequestOf, One
        <3>4. CASE t \notin S
            BY <1>1, <3>1, <3>2, <3>4, Zenon DEF RequestOf, One
        <3>. QED
            BY <3>3, <3>4
    <2>. QED
        BY <2>1, Zenon DEF ProcessInv, RequestInv
<1>7. RunningInv'
    BY <1>3, Zenon DEF ProcessInv, RunningInv
<1>. QED
    BY <1>3, <1>4, <1>5, <1>6, <1>7, Zenon

(* Terminate by a service or the host: another one may have been there     *)
(* before.                                                                 *)
LEMMA BeginTerminateKeeps ==
    ASSUME ProcessInv, NEW e \in {Server, Host}, BeginTerminate(e), UNCHANGED <<request, session>>,
           server'.replying = server.replying
    PROVE  ProcessInv'
<1>1. /\ UNCHANGED <<thread, running, refs, table, tasks, destroying>>
      /\ process = "Running" => /\ process' = "Terminating"
                                /\ term' = [by |-> e, pc |-> "request", child |-> Null]
      /\ process # "Running" => UNCHANGED <<process, term>>
    BY Zenon DEF BeginTerminate
<1>2. /\ process' \in {"Created", "Running", "Terminating", "Terminated"}
      /\ term' \in [by : Threads \cup {Server, Host, Null}, child : Threads \cup {Null},
                    pc : {"none", "request", "pick", "child", "wait", "table", "entries", "done"}]
    <2>1. CASE process = "Running"
        BY <1>1, <2>1, SMTT(20), Z3T(20)
    <2>2. CASE process # "Running"
        BY <1>1, <2>2, ProcessFacts, Zenon
    <2>. QED
        BY <2>1, <2>2, Zenon
<1>3. /\ term'.child = term.child /\ e \notin Threads /\ e # Null
      /\ process = "Running" => term'.by = e /\ term'.pc = "request" /\ term'.child = Null /\ term.pc = "none"
    BY <1>1, ProcessFacts, ThreadsApart, ProcessAssumption, SMTT(20), Z3T(20) DEF TermInv
<1>4. ThreadInv'
    BY <1>1, <1>2, <1>3, Zenon DEF ProcessInv, ThreadInv, Running
<1>5. TermInv'
    <2>1. CASE process = "Running"
        BY <1>1, <1>3, <2>1, Zenon DEF TermInv
    <2>2. CASE process # "Running"
        BY <1>1, <2>2, Zenon DEF ProcessInv, TermInv
    <2>. QED
        BY <2>1, <2>2, Zenon
<1>6. TableInv'
    BY <1>1, <1>2, <1>3, Zenon DEF ProcessInv, TableInv, Handled
<1>7. TaskInv'
    BY <1>1, <1>2, <1>3, Zenon DEF ProcessInv, TaskInv
<1>8. RequestInv'
    <2>1. \A u \in Threads : InSession(u)' <=> InSession(u)
        BY <1>1, Zenon DEF InSession
    <2>2. \A u \in Threads : RequestOf(u)'
        BY <1>1, <2>1, Zenon DEF ProcessInv, RequestInv, RequestOf, One
    <2>. QED
        BY <2>2, Zenon DEF ProcessInv, RequestInv
<1>9. RefsInv'
    <2>1. \A u \in Threads : Users(u)' = Users(u)
        BY <1>1, <1>2, <1>3, Zenon DEF Users
    <2>2. Senders' = Senders
        BY <1>1, <1>2, <1>3, Zenon DEF Senders
    <2>3. KeptBut(Null)
        BY <1>1, <1>2, <1>3, <2>1, Zenon DEF KeptBut, Kept, Handled, Runs
    <2>4. refs'[Client] = ClientHeld'
        BY <1>1, <1>2, <1>3, <2>2, ClientKept, Zenon DEF Handled
    <2>. QED
        BY <2>3, <2>4, RefsKept, ThreadsApart, Zenon
<1>10. ClientInv'
    BY <1>1, <1>2, <1>3, Zenon DEF ProcessInv, ClientInv
<1>11. RunningInv'
    <2>1. Runners' = Runners
        BY <1>1, <1>2, <1>3, Zenon DEF Runners, Running
    <2>. QED
        BY <1>1, <1>2, <1>3, <2>1, Zenon DEF ProcessInv, RunningInv
<1>. QED
    BY <1>1, <1>2, <1>3, <1>4, <1>5, <1>6, <1>7, <1>8, <1>9, <1>10, <1>11, CountingKept, Zenon DEF
       ProcessInv, ProcessType

(* TerminateChildren asks the threads of the list, which does not have the *)
(* one that terminates the process.                                        *)
LEMMA TerminateRequestKeeps ==
    ASSUME ProcessInv, TerminateRequest, UNCHANGED <<request, session, server>>
    PROVE  ProcessInv'
<1>1. /\ term.pc = "request" /\ term' = [term EXCEPT !.pc = "pick"] /\ Asked(Children)
      /\ UNCHANGED <<process, running, refs, table, tasks, destroying>>
    BY DEF TerminateRequest, Terminating, Asked
<1>2. Children \in SUBSET Threads /\ term.by \notin Children
    BY Zenon DEF Children, ThreadList
<1>3. /\ thread' \in [Threads -> ThreadRecords]
      /\ \A t \in Threads \ Children : thread'[t] = thread[t]
      /\ \A t \in Threads : /\ thread[t].state # "None" => thread'[t].state # "None"
                            /\ thread'[t].pc = thread[t].pc \/ (thread[t].pc = "waiting" /\ thread'[t].pc = "returning")
                            /\ thread'[t].target = thread[t].target
    <2>1. PICK S \in SUBSET Threads : S = Children
        BY <1>2
    <2>2. Asked(S)
        BY <1>1, <2>1, Zenon
    <2>3. /\ thread' \in [Threads -> ThreadRecords]
          /\ \A t \in Threads \ S : thread'[t] = thread[t]
          /\ \A t \in S :
                /\ thread'[t].target = thread[t].target
                /\ thread[t].pc = "waiting" =>
                      thread'[t].pc = "returning" /\ thread'[t].state = "Runnable"
                /\ thread[t].pc # "waiting" =>
                      /\ thread'[t].pc = thread[t].pc
                      /\ \/ thread'[t].state = thread[t].state
                         \/ thread[t].pc = "none" /\ thread'[t].state = "Terminated"
        BY <2>2, AskedFacts, Zenon
    <2>. QED
        BY <2>1, <2>3, Zenon
<1>4. /\ ThreadInv' /\ TaskInv' /\ RequestInv' /\ RunningInv'
      /\ (\A t \in Threads : Users(t)' = Users(t) /\ (Runs(t)' <=> Runs(t))) /\ Senders' = Senders
    <2>1. PICK S \in SUBSET Threads : S = Children
        BY <1>2
    <2>2. Asked(S)
        BY <1>1, <2>1
    <2>. QED
        BY <1>1, <2>2, AskedKeeps, Zenon
<1>5. /\ term' \in [by : Threads \cup {Server, Host, Null}, child : Threads \cup {Null},
                    pc : {"none", "request", "pick", "child", "wait", "table", "entries", "done"}]
      /\ term'.pc = "pick" /\ term'.by = term.by /\ term'.child = term.child
    BY <1>1, ProcessFacts, Zenon
<1>. USE <1>1, <1>3, <1>4, <1>5
<1>6. ThreadInv'
    OBVIOUS
<1>7. TermInv'
    BY <1>2, Zenon DEF ProcessInv, TermInv, NewThread
<1>8. TableInv'
    BY SMTT(20), Z3T(20) DEF ProcessInv, TableInv, Handled
<1>9. TaskInv'
    OBVIOUS
<1>10. RequestInv'
    OBVIOUS
<1>11. RefsInv'
    <2>1. KeptBut(Null)
        BY DEF KeptBut, Kept, Handled
    <2>2. refs'[Client] = ClientHeld'
        BY ClientKept DEF Handled
    <2>. QED
        BY <2>1, <2>2, RefsKept, ThreadsApart
<1>12. ClientInv'
    BY DEF ProcessInv, ClientInv
<1>13. RunningInv'
    OBVIOUS
<1>. QED
    BY <1>2, <1>6, <1>7, <1>8, <1>9, <1>10, <1>11, <1>12, <1>13, CountingKept, Zenon DEF ProcessInv,
       ProcessType

(* No child is left,                                                       *)
LEMMA TerminatePickEmpty ==
    ASSUME ProcessInv, TerminatePick, Children = {}, UNCHANGED <<request, session, server>>
    PROVE  ProcessInv'
<1>1. /\ term.pc = "pick" /\ term' = [term EXCEPT !.pc = "table"]
      /\ UNCHANGED <<process, thread, running, refs, table, tasks, destroying>>
    BY DEF TerminatePick, Terminating
<1>2. /\ term' \in [by : Threads \cup {Server, Host, Null}, child : Threads \cup {Null},
                    pc : {"none", "request", "pick", "child", "wait", "table", "entries", "done"}]
      /\ term'.pc = "table" /\ term'.by = term.by /\ term'.child = term.child
    BY <1>1, ProcessFacts, Zenon
<1>3. \A t \in Threads \ {term.by} : refs[t] > 0 => thread[t].state = "Terminated"
    BY DEF Children, ThreadList
<1>. USE <1>1, <1>2, <1>3
<1>4. ThreadInv'
    BY DEF ProcessInv, ThreadInv, Running
<1>5. TermInv'
    BY DEF ProcessInv, TermInv
<1>6. TableInv'
    BY DEF ProcessInv, TableInv, Handled
<1>7. TaskInv'
    BY DEF ProcessInv, TaskInv
<1>8. RequestInv'
    BY Zenon DEF ProcessInv, RequestInv, RequestOf, InSession
<1>9. RefsInv'
    <2>1. \A u \in Threads : Users(u)' = Users(u)
        BY DEF Users
    <2>2. Senders' = Senders
        BY DEF Senders
    <2>3. KeptBut(Null)
        BY <2>1 DEF KeptBut, Kept, Handled, Runs
    <2>4. refs'[Client] = ClientHeld'
        BY <2>2, ClientKept DEF Handled
    <2>. QED
        BY <2>3, <2>4, RefsKept, ThreadsApart
<1>10. ClientInv'
    BY DEF ProcessInv, ClientInv
<1>11. RunningInv'
    <2>1. Runners' = Runners
        BY DEF Runners, Running
    <2>. QED
        BY <2>1 DEF ProcessInv, RunningInv
<1>. QED
    BY <1>4, <1>5, <1>6, <1>7, <1>8, <1>9, <1>10, <1>11, CountingKept DEF ProcessInv, ProcessType

(* or TerminateChildren opens one.                                         *)
LEMMA TerminatePickChild ==
    ASSUME ProcessInv, TerminatePick, Children # {}, UNCHANGED <<request, session, server>>
    PROVE  ProcessInv'
<1>1. PICK t \in Children : /\ term.pc = "pick" /\ term' = [term EXCEPT !.pc = "child", !.child = t]
                            /\ refs' = [refs EXCEPT ![t] = refs[t] + 1]
                            /\ UNCHANGED <<process, thread, running, table, tasks, destroying>>
    BY Zenon DEF TerminatePick, Terminating, Opened
<1>2. t \in Threads /\ t # term.by /\ t # Null /\ term.child = Null
    BY <1>1, ThreadsApart, ProcessFacts DEF Children, ThreadList, TermInv
<1>3. /\ term' \in [by : Threads \cup {Server, Host, Null}, child : Threads \cup {Null},
                    pc : {"none", "request", "pick", "child", "wait", "table", "entries", "done"}]
      /\ term'.pc = "child" /\ term'.by = term.by /\ term'.child = t
    BY <1>1, <1>2, ProcessFacts, Zenon
<1>4. /\ refs' \in [Objects -> Nat] /\ refs'[t] = refs[t] + 1
      /\ \A o \in Objects \ {t} : refs'[o] = refs[o]
    BY <1>1, <1>2, ProcessFacts DEF Objects
<1>. USE <1>1, <1>2, <1>3, <1>4
<1>5. ThreadInv'
    BY Zenon DEF ProcessInv, ThreadInv, Running
<1>6. TermInv'
    BY Zenon DEF ProcessInv, TermInv
<1>7. TableInv'
    BY ZenonT(30) DEF ProcessInv, TableInv, Handled
<1>8. TaskInv'
    BY Zenon DEF ProcessInv, TaskInv
<1>9. RequestInv'
    BY ZenonT(30) DEF ProcessInv, RequestInv, RequestOf, InSession
<1>10. RefsInv'
    <2>1. \A u \in Threads : Users(u)' = Users(u)
        BY DEF Users
    <2>2. Runs(t)' <=> Runs(t)
        BY DEF Runs
    <2>3. refs[t] = Held(t)
        BY ProcessFacts DEF RefsInv
    <2>4. KeptBut(t)
        BY <2>1, <2>2, <2>3, ThreadsApart DEF KeptBut, Kept, Handled, Runs, Objects
    <2>5. Senders' = Senders
        BY DEF Senders
    <2>6. refs'[Client] = ClientHeld'
        BY <2>5, ClientKept, ThreadsApart, Zenon DEF Handled, Objects
    <2>7. refs'[t] = Held(t)'
        BY <2>1, <2>2, <2>3, CountedFacts, ThreadsApart, SMTT(20), Z3T(20) DEF ProcessInv, RefsInv,
           Held, Runs,
           Handled, Objects, One
    <2>. QED
        BY <2>4, <2>6, <2>7, RefsKept
<1>11. ClientInv'
    BY ThreadsApart DEF ProcessInv, ClientInv, Objects
<1>12. RunningInv'
    <2>1. Runners' = Runners
        BY Zenon DEF Runners, Running
    <2>. QED
        BY <2>1 DEF ProcessInv, RunningInv
<1>. QED
    BY <1>5, <1>6, <1>7, <1>8, <1>9, <1>10, <1>11, <1>12, CountingKept, Zenon DEF ProcessInv,
       ProcessType

(* KThread::Terminate asks again, and waits,                               *)
LEMMA TerminateChildWaits ==
    ASSUME ProcessInv, TerminateChild, RequestTerminate(thread[term.child]).state # "Terminated",
           UNCHANGED <<request, session, server>>
    PROVE  ProcessInv'
<1>1. PICK t \in Threads : t = term.child /\ term.pc = "child" /\ t # term.by
    BY ProcessFacts DEF TerminateChild, Terminating, TermInv
<1>2. /\ Asked({t}) /\ thread' = [thread EXCEPT ![t] = RequestTerminate(thread[t])]
      /\ UNCHANGED <<process, running, table, tasks, destroying>>
    BY <1>1, ProcessFacts, Zenon DEF TerminateChild, Asked
<1>3. /\ thread' \in [Threads -> ThreadRecords]
      /\ \A u \in Threads \ {t} : thread'[u] = thread[u]
      /\ \A u \in Threads : /\ thread[u].state # "None" => thread'[u].state # "None"
                            /\ thread[u].state = "Terminated" => thread'[u].state = "Terminated"
                            /\ thread'[u].pc = thread[u].pc \/ (thread[u].pc = "waiting" /\ thread'[u].pc = "returning")
                            /\ thread'[u].target = thread[u].target
    <2>1. /\ thread' \in [Threads -> ThreadRecords]
          /\ \A u \in Threads \ {t} : thread'[u] = thread[u]
          /\ \A u \in {t} :
                /\ thread'[u].target = thread[u].target
                /\ thread[u].pc = "waiting" =>
                      thread'[u].pc = "returning" /\ thread'[u].state = "Runnable"
                /\ thread[u].pc # "waiting" =>
                      /\ thread'[u].pc = thread[u].pc
                      /\ \/ thread'[u].state = thread[u].state
                         \/ thread[u].pc = "none" /\ thread'[u].state = "Terminated"
        BY <1>2, AskedFacts, SMTT(20), Z3T(20)
    <2>2. thread[t].pc = "waiting" => thread[t].state = "Waiting"
        BY ProcessFacts, Zenon DEF ThreadInv
    <2>. QED
        BY <2>1, <2>2, Zenon
<1>4. /\ ThreadInv' /\ TaskInv' /\ RequestInv' /\ RunningInv'
      /\ (\A u \in Threads : Users(u)' = Users(u) /\ (Runs(u)' <=> Runs(u))) /\ Senders' = Senders
    BY <1>2, AskedKeeps, Zenon
<1>5. /\ term' \in [by : Threads \cup {Server, Host, Null}, child : Threads \cup {Null},
                    pc : {"none", "request", "pick", "child", "wait", "table", "entries", "done"}]
      /\ term'.pc = "wait" /\ term'.by = term.by /\ term'.child = term.child
    BY ProcessFacts DEF TerminateChild
<1>6. refs' = refs
    BY Zenon DEF TerminateChild
<1>7. ThreadInv'
    BY <1>4, Zenon
<1>8. TermInv'
    BY <1>1, <1>2, <1>3, <1>5, <1>6, ZenonT(20) DEF ProcessInv, TermInv, NewThread
<1>9. TableInv'
    <2>1. table' = table /\ Handled' = Handled /\ process' = process
        BY <1>2, Zenon DEF Handled
    <2>. QED
        BY <1>1, <1>3, <1>5, <2>1, SMTT(20), Z3T(20) DEF ProcessInv, TableInv
<1>10. TaskInv'
    BY <1>4, Zenon
<1>11. RequestInv'
    BY <1>4, Zenon
<1>12. RefsInv'
    <2>1. KeptBut(Null)
        BY <1>2, <1>4, <1>5, <1>6, Zenon DEF KeptBut, Kept, Handled
    <2>2. refs'[Client] = ClientHeld'
        BY <1>2, <1>4, <1>6, ClientKept, Zenon DEF Handled
    <2>. QED
        BY <2>1, <2>2, RefsKept, ThreadsApart, Zenon
<1>13. ClientInv'
    BY <1>2, <1>6, Zenon DEF ProcessInv, ClientInv
<1>14. RunningInv'
    BY <1>4, Zenon
<1>. QED
    BY <1>1, <1>2, <1>3, <1>4, <1>5, <1>6, <1>7, <1>8, <1>9, <1>10, <1>11, <1>12, <1>13, <1>14,
       CountingKept, Zenon DEF ProcessInv, ProcessType

(* unless it is terminated already.                                        *)
LEMMA TerminateChildEnds ==
    ASSUME ProcessInv, TerminateChild, RequestTerminate(thread[term.child]).state = "Terminated",
           UNCHANGED <<request, session, server>>
    PROVE  ProcessInv'
<1>1. PICK t \in Threads : t = term.child /\ term.pc = "child" /\ t # term.by
    BY ProcessFacts DEF TerminateChild, Terminating, TermInv
<1>2. /\ Asked({t}) /\ thread' = [thread EXCEPT ![t] = RequestTerminate(thread[t])]
      /\ UNCHANGED <<process, running, table, tasks, destroying>>
    BY <1>1, ProcessFacts, Zenon DEF TerminateChild, Asked
<1>3. /\ thread' \in [Threads -> ThreadRecords]
      /\ \A u \in Threads \ {t} : thread'[u] = thread[u]
      /\ \A u \in Threads : /\ thread[u].state # "None" => thread'[u].state # "None"
                            /\ thread[u].state = "Terminated" => thread'[u].state = "Terminated"
                            /\ thread'[u].pc = thread[u].pc \/ (thread[u].pc = "waiting" /\ thread'[u].pc = "returning")
                            /\ thread'[u].target = thread[u].target
    <2>1. /\ thread' \in [Threads -> ThreadRecords]
          /\ \A u \in Threads \ {t} : thread'[u] = thread[u]
          /\ \A u \in {t} :
                /\ thread'[u].target = thread[u].target
                /\ thread[u].pc = "waiting" =>
                      thread'[u].pc = "returning" /\ thread'[u].state = "Runnable"
                /\ thread[u].pc # "waiting" =>
                      /\ thread'[u].pc = thread[u].pc
                      /\ \/ thread'[u].state = thread[u].state
                         \/ thread[u].pc = "none" /\ thread'[u].state = "Terminated"
        BY <1>2, AskedFacts, SMTT(20), Z3T(20)
    <2>2. thread[t].pc = "waiting" => thread[t].state = "Waiting"
        BY ProcessFacts, Zenon DEF ThreadInv
    <2>. QED
        BY <2>1, <2>2, Zenon
<1>4. /\ ThreadInv' /\ TaskInv' /\ RequestInv' /\ RunningInv'
      /\ (\A u \in Threads : Users(u)' = Users(u) /\ (Runs(u)' <=> Runs(u))) /\ Senders' = Senders
    BY <1>2, AskedKeeps, Zenon
<1>5. /\ term' \in [by : Threads \cup {Server, Host, Null}, child : Threads \cup {Null},
                    pc : {"none", "request", "pick", "child", "wait", "table", "entries", "done"}]
      /\ term'.pc = "pick" /\ term'.by = term.by /\ term'.child = Null
    BY ProcessFacts, Zenon DEF TerminateChild
<1>6. refs[t] > 0
    BY <1>1, CountedFacts, SMTT(20), Z3T(20) DEF ProcessInv, RefsInv, Held, One
<1>7. /\ refs' \in [Objects -> Nat] /\ refs'[t] = refs[t] - 1
      /\ \A o \in Objects \ {t} : refs'[o] = refs[o]
    <2>1. refs' = [refs EXCEPT ![t] = refs[t] - 1]
        BY <1>1 DEF TerminateChild, Closed
    <2>. QED
        BY <1>6, <2>1, ProcessFacts, SMTT(20), Z3T(20) DEF Objects
<1>8. ThreadInv'
    BY <1>4, Zenon
<1>9. TermInv'
    BY <1>1, <1>2, <1>3, <1>5, Zenon DEF ProcessInv, TermInv, NewThread
<1>10. TableInv'
    <2>1. table' = table /\ Handled' = Handled /\ process' = process
        BY <1>2, Zenon DEF Handled
    <2>. QED
        BY <1>1, <1>3, <1>5, <2>1, SMTT(20), Z3T(20) DEF ProcessInv, TableInv
<1>11. TaskInv'
    BY <1>4, Zenon
<1>12. RequestInv'
    BY <1>4, Zenon
<1>13. RefsInv'
    <2>1. (Runs(t)' <=> Runs(t)) /\ refs[t] = Held(t) /\ term.child = t /\ term'.child # t
        BY <1>1, <1>4, <1>5, ThreadsApart, ProcessFacts, Zenon DEF RefsInv, Runs
    <2>2. KeptBut(t)
        BY <1>1, <1>2, <1>4, <1>5, <1>7, ThreadsApart, Zenon DEF KeptBut, Kept, Handled, Runs,
           Users, Objects
    <2>3. refs'[Client] = ClientHeld'
        BY <1>2, <1>4, <1>7, ClientKept, ThreadsApart, Zenon DEF Handled, Objects, Senders
    <2>4. Users(t)' = Users(t)
        BY <1>4, Zenon DEF Users
    <2>5. refs'[t] = Held(t)'
        <3>1. /\ One((t \in Handled)') = One(t \in Handled) /\ One(Runs(t)') = One(Runs(t))
              /\ One((term.child = t)') = 0 /\ One(term.child = t) = 1
              /\ One((request[t].bound)') = One(request[t].bound)
            BY <1>2, <2>1, Zenon DEF Handled, One
        <3>2. /\ One(t \in Handled) \in Nat /\ One(Runs(t)) \in Nat /\ One(request[t].bound) \in Nat
              /\ Cardinality(Users(t)) \in Nat /\ Cardinality(Users(t)') = Cardinality(Users(t))
            BY <2>4, CountedFacts, Zenon DEF One
        <3>3. /\ Held(t)' = Cardinality(Users(t)') + One((t \in Handled)') + One(Runs(t)')
                            + One((term.child = t)') + One((request[t].bound)')
              /\ Held(t) = Cardinality(Users(t)) + One(t \in Handled) + One(Runs(t))
                           + One(term.child = t) + One(request[t].bound)
            BY Zenon DEF Held, One
        <3>. QED
            BY <1>7, <2>1, <3>1, <3>2, <3>3, SMTT(20), Z3T(20)
    <2>. QED
        BY <2>2, <2>3, <2>5, RefsKept, Zenon
<1>14. ClientInv'
    BY <1>2, <1>7, ThreadsApart, Zenon DEF ProcessInv, ClientInv, Objects
<1>15. RunningInv'
    BY <1>4, Zenon
<1>. QED
    BY <1>1, <1>2, <1>3, <1>4, <1>5, <1>6, <1>7, <1>8, <1>9, <1>10, <1>11, <1>12, <1>13, <1>14,
       <1>15, CountingKept, Zenon DEF ProcessInv, ProcessType

(* The child is signaled, and closed.                                      *)
LEMMA TerminateWaitKeeps ==
    ASSUME ProcessInv, TerminateWait, UNCHANGED <<request, session, server>>
    PROVE  ProcessInv'
<1>1. PICK t \in Threads :
          /\ t = term.child /\ term.pc = "wait" /\ term' = [term EXCEPT !.pc = "pick", !.child = Null]
          /\ refs' = [refs EXCEPT ![t] = refs[t] - 1]
          /\ UNCHANGED <<process, thread, running, table, tasks, destroying>>
    <2>1. term.child \in Threads
        BY ProcessFacts DEF TerminateWait, Terminating, TermInv
    <2>. QED
        BY <2>1, Zenon DEF TerminateWait, Terminating, Closed
<1>2. /\ term' \in [by : Threads \cup {Server, Host, Null}, child : Threads \cup {Null},
                    pc : {"none", "request", "pick", "child", "wait", "table", "entries", "done"}]
      /\ term'.pc = "pick" /\ term'.by = term.by /\ term'.child = Null
    BY <1>1, ProcessFacts, Zenon
<1>3. refs[t] > 0
    BY <1>1, CountedFacts DEF ProcessInv, RefsInv, Held, One
<1>4. /\ refs' \in [Objects -> Nat] /\ refs'[t] = refs[t] - 1
      /\ \A o \in Objects \ {t} : refs'[o] = refs[o]
    BY <1>1, <1>3, ProcessFacts DEF Objects
<1>. USE <1>1, <1>2, <1>3, <1>4
<1>5. ThreadInv'
    BY Zenon DEF ProcessInv, ThreadInv, Running
<1>6. TermInv'
    BY Zenon DEF ProcessInv, TermInv
<1>7. TableInv'
    BY ZenonT(30) DEF ProcessInv, TableInv, Handled
<1>8. TaskInv'
    BY DEF ProcessInv, TaskInv
<1>9. RequestInv'
    BY ZenonT(30) DEF ProcessInv, RequestInv, RequestOf, InSession
<1>10. RefsInv'
    <2>1. (Runs(t)' <=> Runs(t)) /\ refs[t] = Held(t) /\ term.child = t /\ term'.child # t
        BY ThreadsApart, ProcessFacts DEF RefsInv, Runs
    <2>2. KeptBut(t)
        BY ThreadsApart DEF KeptBut, Kept, Handled, Runs, Users, Objects
    <2>3. refs'[Client] = ClientHeld'
        BY ClientKept, ThreadsApart DEF Handled, Objects, Senders
    <2>4. Users(t)' = Users(t)
        BY DEF Users
    <2>5. refs'[t] = Held(t)'
        BY <2>1, <2>4, CountedFacts, SMTT(20), Z3T(20) DEF Held, Handled, One
    <2>. QED
        BY <2>2, <2>3, <2>5, RefsKept
<1>11. ClientInv'
    BY ThreadsApart DEF ProcessInv, ClientInv, Objects
<1>12. RunningInv'
    <2>1. Runners' = Runners
        BY DEF Runners, Running
    <2>. QED
        BY <2>1 DEF ProcessInv, RunningInv
<1>. QED
    BY <1>5, <1>6, <1>7, <1>8, <1>9, <1>10, <1>11, <1>12, CountingKept, Zenon DEF ProcessInv,
       ProcessType

(* KHandleTable::Finalize: what the table had is to be closed.             *)
LEMMA TerminateTableKeeps ==
    ASSUME ProcessInv, TerminateTable, UNCHANGED <<request, session, server>>
    PROVE  ProcessInv'
<1>1. /\ table' = [open |-> FALSE, entries |-> {}, closing |-> table.entries] /\ term.pc = "table"
      /\ term' = [term EXCEPT !.pc = "entries"]
      /\ UNCHANGED <<process, thread, running, refs, tasks, destroying>>
    BY DEF TerminateTable, Terminating
<1>2. /\ term' \in [by : Threads \cup {Server, Host, Null}, child : Threads \cup {Null},
                    pc : {"none", "request", "pick", "child", "wait", "table", "entries", "done"}]
      /\ term'.pc = "entries" /\ term'.by = term.by /\ term'.child = term.child
    BY <1>1, ProcessFacts, Zenon
<1>3. /\ table' \in [open : BOOLEAN, entries : SUBSET Objects, closing : SUBSET Objects]
      /\ ~table'.open /\ table'.entries = {} /\ Handled' = Handled
    BY <1>1, ProcessFacts DEF TableInv, Handled
<1>. USE <1>1, <1>2, <1>3
<1>4. ThreadInv'
    BY Zenon DEF ProcessInv, ThreadInv, Running
<1>5. TermInv'
    BY Zenon DEF ProcessInv, TermInv
<1>6. TableInv'
    BY Zenon DEF ProcessInv, TableInv, Handled
<1>7. TaskInv'
    BY DEF ProcessInv, TaskInv
<1>8. RequestInv'
    BY Zenon DEF ProcessInv, RequestInv, RequestOf, InSession
<1>9. RefsInv'
    <2>1. \A u \in Threads : Users(u)' = Users(u)
        BY DEF Users
    <2>2. Senders' = Senders
        BY DEF Senders
    <2>3. KeptBut(Null)
        BY <2>1 DEF KeptBut, Kept, Handled, Runs
    <2>4. refs'[Client] = ClientHeld'
        BY <2>2, ClientKept DEF Handled
    <2>. QED
        BY <2>3, <2>4, RefsKept, ThreadsApart
<1>10. ClientInv'
    BY DEF ProcessInv, ClientInv
<1>11. RunningInv'
    <2>1. Runners' = Runners
        BY DEF Runners, Running
    <2>. QED
        BY <2>1 DEF ProcessInv, RunningInv
<1>. QED
    BY <1>4, <1>5, <1>6, <1>7, <1>8, <1>9, <1>10, <1>11, CountingKept, Zenon DEF ProcessInv, ProcessType

(* One of these is closed; it may be the client session, which nobody else *)
(* has then.                                                               *)
LEMMA TerminateEntryKeeps ==
    ASSUME ProcessInv, NEW o \in Objects, TerminateEntry(o), UNCHANGED <<request, session, server>>
    PROVE  ProcessInv'
<1>1. /\ term.pc = "entries" /\ o \in table.closing /\ table' = [table EXCEPT !.closing = table.closing \ {o}]
      /\ refs' = [refs EXCEPT ![o] = refs[o] - 1]
      /\ destroying' = IF o = Client /\ refs[o] = 1 THEN term.by ELSE destroying
      /\ UNCHANGED <<process, thread, running, tasks, term>>
    BY DEF TerminateEntry, Terminating, Close, Closed
<1>2. /\ table' \in [open : BOOLEAN, entries : SUBSET Objects, closing : SUBSET Objects]
      /\ ~table'.open /\ table'.entries = {} /\ o \in Handled /\ Handled' = Handled \ {o}
    BY <1>1, ProcessFacts, Zenon DEF TableInv, Handled
<1>3. refs[o] > 0
    <2>1. CASE o \in Threads
        BY <1>2, <2>1, CountedFacts, SMTT(20), Z3T(20) DEF ProcessInv, RefsInv, Held, One
    <2>2. CASE o = Client
        BY <1>2, <2>2, CountedFacts, SMTT(20), Z3T(20) DEF ProcessInv, RefsInv, ClientHeld, One
    <2>. QED
        BY <2>1, <2>2 DEF Objects
<1>4. /\ refs' \in [Objects -> Nat] /\ refs'[o] = refs[o] - 1
      /\ \A p \in Objects \ {o} : refs'[p] = refs[p]
    BY <1>1, <1>3, ProcessFacts, SMTT(20), Z3T(20) DEF Objects
<1>5. destroying' \in Threads \cup {Server, Host, Null}
    BY <1>1, ProcessFacts
<1>6. \A t \in Threads : refs'[t] > 0 => refs[t] > 0
    BY <1>4, CountedFacts, SMTT(20), Z3T(20) DEF Objects
<1>. USE <1>1, <1>2, <1>3, <1>4, <1>5, <1>6
<1>7. ThreadInv'
    BY Zenon DEF ProcessInv, ThreadInv, Running
<1>8. TermInv'
    BY Zenon DEF ProcessInv, TermInv
<1>9. TableInv'
    BY ZenonT(30) DEF ProcessInv, TableInv
<1>10. TaskInv'
    BY DEF ProcessInv, TaskInv
<1>11. RequestInv'
    BY Zenon DEF ProcessInv, RequestInv, RequestOf, InSession
<1>12. RefsInv'
    <2>1. (\A t \in Threads : Users(t)' = Users(t) /\ (Runs(t)' <=> Runs(t))) /\ Senders' = Senders
        BY DEF Users, Runs, Senders
    <2>2. KeptBut(o)
        BY <2>1 DEF KeptBut, Kept, Objects
    <2>3. o \in Threads => refs'[o] = Held(o)'
        BY <2>1, CountedFacts, SMTT(20), Z3T(20) DEF ProcessInv, RefsInv, Held, One
    <2>4. refs'[Client] = ClientHeld'
        <3>1. CASE o = Client
            BY <2>1, <3>1, CountedFacts, SMTT(20), Z3T(20) DEF ProcessInv, RefsInv, ClientHeld, One
        <3>2. CASE o # Client
            BY <2>1, <3>2, ClientKept DEF Objects
        <3>. QED
            BY <3>1, <3>2
    <2>. QED
        BY <2>2, <2>3, <2>4, RefsKept
<1>13. ClientInv'
    <2>1. CASE o = Client
        <3>1. destroying = Null /\ session.client = "open" /\ refs[Client] > 0
            BY <2>1, HandleFacts
        <3>. QED
            BY <2>1, <3>1, ProcessFacts DEF ClientInv
    <2>2. CASE o # Client
        <3>1. refs'[Client] = refs[Client] /\ destroying' = destroying
            BY <2>2 DEF Objects
        <3>. QED
            BY <3>1 DEF ProcessInv, ClientInv
    <2>. QED
        BY <2>1, <2>2
<1>14. RunningInv'
    <2>1. Runners' = Runners
        BY DEF Runners, Running
    <2>. QED
        BY <2>1 DEF ProcessInv, RunningInv
<1>. QED
    BY <1>7, <1>8, <1>9, <1>10, <1>11, <1>12, <1>13, <1>14, CountingKept, Zenon DEF ProcessInv,
       ProcessType

(* KProcess::FinishTermination.                                            *)
LEMMA TerminateFinishKeeps ==
    ASSUME ProcessInv, TerminateFinish, UNCHANGED <<request, session, server>>
    PROVE  ProcessInv'
<1>1. /\ term.pc = "entries" /\ table.closing = {} /\ process' = "Terminated"
      /\ term' = [term EXCEPT !.pc = "done"]
      /\ UNCHANGED <<thread, running, refs, table, tasks, destroying>>
    BY DEF TerminateFinish, Terminating
<1>2. /\ term' \in [by : Threads \cup {Server, Host, Null}, child : Threads \cup {Null},
                    pc : {"none", "request", "pick", "child", "wait", "table", "entries", "done"}]
      /\ term'.pc = "done" /\ term'.by = term.by /\ term'.child = term.child
    BY <1>1, ProcessFacts, Zenon
<1>. USE <1>1, <1>2
<1>3. ThreadInv'
    BY Zenon DEF ProcessInv, ThreadInv, Running
<1>4. TermInv'
    BY Zenon DEF ProcessInv, TermInv
<1>5. TableInv'
    BY Zenon DEF ProcessInv, TableInv, Handled
<1>6. TaskInv'
    BY DEF ProcessInv, TaskInv
<1>7. RequestInv'
    BY Zenon DEF ProcessInv, RequestInv, RequestOf, InSession
<1>8. RefsInv'
    <2>1. \A u \in Threads : Users(u)' = Users(u)
        BY DEF Users
    <2>2. Senders' = Senders
        BY DEF Senders
    <2>3. KeptBut(Null)
        BY <2>1 DEF KeptBut, Kept, Handled, Runs
    <2>4. refs'[Client] = ClientHeld'
        BY <2>2, ClientKept DEF Handled
    <2>. QED
        BY <2>3, <2>4, RefsKept, ThreadsApart
<1>9. ClientInv'
    BY DEF ProcessInv, ClientInv
<1>10. RunningInv'
    <2>1. Runners' = Runners
        BY DEF Runners, Running
    <2>. QED
        BY <2>1 DEF ProcessInv, RunningInv
<1>. QED
    BY <1>3, <1>4, <1>5, <1>6, <1>7, <1>8, <1>9, <1>10, CountingKept DEF ProcessInv, ProcessType

-----------------------------------------------------------------------------
(* The beginning, and the host.                                            *)

(* KProcess::Run: before it there are neither threads nor requests.        *)
LEMMA RunKeeps ==
    ASSUME ProcessInv, Run, UNCHANGED <<request, session, server>>
    PROVE  ProcessInv'
<1>1. /\ process = "Created" /\ process' = "Running" /\ running' = 1
      /\ thread' = [thread EXCEPT ![MainThread].state = "Runnable", ![MainThread].pc = "guest"]
      /\ refs' = [refs EXCEPT ![MainThread] = 2]
      /\ table' = [table EXCEPT !.open = TRUE, !.entries = {MainThread}]
      /\ UNCHANGED <<tasks, term, destroying>>
    BY DEF Run
<1>2. MainThread \in Threads /\ MainThread \in Objects /\ Client \in Objects /\ Client # MainThread
    BY ProcessAssumption DEF Objects
<1>3. /\ \A t \in Threads : /\ thread[t].state = "None" /\ thread[t].pc = "none" /\ thread[t].target = Null
                            /\ ~thread[t].requested /\ ~thread[t].signaled
      /\ term.pc = "none" /\ term.by = Null /\ term.child = Null /\ table.closing = {} /\ table.entries = {}
    <2>1. \A t \in Threads : thread[t] = NewThread
        BY <1>1, ProcessFacts, Zenon DEF TermInv
    <2>2. \A t \in Threads : /\ thread[t].state = "None" /\ thread[t].pc = "none" /\ thread[t].target = Null
                              /\ ~thread[t].requested /\ ~thread[t].signaled
        <3>1. /\ NewThread.state = "None" /\ NewThread.pc = "none" /\ NewThread.target = Null
              /\ ~NewThread.requested /\ ~NewThread.signaled
            BY Zenon DEF NewThread
        <3>. QED
            BY <2>1, <3>1, Zenon
    <2>. QED
        BY <1>1, <2>2, ProcessFacts DEF TermInv, TableInv
<1>4. /\ \A t \in Threads : ~InSession(t) /\ ~request[t].bound /\ t \notin Range(tasks)
      /\ \A t \in Threads : Users(t) = {} /\ Senders = {} /\ Runners = {}
    <2>1. \A t \in Threads : ~InSession(t) /\ ~request[t].bound /\ t \notin Range(tasks)
        BY <1>3, ProcessFacts, NoRequestFacts, Zenon DEF TaskInv
    <2>. QED
        BY <1>3, <2>1, Zenon DEF Users, Senders, Runners, Running
<1>5. /\ thread' \in [Threads -> ThreadRecords]
      /\ \A t \in Threads \ {MainThread} : thread'[t] = thread[t]
      /\ thread'[MainThread].pc = "guest" /\ thread'[MainThread].state = "Runnable"
      /\ thread'[MainThread].target = Null /\ ~thread'[MainThread].requested
      /\ ~thread'[MainThread].signaled
    <2>1. thread[MainThread] \in ThreadRecords
        BY <1>2, ProcessFacts
    <2>2. PICK r \in ThreadRecords : r = [thread[MainThread] EXCEPT !.state = "Runnable", !.pc = "guest"]
        BY <2>1, Zenon DEF ThreadRecords, Running
    <2>3. thread' = [thread EXCEPT ![MainThread] = r]
        BY <1>1, <2>2, Zenon
    <2>4. /\ r.pc = "guest" /\ r.state = "Runnable" /\ r.target = Null /\ ~r.requested /\ ~r.signaled
        BY <1>2, <1>3, <2>1, <2>2 DEF ThreadRecords
    <2>. QED
        BY <1>2, <2>3, <2>4, ProcessFacts, Zenon
<1>6. /\ table' \in [open : BOOLEAN, entries : SUBSET Objects, closing : SUBSET Objects]
      /\ table'.open /\ table'.entries = {MainThread} /\ table'.closing = {}
      /\ Handled' = {MainThread} /\ Handled = {}
    BY <1>1, <1>2, <1>3, ProcessFacts, Zenon DEF Handled
<1>7. /\ refs' \in [Objects -> Nat] /\ refs'[MainThread] = 2
      /\ \A o \in Objects \ {MainThread} : refs'[o] = refs[o]
    BY <1>1, <1>2, ProcessFacts
<1>8. ThreadInv'
    BY <1>1, <1>2, <1>3, <1>4, <1>5, <1>6, <1>7, SMTT(20), Z3T(20) DEF ProcessInv, ThreadInv, Running
<1>9. TermInv'
    BY <1>1, <1>2, <1>3, <1>5, ThreadsApart, Zenon DEF ProcessInv, TermInv
<1>10. TableInv'
    BY <1>1, <1>2, <1>3, <1>5, <1>6, ZenonT(20) DEF ProcessInv, TableInv, Handled
<1>11. TaskInv'
    BY <1>1, <1>4, Zenon DEF ProcessInv, TaskInv
<1>12. RequestInv'
    <2>1. \A t \in Threads : ~InSession(t)' /\ request[t].refs = 0
        BY <1>3, <1>4, NoRequestFacts, Zenon DEF InSession
    <2>2. \A t \in Threads : RequestOf(t)'
        BY <1>3, <1>4, <1>5, <2>1, Zenon DEF RequestOf, One
    <2>. QED
        BY <2>2, Zenon DEF ProcessInv, RequestInv
<1>13. RefsInv'
    <2>1. (\A t \in Threads : Users(t)' = {} /\ Users(t) = {}) /\ Senders' = Senders
        <3>1. \A t \in Threads : thread'[t].pc \in {"none", "guest"} /\ thread[t].pc = "none"
            BY <1>3, <1>5, Zenon
        <3>. QED
            BY <3>1, Zenon DEF Users, Senders
    <2>2. KeptBut(MainThread)
        BY <1>1, <1>5, <1>6, <1>7, <2>1, ZenonT(20) DEF KeptBut, Kept, Runs, Objects
    <2>3. refs'[Client] = ClientHeld'
        BY <1>2, <1>6, <1>7, <2>1, ClientKept, Zenon
    <2>4. Cardinality({}) = 0
        BY ThreadsCounted
    <2>5. MainThread # Null
        BY <1>2, ThreadsApart, Zenon
    <2>6. refs'[MainThread] = Held(MainThread)'
        <3>1. /\ One((MainThread \in Handled)') = 1 /\ One(Runs(MainThread)') = 1
              /\ One((term.child = MainThread)') = 0 /\ One((request[MainThread].bound)') = 0
            BY <1>1, <1>2, <1>3, <1>4, <1>5, <1>6, <2>5 DEF Runs, One
        <3>2. Cardinality(Users(MainThread)') = 0
            BY <1>2, <2>1, <2>4
        <3>3. Held(MainThread)' =
                  Cardinality(Users(MainThread)') + One((MainThread \in Handled)') + One(Runs(MainThread)')
                  + One((term.child = MainThread)') + One((request[MainThread].bound)')
            BY Zenon DEF Held, One
        <3>. QED
            BY <1>7, <3>1, <3>2, <3>3, SMTT(20), Z3T(20)
    <2>. QED
        BY <2>2, <2>3, <2>6, RefsKept, Zenon
<1>14. ClientInv'
    BY <1>1, <1>2, <1>7 DEF ProcessInv, ClientInv
<1>15. RunningInv'
    <2>1. Runners' = {} \cup {MainThread}
        BY <1>2, <1>3, <1>5, Zenon DEF Runners, Running
    <2>2. Cardinality({}) = 0 /\ Cardinality({} \cup {MainThread}) = Cardinality({}) + 1
        BY <1>2, ThreadsCounted, OneMore, Zenon
    <2>. QED
        BY <1>1, <2>1, <2>2 DEF RunningInv
<1>. QED
    BY <1>1, <1>2, <1>3, <1>4, <1>5, <1>6, <1>7, <1>8, <1>9, <1>10, <1>11, <1>12, <1>13, <1>14,
       <1>15, CountingKept, ZenonT(30) DEF ProcessInv, ProcessType

(* SuspendEmulation does nothing but suspend.                              *)
LEMMA SuspendEmulationKeeps ==
    ASSUME ManagerInv, ProcessInv, NEW from, NEW pc, NEW suspended,
           SuspendEmulation(from, pc, suspended)
    PROVE  ProcessInv'
<1>1. /\ process # "Created" /\ server'.replying = server.replying
      /\ UNCHANGED <<process, running, refs, table, tasks, term, destroying, session, request>>
    BY Zenon DEF SuspendEmulation, sessionVars, ManagerInv, ManagerType, ServerRecords
<1>2. /\ thread' \in [Threads -> ThreadRecords]
      /\ \A t \in Threads : /\ thread'[t].pc = thread[t].pc /\ thread'[t].state = thread[t].state
                            /\ thread'[t].target = thread[t].target
                            /\ thread'[t].requested = thread[t].requested
                            /\ thread'[t].signaled = thread[t].signaled
    <2>1. thread' = [t \in Threads |->
                         IF t \notin ThreadList THEN thread[t]
                         ELSE IF suspended THEN RequestSuspend(thread[t]) ELSE Resume(thread[t])]
        BY DEF SuspendEmulation
    <2>2. ASSUME NEW r \in ThreadRecords, NEW q \in {RequestSuspend(r), Resume(r)}
          PROVE  /\ q \in ThreadRecords /\ q.pc = r.pc /\ q.state = r.state /\ q.target = r.target
                 /\ q.requested = r.requested /\ q.signaled = r.signaled
        <3>1. PICK s \in {"no", "yes", "never"} : q = [r EXCEPT !.suspended = s]
            BY DEF RequestSuspend, Resume, ThreadRecords
        <3>. QED
            BY <3>1 DEF ThreadRecords
    <2>3. \A t \in Threads : /\ thread[t] \in ThreadRecords
                              /\ thread'[t] \in {thread[t], RequestSuspend(thread[t]), Resume(thread[t])}
        BY <2>1, ProcessFacts, Zenon
    <2>4. ASSUME NEW t \in Threads
          PROVE  /\ thread'[t] \in ThreadRecords
                 /\ thread'[t].pc = thread[t].pc /\ thread'[t].state = thread[t].state
                 /\ thread'[t].target = thread[t].target
                 /\ thread'[t].requested = thread[t].requested
                 /\ thread'[t].signaled = thread[t].signaled
        BY <2>2, <2>3, SMTT(20), Z3T(20)
    <2>5. thread' \in [Threads -> ThreadRecords]
        <3>1. thread' = [t \in Threads |-> thread'[t]]
            BY <2>1, Zenon
        <3>. QED
            BY <2>4, <3>1, Zenon
    <2>. QED
        BY <2>4, <2>5, Zenon
<1>. USE <1>1, <1>2
<1>3. ThreadInv'
    BY SMTT(20), Z3T(20) DEF ProcessInv, ThreadInv, Running
<1>4. TermInv'
    BY Zenon DEF ProcessInv, TermInv
<1>5. TableInv'
    <2>1. Handled' = Handled
        BY Zenon DEF Handled
    <2>. QED
        <3>1. \A u \in Threads : u \in Handled' => thread'[u].state # "None"
            BY <2>1, Zenon DEF ProcessInv, TableInv
        <3>2. ASSUME NEW c \in Threads, thread'[c].pc = "adding"
              PROVE  /\ thread'[c].target \notin Handled'
                     /\ \A d \in Threads :
                           thread'[d].pc = "adding" /\ thread'[d].target = thread'[c].target => d = c
            <4>1. thread[c].pc = "adding" /\ thread'[c].target = thread[c].target
                BY <3>2, Zenon
            <4>2. /\ thread[c].target \notin Handled
                  /\ \A d \in Threads : thread[d].pc = "adding" /\ thread[d].target = thread[c].target => d = c
                BY <4>1, Zenon DEF ProcessInv, TableInv
            <4>. QED
                BY <2>1, <4>1, <4>2, Zenon
        <3>. QED
            BY <3>1, <3>2, Zenon DEF ProcessInv, TableInv
<1>6. TaskInv'
    BY Zenon DEF ProcessInv, TaskInv
<1>7. RequestInv'
    <2>1. \A u \in Threads : InSession(u)' <=> InSession(u)
        BY Zenon DEF InSession
    <2>2. \A u \in Threads : RequestOf(u)'
        BY <2>1, ZenonT(30) DEF ProcessInv, RequestInv, RequestOf, One
    <2>. QED
        BY <2>2, Zenon DEF ProcessInv, RequestInv
<1>8. RefsInv'
    <2>1. \A u \in Threads : Users(u)' = Users(u)
        BY Zenon DEF Users
    <2>2. Senders' = Senders
        BY Zenon DEF Senders
    <2>3. KeptBut(Null)
        BY <2>1, Zenon DEF KeptBut, Kept, Handled, Runs
    <2>4. refs'[Client] = ClientHeld'
        BY <2>2, ClientKept, Zenon DEF Handled
    <2>. QED
        BY <2>3, <2>4, RefsKept, ThreadsApart, Zenon
<1>9. ClientInv'
    BY Zenon DEF ProcessInv, ClientInv
<1>10. RunningInv'
    <2>1. Runners' = Runners
        BY Zenon DEF Runners, Running
    <2>. QED
        BY <2>1, Zenon DEF ProcessInv, RunningInv
<1>. QED
    BY <1>3, <1>4, <1>5, <1>6, <1>7, <1>8, <1>9, <1>10, CountingKept, SMTT(20),
       Z3T(20) DEF ProcessInv, ProcessType
===============================================================================
