-------------------------- MODULE ServerManagerProofs --------------------------
(***************************************************************************)
(* A server manager sleeps over nothing, no request is lost, no object is  *)
(* destroyed too early or kept too long, and a termination leaves nothing  *)
(* behind, for every number of threads.  The invariants and the steps of   *)
(* the process are in KProcessProofs.                                      *)
(***************************************************************************)
EXTENDS KProcessProofs

(* Two lists in one, as the manager links its deferred list.               *)
LEMMA ConcatFacts ==
    ASSUME NEW S, NEW s \in Seq(S), NEW r \in Seq(S), IsInjective(s), IsInjective(r),
           Range(s) \cap Range(r) = {}
    PROVE  /\ s \o r \in Seq(S) /\ IsInjective(s \o r)
           /\ Range(s \o r) = Range(s) \cup Range(r)
<1>1. PICK l \in Nat, m \in Nat : l = Len(s) /\ m = Len(r)
    OBVIOUS
<1>2. DOMAIN s = 1..l /\ DOMAIN r = 1..m /\ DOMAIN (s \o r) = 1..(l + m) /\ s \o r \in Seq(S)
    BY <1>1
<1>3. \A i \in 1..(l + m) : (s \o r)[i] = IF i <= l THEN s[i] ELSE r[i - l]
    BY <1>1
<1>4. \A i \in 1..l : \A j \in 1..m : s[i] # r[j]
    BY <1>2, Zenon DEF Range
<1>5. IsInjective(s \o r)
    <2>1. ASSUME NEW i \in 1..(l + m), NEW j \in 1..(l + m), (s \o r)[i] = (s \o r)[j]
          PROVE  i = j
        <3>1. CASE i <= l /\ j <= l
            <4>1. i \in 1..l /\ j \in 1..l /\ s[i] = s[j]
                BY <1>1, <1>3, <2>1, <3>1
            <4>. QED
                BY <1>2, <4>1, Zenon DEF IsInjective
        <3>2. CASE ~(i <= l) /\ ~(j <= l)
            <4>1. i - l \in 1..m /\ j - l \in 1..m /\ r[i - l] = r[j - l]
                BY <1>1, <1>3, <2>1, <3>2
            <4>2. i - l = j - l
                BY <1>2, <4>1, Zenon DEF IsInjective
            <4>. QED
                BY <4>2
        <3>3. CASE i <= l /\ ~(j <= l)
            <4>1. i \in 1..l /\ j - l \in 1..m /\ s[i] = r[j - l]
                BY <1>1, <1>3, <2>1, <3>3
            <4>. QED
                BY <1>4, <4>1, Zenon
        <3>4. CASE ~(i <= l) /\ j <= l
            <4>1. j \in 1..l /\ i - l \in 1..m /\ s[j] = r[i - l]
                BY <1>1, <1>3, <2>1, <3>4
            <4>. QED
                BY <1>4, <4>1, Zenon
        <3>. QED
            BY <3>1, <3>2, <3>3, <3>4, Zenon
    <2>. QED
        BY <1>2, <2>1, Zenon DEF IsInjective
<1>6. Range(s \o r) \subseteq Range(s) \cup Range(r)
    BY <1>2, <1>3 DEF Range
<1>7. Range(s) \subseteq Range(s \o r)
    BY <1>2, <1>3 DEF Range
<1>8. ASSUME NEW j \in 1..m
      PROVE  r[j] \in Range(s \o r)
    <2>1. l + j \in 1..(l + m) /\ ~(l + j <= l) /\ (l + j) - l = j
        OBVIOUS
    <2>2. (s \o r)[l + j] = r[(l + j) - l]
        BY <1>3, <2>1, Zenon
    <2>. QED
        BY <1>2, <2>1, <2>2, Zenon DEF Range
<1>9. Range(r) \subseteq Range(s \o r)
    BY <1>2, <1>8, Zenon DEF Range
<1>. QED
    BY <1>2, <1>5, <1>6, <1>7, <1>9

(* A list without its i-th element, as MultiWait::WaitAny unlinks it.      *)
LEMMA UnlinkedFacts ==
    ASSUME NEW S, NEW s \in Seq(S), NEW i \in DOMAIN s, IsInjective(s)
    PROVE  /\ Unlinked(s, i) \in Seq(S) /\ IsInjective(Unlinked(s, i))
           /\ Range(Unlinked(s, i)) = Range(s) \ {s[i]}
<1>1. PICK l \in Nat : l = Len(s) /\ DOMAIN s = 1..l /\ i \in 1..l
    OBVIOUS
<1>2. Unlinked(s, i) = [j \in 1..(l - 1) |-> IF j < i THEN s[j] ELSE s[j + 1]]
    BY <1>1 DEF Unlinked
<1>3. \A j \in 1..(l - 1) : s[j] \in S /\ s[j + 1] \in S
    BY <1>1
<1>4. Unlinked(s, i) \in Seq(S) /\ DOMAIN Unlinked(s, i) = 1..(l - 1)
    BY <1>1, <1>2, <1>3
<1>5. \A j \in 1..(l - 1) : Unlinked(s, i)[j] = IF j < i THEN s[j] ELSE s[j + 1]
    BY <1>2, Zenon
<1>6. ASSUME NEW j \in 1..(l - 1), NEW k \in 1..(l - 1), Unlinked(s, i)[j] = Unlinked(s, i)[k]
      PROVE  j = k
    <2>1. PICK a \in 1..l : Unlinked(s, i)[j] = s[a] /\ a = IF j < i THEN j ELSE j + 1
        BY <1>1, <1>5
    <2>2. PICK b \in 1..l : Unlinked(s, i)[k] = s[b] /\ b = IF k < i THEN k ELSE k + 1
        BY <1>1, <1>5
    <2>3. a = b
        BY <1>1, <1>6, <2>1, <2>2, Zenon DEF IsInjective
    <2>. QED
        BY <1>1, <2>1, <2>2, <2>3
<1>7. ASSUME NEW j \in 1..(l - 1)
      PROVE  Unlinked(s, i)[j] \in Range(s) \ {s[i]}
    <2>1. PICK a \in 1..l : Unlinked(s, i)[j] = s[a] /\ a = IF j < i THEN j ELSE j + 1
        BY <1>1, <1>5
    <2>2. a # i
        BY <1>1, <2>1
    <2>. QED
        BY <1>1, <2>1, <2>2, Zenon DEF Range, IsInjective
<1>8. ASSUME NEW j \in 1..l, j # i
      PROVE  s[j] \in Range(Unlinked(s, i))
    <2>1. CASE j < i
        <3>1. j \in 1..(l - 1) /\ Unlinked(s, i)[j] = s[j]
            BY <1>1, <1>5, <2>1
        <3>. QED
            BY <1>4, <3>1 DEF Range
    <2>2. CASE j > i
        <3>1. j - 1 \in 1..(l - 1) /\ Unlinked(s, i)[j - 1] = s[j]
            BY <1>1, <1>5, <2>2
        <3>. QED
            BY <1>4, <3>1, Zenon DEF Range
    <2>. QED
        BY <1>1, <1>8, <2>1, <2>2
<1>9. Range(Unlinked(s, i)) \subseteq Range(s) \ {s[i]}
    BY <1>4, <1>7, Zenon DEF Range
<1>10. Range(s) \ {s[i]} \subseteq Range(Unlinked(s, i))
    BY <1>1, <1>8, Zenon DEF Range
<1>11. Range(Unlinked(s, i)) = Range(s) \ {s[i]}
    BY <1>9, <1>10, Zenon
<1>. QED
    BY <1>4, <1>6, <1>11, Zenon DEF IsInjective

-----------------------------------------------------------------------------
(* Notifications.                                                          *)

(* A notification changes at most who has woken the manager, and wakes it  *)
(* if it waits for that holder and the holder is signaled.                 *)
LEMMA NotifyFacts ==
    ASSUME NEW sv \in ServerRecords, NEW s, NEW h \in Holders
    PROVE  \E w \in Holders \cup {NoHolder} :
              /\ NotifyAvailable(sv, s, h) = [sv EXCEPT !.woken = w]
              /\ w # sv.woken => /\ sv.pc = "waiting" /\ sv.woken = NoHolder /\ w = h
                                 /\ h \in Range(sv.multiWait) /\ IsSignaled(sv, s, h)
              /\ sv.pc = "waiting" /\ sv.woken = NoHolder /\ h \in Range(sv.multiWait)
                 /\ IsSignaled(sv, s, h) => w = h
<1>1. CASE sv.pc = "waiting" /\ sv.woken = NoHolder /\ h \in Range(sv.multiWait) /\ IsSignaled(sv, s, h)
    BY <1>1 DEF NotifyAvailable
<1>2. CASE ~(sv.pc = "waiting" /\ sv.woken = NoHolder /\ h \in Range(sv.multiWait) /\ IsSignaled(sv, s, h))
    <2>1. NotifyAvailable(sv, s, h) = sv
        BY <1>2 DEF NotifyAvailable
    <2>2. sv = [sv EXCEPT !.woken = sv.woken] /\ sv.woken \in Holders \cup {NoHolder}
        BY Zenon DEF ServerRecords
    <2>. QED
        BY <1>2, <2>1, <2>2, Zenon
<1>. QED
    BY <1>1, <1>2

(* Signaling the wakeup event wakes a manager that waits for it.           *)
LEMMA SignalWakeupFacts ==
    ASSUME NEW sv \in ServerRecords
    PROVE  \E w \in Holders \cup {NoHolder} :
              /\ SignalWakeup(sv) = [sv EXCEPT !.wakeup = TRUE, !.woken = w]
              /\ w # sv.woken => /\ sv.pc = "waiting" /\ sv.woken = NoHolder /\ w = "wakeup"
                                 /\ "wakeup" \in Range(sv.multiWait)
              /\ sv.pc = "waiting" /\ sv.woken = NoHolder /\ "wakeup" \in Range(sv.multiWait)
                 /\ ~sv.wakeup => w = "wakeup"
<1>1. CASE sv.wakeup
    <2>1. SignalWakeup(sv) = sv /\ sv = [sv EXCEPT !.wakeup = TRUE, !.woken = sv.woken]
          /\ sv.woken \in Holders \cup {NoHolder}
        BY <1>1, Zenon DEF SignalWakeup, ServerRecords
    <2>. QED
        BY <1>1, <2>1, Zenon
<1>2. CASE ~sv.wakeup
    <2>1. PICK up \in ServerRecords : up = [sv EXCEPT !.wakeup = TRUE]
        BY Zenon DEF ServerRecords
    <2>2. up.pc = sv.pc /\ up.woken = sv.woken /\ up.multiWait = sv.multiWait /\ up.wakeup
        BY <2>1 DEF ServerRecords
    <2>3. SignalWakeup(sv) = NotifyAvailable(up, session, "wakeup") /\ "wakeup" \in Holders
        BY <1>2, <2>1 DEF SignalWakeup, Holders
    <2>4. IsSignaled(up, session, "wakeup")
        BY <2>2 DEF IsSignaled
    <2>5. PICK w \in Holders \cup {NoHolder} :
              /\ NotifyAvailable(up, session, "wakeup") = [up EXCEPT !.woken = w]
              /\ w # up.woken => /\ up.pc = "waiting" /\ up.woken = NoHolder /\ w = "wakeup"
                                 /\ "wakeup" \in Range(up.multiWait)
              /\ up.pc = "waiting" /\ up.woken = NoHolder /\ "wakeup" \in Range(up.multiWait) => w = "wakeup"
        BY <2>3, <2>4, NotifyFacts
    <2>6. [up EXCEPT !.woken = w] = [sv EXCEPT !.wakeup = TRUE, !.woken = w]
        BY <2>1
    <2>. QED
        BY <2>2, <2>3, <2>5, <2>6, Zenon
<1>. QED
    BY <1>1, <1>2, Zenon

(* Signaling the deferral event wakes a manager that waits for it.         *)
LEMMA SignalDeferralFacts ==
    ASSUME NEW sv \in ServerRecords
    PROVE  \E w \in Holders \cup {NoHolder} :
              /\ SignalDeferral(sv) = [sv EXCEPT !.deferral = TRUE, !.woken = w]
              /\ w # sv.woken => /\ sv.pc = "waiting" /\ sv.woken = NoHolder /\ w = "deferral"
                                 /\ "deferral" \in Range(sv.multiWait)
              /\ sv.pc = "waiting" /\ sv.woken = NoHolder /\ "deferral" \in Range(sv.multiWait)
                 /\ ~sv.deferral => w = "deferral"
<1>1. CASE sv.deferral
    <2>1. SignalDeferral(sv) = sv /\ sv = [sv EXCEPT !.deferral = TRUE, !.woken = sv.woken]
          /\ sv.woken \in Holders \cup {NoHolder}
        BY <1>1, Zenon DEF SignalDeferral, ServerRecords
    <2>. QED
        BY <1>1, <2>1, Zenon
<1>2. CASE ~sv.deferral
    <2>1. PICK up \in ServerRecords : up = [sv EXCEPT !.deferral = TRUE]
        BY Zenon DEF ServerRecords
    <2>2. up.pc = sv.pc /\ up.woken = sv.woken /\ up.multiWait = sv.multiWait /\ up.deferral
        BY <2>1 DEF ServerRecords
    <2>3. SignalDeferral(sv) = NotifyAvailable(up, session, "deferral") /\ "deferral" \in Holders
        BY <1>2, <2>1 DEF SignalDeferral, Holders
    <2>4. IsSignaled(up, session, "deferral")
        BY <2>2 DEF IsSignaled
    <2>5. PICK w \in Holders \cup {NoHolder} :
              /\ NotifyAvailable(up, session, "deferral") = [up EXCEPT !.woken = w]
              /\ w # up.woken => /\ up.pc = "waiting" /\ up.woken = NoHolder /\ w = "deferral"
                                 /\ "deferral" \in Range(up.multiWait)
              /\ up.pc = "waiting" /\ up.woken = NoHolder /\ "deferral" \in Range(up.multiWait) => w = "deferral"
        BY <2>3, <2>4, NotifyFacts
    <2>6. [up EXCEPT !.woken = w] = [sv EXCEPT !.deferral = TRUE, !.woken = w]
        BY <2>1
    <2>. QED
        BY <2>2, <2>3, <2>5, <2>6, Zenon
<1>. QED
    BY <1>1, <1>2, Zenon

(* Linking to the deferred list, by a manager that does not wait, adds the *)
(* holder at the end and leaves the wakeup event signaled.                 *)
LEMMA LinkToDeferredListFacts ==
    ASSUME NEW sv \in ServerRecords, NEW h \in Holders, sv.pc # "waiting"
    PROVE  /\ LinkToDeferredList(sv, h) =
                  [sv EXCEPT !.deferredList = Append(sv.deferredList, h), !.wakeup = TRUE]
           /\ LinkToDeferredList(sv, h) \in ServerRecords
<1>1. Append(sv.deferredList, h) \in Seq(Holders)
    BY AppendFacts DEF ServerRecords
<1>2. PICK l \in ServerRecords : l = [sv EXCEPT !.deferredList = Append(sv.deferredList, h)]
    BY <1>1, Zenon DEF ServerRecords
<1>3. l.pc # "waiting" /\ l.woken = sv.woken
    BY <1>2 DEF ServerRecords
<1>4. PICK w \in Holders \cup {NoHolder} : SignalWakeup(l) = [l EXCEPT !.wakeup = TRUE, !.woken = w] /\ w = l.woken
    BY <1>3, SignalWakeupFacts, Zenon
<1>5. LinkToDeferredList(sv, h) = [l EXCEPT !.wakeup = TRUE, !.woken = sv.woken]
    BY <1>2, <1>3, <1>4 DEF LinkToDeferredList
<1>6. [l EXCEPT !.wakeup = TRUE, !.woken = sv.woken] =
          [sv EXCEPT !.deferredList = Append(sv.deferredList, h), !.wakeup = TRUE]
    BY <1>2, Zenon DEF ServerRecords
<1>7. [l EXCEPT !.wakeup = TRUE, !.woken = sv.woken] \in ServerRecords
    BY <1>2, Zenon DEF ServerRecords
<1>. QED
    BY <1>5, <1>6, <1>7

-----------------------------------------------------------------------------
(* The session.                                                            *)

(* A step that leaves the requests of the session where they are, or moves *)
(* one within it.                                                          *)
LEMMA SessionKept ==
    ASSUME ProcessInv, UNCHANGED <<process, thread, running, refs, table, tasks, term, request>>,
           destroying' \in Threads \cup {Server, Host, Null}, ClientInv',
           IsInjective(session'.list), session'.current \notin Range(session'.list),
           server'.replying \notin Range(session'.list),
           session'.current # Null => session'.current # server'.replying,
           \A t \in Threads : InSession(t)' <=> InSession(t)
    PROVE  ProcessInv'
<1>1. ProcessType' /\ ThreadInv' /\ TableInv' /\ TaskInv'
    BY SMTT(20), Z3T(20) DEF ProcessInv, ProcessType, ThreadInv, TableInv, TaskInv, Handled
<1>2. TermInv'
    BY Zenon DEF ProcessInv, TermInv
<1>3. \A t \in Threads : RequestOf(t)'
    BY Zenon DEF ProcessInv, RequestInv, RequestOf, One
<1>4. RequestInv'
    BY <1>3 DEF RequestInv
<1>5. RefsInv'
    <2>1. (\A t \in Threads : Users(t)' = Users(t)) /\ Senders' = Senders
        BY DEF Users, Senders
    <2>2. KeptBut(Null)
        BY <2>1 DEF KeptBut, Kept, Handled, Runs
    <2>3. refs'[Client] = ClientHeld'
        BY <2>1, ClientKept DEF Handled
    <2>. QED
        BY <2>2, <2>3, RefsKept, ThreadsApart, Zenon
<1>6. RunningInv'
    <2>1. Runners' = Runners
        BY DEF Runners
    <2>. QED
        BY <2>1 DEF ProcessInv, RunningInv
<1>. QED
    BY <1>1, <1>2, <1>4, <1>5, <1>6, CountingKept DEF ProcessInv

(* One that does not touch the requests.                                   *)
LEMMA RequestsKept ==
    ASSUME ProcessInv,
           UNCHANGED <<process, thread, running, refs, table, tasks, term, destroying, request>>,
           session'.client = session.client, session'.list = session.list,
           session'.current = session.current, server'.replying = server.replying
    PROVE  ProcessInv'
<1>1. ClientInv'
    BY DEF ProcessInv, ClientInv
<1>2. \A t \in Threads : InSession(t)' <=> InSession(t)
    BY DEF InSession
<1>3. /\ IsInjective(session'.list) /\ session'.current \notin Range(session'.list)
      /\ server'.replying \notin Range(session'.list)
      /\ session'.current # Null => session'.current # server'.replying
    BY DEF ProcessInv, RequestInv
<1>4. destroying' \in Threads \cup {Server, Host, Null}
    BY ProcessFacts
<1>. QED
    BY <1>1, <1>2, <1>3, <1>4, SessionKept

(* KClientSession::Destroy, up to the notification of the other end.       *)
LEMMA ClientClosingKeeps ==
    ASSUME ManagerInv, ProcessInv, ClientClosing \/ ClientClosed, Elsewhere
    PROVE  ProcessInv'
<1>1. /\ destroying' \in {destroying, Null} /\ (destroying # Null \/ session.client # "open")
      /\ UNCHANGED <<process, thread, running, refs, table, tasks, term, request, server>>
    BY DEF ClientClosing, ClientClosed, Elsewhere, processVars
<1>2. /\ session'.client \notin {"none", "open"} /\ session'.list = session.list
      /\ session'.current = session.current
    <2>1. CASE ClientClosing
        BY <2>1 DEF ClientClosing, ManagerInv, ManagerType, SessionRecords
    <2>2. CASE ClientClosed
        BY <2>2 DEF ClientClosed, ManagerInv, ManagerType, SessionRecords
    <2>. QED
        BY <2>1, <2>2
<1>3. ClientInv' /\ destroying' \in Threads \cup {Server, Host, Null}
    BY <1>1, <1>2, ProcessFacts, UnusedFacts DEF ClientInv
<1>4. \A t \in Threads : InSession(t)' <=> InSession(t)
    BY <1>1, <1>2 DEF InSession
<1>5. /\ IsInjective(session'.list) /\ session'.current \notin Range(session'.list)
      /\ server'.replying \notin Range(session'.list)
      /\ session'.current # Null => session'.current # server'.replying
    BY <1>1, <1>2 DEF ProcessInv, RequestInv
<1>. QED
    BY <1>1, <1>3, <1>4, <1>5, SessionKept

(* KServerSession::Destroy, up to its cleanup.                             *)
LEMMA ServerClosingKeeps ==
    ASSUME ManagerInv, ProcessInv, ServerClosing \/ ServerClosed, Elsewhere
    PROVE  ProcessInv'
<1>1. UNCHANGED <<process, thread, running, refs, table, tasks, term, destroying, request, server>>
    BY DEF ServerClosing, ServerClosed, Elsewhere, processVars
<1>2. /\ session'.client = session.client /\ session'.list = session.list
      /\ session'.current = session.current
    <2>1. CASE ServerClosing
        BY <2>1 DEF ServerClosing, ManagerInv, ManagerType, SessionRecords
    <2>2. CASE ServerClosed
        BY <2>2 DEF ServerClosed, ManagerInv, ManagerType, SessionRecords
    <2>. QED
        BY <2>1, <2>2
<1>. QED
    BY <1>1, <1>2, RequestsKept

(* ReceiveRequest takes the first request of the list.                     *)
LEMMA OnSessionEventKeeps ==
    ASSUME ManagerInv, ProcessInv, OnSessionEvent
    PROVE  ProcessInv'
<1>1. /\ server.pc = "session" /\ server'.replying = server.replying
      /\ UNCHANGED <<process, thread, running, refs, table, tasks, term, destroying, request>>
    BY DEF OnSessionEvent, ServerAt, ServerTo, processVars, ManagerInv, ManagerType, ServerRecords
<1>2. CASE IsClosed(session)
    <2>1. session' = [session EXCEPT !.server = "destroyed"]
        BY <1>2 DEF OnSessionEvent
    <2>2. /\ session'.client = session.client /\ session'.list = session.list
          /\ session'.current = session.current
        BY <2>1 DEF ManagerInv, ManagerType, SessionRecords
    <2>. QED
        BY <1>1, <2>2, RequestsKept
<1>3. CASE ~IsClosed(session)
    <2>1. /\ session' = [session EXCEPT !.current = Head(session.list), !.list = Tail(session.list)]
          /\ session.current = Null /\ session.list # <<>> /\ session.list \in Seq(Threads)
          /\ server.replying = Null
        BY <1>1, <1>3 DEF OnSessionEvent, Received, ManagerInv, ManagerType, SessionRecords,
           HandInv, ServerAt
    <2>2. /\ session'.client = session.client /\ session'.list = Tail(session.list)
          /\ session'.current = Head(session.list)
        BY <2>1 DEF ManagerInv, ManagerType, SessionRecords
    <2>3. IsInjective(session.list)
        BY DEF ProcessInv, RequestInv
    <2>4. /\ Head(session.list) \in Threads
          /\ Range(session.list) = {Head(session.list)} \cup Range(Tail(session.list))
          /\ IsInjective(Tail(session.list)) /\ Head(session.list) \notin Range(Tail(session.list))
          /\ Tail(session.list) \in Seq(Threads)
        BY <2>1, <2>3, TailFacts
    <2>5. Null \notin Range(session.list)
        BY <2>1, ThreadsApart DEF ProcessInv, RequestInv
    <2>6. \A t \in Threads : InSession(t)' <=> InSession(t)
        BY <1>1, <2>1, <2>2, <2>4, ThreadsApart, Zenon DEF InSession
    <2>7. /\ IsInjective(session'.list) /\ session'.current \notin Range(session'.list)
          /\ server'.replying \notin Range(session'.list)
          /\ session'.current # Null => session'.current # server'.replying
        BY <1>1, <2>1, <2>2, <2>4, <2>5, Zenon
    <2>8. ClientInv' /\ destroying' \in Threads \cup {Server, Host, Null}
        BY <1>1, <2>2, ProcessFacts DEF ClientInv
    <2>. QED
        BY <1>1, <2>6, <2>7, <2>8, SessionKept
<1>. QED
    BY <1>2, <1>3

(* SendReply takes the current request.                                    *)
LEMMA SendReplyKeeps ==
    ASSUME ManagerInv, ProcessInv, SendReply
    PROVE  ProcessInv'
<1>1. /\ session' = [session EXCEPT !.current = Null]
      /\ server' = [server EXCEPT !.pc = "replied", !.replying = session.current]
      /\ server.pc = "reply"
      /\ UNCHANGED <<process, thread, running, refs, table, tasks, term, destroying, request>>
    BY DEF SendReply, ServerAt, processVars
<1>2. /\ session'.client = session.client /\ session'.list = session.list /\ session'.current = Null
      /\ session.list \in Seq(Threads)
    BY <1>1 DEF ManagerInv, ManagerType, SessionRecords
<1>3. server'.replying = session.current /\ server.replying = Null
    BY <1>1 DEF ManagerInv, ManagerType, ServerRecords, HandInv, ServerAt
<1>4. \A t \in Threads : InSession(t)' <=> InSession(t)
    BY <1>2, <1>3, ThreadsApart DEF InSession
<1>5. Null \notin Range(session.list)
    BY <1>3 DEF ProcessInv, RequestInv
<1>6. /\ IsInjective(session'.list) /\ session'.current \notin Range(session'.list)
      /\ server'.replying \notin Range(session'.list)
      /\ session'.current # Null => session'.current # server'.replying
    BY <1>2, <1>3, <1>5, Zenon DEF ProcessInv, RequestInv
<1>7. ClientInv' /\ destroying' \in Threads \cup {Server, Host, Null}
    BY <1>1, <1>2, ProcessFacts, Zenon DEF ClientInv
<1>. QED
    BY <1>1, <1>4, <1>6, <1>7, SessionKept

-----------------------------------------------------------------------------
(* The end of a request.                                                   *)

(* The request of u, which is in the session, is taken out of it and       *)
(* ended; the others stay where they are.                                  *)
TakenOut(u) ==
    /\ InSession(u) /\ EndRequest(u) /\ UNCHANGED <<process, running, table, tasks, term, destroying>>
    /\ session'.client = session.client /\ IsInjective(session'.list)
    /\ session'.current \notin Range(session'.list) /\ server'.replying \notin Range(session'.list)
    /\ session'.current # Null => session'.current # server'.replying
    /\ ~InSession(u)' /\ \A t \in Threads \ {u} : InSession(t)' <=> InSession(t)

(* A sender that waits is woken, and has yet to close its request.         *)
LEMMA WakesSender ==
    ASSUME ProcessInv, NEW u \in Threads, TakenOut(u), thread[u].pc = "waiting"
    PROVE  ProcessInv'
<1>1. /\ UNCHANGED <<process, running, table, tasks, term, destroying>>
      /\ session'.client = session.client /\ IsInjective(session'.list)
      /\ session'.current \notin Range(session'.list) /\ server'.replying \notin Range(session'.list)
      /\ session'.current # Null => session'.current # server'.replying
      /\ InSession(u) /\ ~InSession(u)' /\ \A t \in Threads \ {u} : InSession(t)' <=> InSession(t)
    BY Zenon DEF TakenOut
<1>2. /\ thread[u].state = "Waiting" /\ ~thread[u].requested /\ ~thread[u].signaled
      /\ request[u].refs = 2 /\ request[u].bound /\ refs[u] > 0 /\ process # "Created" /\ u # term.by
      /\ term.pc \notin {"table", "entries", "done"}
    <2>1. /\ thread[u].state = "Waiting" /\ ~thread[u].requested /\ ~thread[u].signaled
          /\ request[u].refs = 2 /\ request[u].bound
        BY ProcessFacts, Zenon DEF ThreadInv, RequestInv, RequestOf
    <2>2. refs[u] > 0
        BY <2>1, BoundFacts
    <2>3. process # "Created" /\ u # term.by
        BY <2>1, ProcessFacts, SMTT(20), Z3T(20) DEF TermInv, NewThread
    <2>. QED
        BY <2>1, <2>2, <2>3, ProcessFacts, Zenon DEF TermInv
<1>3. /\ thread' \in [Threads -> ThreadRecords]
      /\ \A t \in Threads \ {u} : thread'[t] = thread[t]
      /\ thread'[u].pc = "returning" /\ thread'[u].state = "Runnable"
      /\ thread'[u].target = thread[u].target /\ thread'[u].requested = thread[u].requested
      /\ thread'[u].signaled = thread[u].signaled
    <2>1. thread[u] \in ThreadRecords
        BY ProcessFacts
    <2>2. PICK r \in ThreadRecords : r = [thread[u] EXCEPT !.state = "Runnable", !.pc = "returning"]
        BY <2>1, Zenon DEF ThreadRecords, Running
    <2>3. thread' = [thread EXCEPT ![u] = r]
        BY <1>2, <2>2, Zenon DEF TakenOut, EndRequest, EndWait, IsTerminationRequested
    <2>4. /\ r.pc = "returning" /\ r.state = "Runnable" /\ r.target = thread[u].target
          /\ r.requested = thread[u].requested /\ r.signaled = thread[u].signaled
        BY <2>1, <2>2 DEF ThreadRecords
    <2>. QED
        BY <2>3, <2>4, ProcessFacts, Zenon
<1>4. /\ request' \in [Threads -> [refs : 0..2, bound : BOOLEAN]]
      /\ request'[u].refs = 1 /\ request'[u].bound /\ request[u].bound
      /\ \A t \in Threads \ {u} : request'[t] = request[t]
    <2>1. request' = [request EXCEPT ![u] = RequestClosed(@)] /\ request[u].refs > 0
        BY <1>2, SMTT(20), Z3T(20) DEF TakenOut, EndRequest
    <2>2. /\ request' \in [Threads -> [refs : 0..2, bound : BOOLEAN]]
          /\ request'[u].refs = request[u].refs - 1
          /\ (request'[u].bound <=> request[u].refs = 2 /\ request[u].bound)
          /\ \A t \in Threads \ {u} : request'[t] = request[t]
        BY <2>1, RequestClosedFacts, ProcessFacts, Zenon
    <2>. QED
        BY <1>2, <2>2, SMTT(20), Z3T(20)
<1>5. refs' = refs
    BY <1>2, SMTT(20), Z3T(20) DEF TakenOut, EndRequest, RefsAfterRequest
<1>. USE <1>1, <1>2, <1>3, <1>4, <1>5
<1>6. ThreadInv'
    BY SMTT(20), Z3T(20) DEF ProcessInv, ThreadInv, Running
<1>7. TermInv'
    BY Zenon DEF ProcessInv, TermInv
<1>8. TableInv'
    BY SMTT(20), Z3T(20) DEF ProcessInv, TableInv, Handled
<1>9. TaskInv'
    BY ZenonT(30) DEF ProcessInv, TaskInv
<1>10. RequestInv'
    <2>1. \A t \in Threads \ {u} : RequestOf(t)'
        BY SMTT(20), Z3T(20) DEF ProcessInv, RequestInv, RequestOf, One
    <2>2. RequestOf(u)'
        BY SMTT(20), Z3T(20) DEF RequestOf, One
    <2>. QED
        BY <2>1, <2>2, Zenon DEF RequestInv
<1>11. RefsInv'
    <2>1. (\A t \in Threads : Users(t)' = Users(t)) /\ Senders' = Senders
        BY SMTT(20), Z3T(20) DEF Users, Senders
    <2>2. KeptBut(u)
        BY <2>1, Zenon DEF KeptBut, Kept, Handled, Runs
    <2>3. refs'[Client] = ClientHeld'
        BY <2>1, ClientKept, Zenon DEF Handled
    <2>4. refs'[u] = Held(u)'
        BY <2>1, SMTT(20), Z3T(20) DEF ProcessInv, RefsInv, Held, Handled, Runs, One
    <2>. QED
        BY <2>2, <2>3, <2>4, RefsKept, Zenon
<1>12. ClientInv'
    BY Zenon DEF ProcessInv, ClientInv
<1>13. RunningInv'
    <2>1. Runners' = Runners
        BY ZenonT(30) DEF Runners, Running
    <2>. QED
        BY <2>1, Zenon DEF ProcessInv, RunningInv
<1>. QED
    BY <1>6, <1>7, <1>8, <1>9, <1>10, <1>11, <1>12, <1>13, CountingKept, ZenonT(30) DEF ProcessInv,
       ProcessType

(* A sender that terminates does not wait any more, and the request is     *)
(* closed with the last reference.                                         *)
LEMMA ClosesRequest ==
    ASSUME ProcessInv, NEW u \in Threads, TakenOut(u), thread[u].pc # "waiting"
    PROVE  ProcessInv'
<1>1. /\ UNCHANGED <<process, running, table, tasks, term, destroying>>
      /\ session'.client = session.client /\ IsInjective(session'.list)
      /\ session'.current \notin Range(session'.list) /\ server'.replying \notin Range(session'.list)
      /\ session'.current # Null => session'.current # server'.replying
      /\ InSession(u) /\ ~InSession(u)' /\ \A t \in Threads \ {u} : InSession(t)' <=> InSession(t)
    BY Zenon DEF TakenOut
<1>2. /\ thread[u].requested /\ thread[u].pc \in {"returning", "end", "exiting", "gone"}
      /\ request[u].refs = (IF thread[u].pc = "returning" THEN 2 ELSE 1)
    BY <1>1, ProcessFacts, Zenon DEF RequestInv, RequestOf, One
<1>3. thread' = thread
    BY <1>2, Zenon DEF TakenOut, EndRequest, IsTerminationRequested
<1>4. /\ request' \in [Threads -> [refs : 0..2, bound : BOOLEAN]]
      /\ request'[u].refs = request[u].refs - 1
      /\ (request'[u].bound <=> request[u].refs = 2 /\ request[u].bound)
      /\ \A t \in Threads \ {u} : request'[t] = request[t]
    <2>1. request' = [request EXCEPT ![u] = RequestClosed(@)] /\ request[u].refs > 0
        BY <1>2, SMTT(20), Z3T(20) DEF TakenOut, EndRequest
    <2>. QED
        BY <2>1, RequestClosedFacts, ProcessFacts, Zenon
<1>5. /\ refs' \in [Objects -> Nat] /\ refs'[u] = refs[u] - One(request[u].refs = 1 /\ request[u].bound)
      /\ \A o \in Objects \ {u} : refs'[o] = refs[o]
    <2>1. refs' = RefsAfterRequest(refs, u)
        BY Zenon DEF TakenOut, EndRequest
    <2>. QED
        BY <2>1, BoundFacts, RefsAfterRequestFacts, ProcessFacts, Zenon
<1>6. \A t \in Threads : refs'[t] > 0 => refs[t] > 0
    BY <1>5, CountedFacts, SMTT(20), Z3T(20) DEF One, Objects
<1>. USE <1>1, <1>2, <1>3, <1>4, <1>5
<1>7. ThreadInv'
    BY Zenon DEF ProcessInv, ThreadInv, Running
<1>8. TermInv'
    BY <1>6, Zenon DEF ProcessInv, TermInv
<1>9. TableInv'
    BY SMTT(20), Z3T(20) DEF ProcessInv, TableInv, Handled
<1>10. TaskInv'
    BY Zenon DEF ProcessInv, TaskInv
<1>11. RequestInv'
    <2>1. \A t \in Threads \ {u} : RequestOf(t)'
        BY SMTT(20), Z3T(20) DEF ProcessInv, RequestInv, RequestOf, One
    <2>2. RequestOf(u)'
        BY SMTT(20), Z3T(20) DEF RequestOf, One
    <2>. QED
        BY <2>1, <2>2, Zenon DEF RequestInv
<1>12. RefsInv'
    <2>1. (\A t \in Threads : Users(t)' = Users(t)) /\ Senders' = Senders
        BY Zenon DEF Users, Senders
    <2>2. KeptBut(u)
        BY <2>1, Zenon DEF KeptBut, Kept, Handled, Runs, Objects
    <2>3. refs'[Client] = ClientHeld'
        BY <2>1, ClientKept, ThreadsApart, Zenon DEF Handled, Objects
    <2>4. refs[u] = Held(u) /\ (u \in Handled' <=> u \in Handled) /\ (Runs(u)' <=> Runs(u))
        BY Zenon DEF ProcessInv, RefsInv, Handled, Runs
    <2>5. One(request'[u].bound) = One(request[u].bound) - One(request[u].refs = 1 /\ request[u].bound)
        BY SMTT(20), Z3T(20) DEF One
    <2>6. refs'[u] = Held(u)'
        BY <2>1, <2>4, <2>5, CountedFacts, SMTT(20), Z3T(20) DEF Held, One
    <2>. QED
        BY <2>2, <2>3, <2>6, RefsKept, Zenon
<1>13. ClientInv'
    BY ThreadsApart, Zenon DEF ProcessInv, ClientInv, Objects
<1>14. RunningInv'
    <2>1. Runners' = Runners
        BY Zenon DEF Runners, Running
    <2>. QED
        BY <2>1, Zenon DEF ProcessInv, RunningInv
<1>. QED
    BY <1>6, <1>7, <1>8, <1>9, <1>10, <1>11, <1>12, <1>13, <1>14, CountingKept, SMTT(20),
       Z3T(20) DEF ProcessInv,
       ProcessType

(* A request that is taken out and ended leaves the process consistent.    *)
LEMMA TakenOutKeeps ==
    ASSUME ProcessInv, NEW u \in Threads, TakenOut(u)
    PROVE  ProcessInv'
BY WakesSender, ClosesRequest

(* The elements of a sequence are of its set.                              *)
LEMMA RangeFacts ==
    ASSUME NEW S, NEW s \in Seq(S)
    PROVE  Range(s) \subseteq S
BY DEF Range

(* CleanupRequests ends the current request, then those of the list.       *)
LEMMA CleanupRequestKeeps ==
    ASSUME ManagerInv, ProcessInv, CleanupRequest, Elsewhere
    PROVE  ProcessInv'
<1>1. /\ server.replying = Null /\ session.list \in Seq(Threads) /\ session.current \in Threads \cup {Null}
      /\ server'.replying = server.replying
    BY DEF CleanupRequest, Elsewhere, ManagerInv, ManagerType, SessionRecords, HandInv, InHand, ServerAt
<1>2. /\ IsInjective(session.list) /\ session.current \notin Range(session.list)
      /\ Null \notin Range(session.list)
    BY <1>1, Zenon DEF ProcessInv, RequestInv
<1>3. CASE session.current # Null
    <2>1. /\ EndRequest(session.current)
          /\ session' = [session EXCEPT !.current = Null, !.server = "cleaning"]
          /\ UNCHANGED <<process, running, table, tasks, term, destroying>>
        BY <1>3 DEF CleanupRequest
    <2>2. session'.client = session.client /\ session'.list = session.list /\ session'.current = Null
        BY <2>1 DEF ManagerInv, ManagerType, SessionRecords
    <2>3. PICK u \in Threads : u = session.current
        BY <1>1, <1>3
    <2>4. InSession(u) /\ ~InSession(u)' /\ \A t \in Threads \ {u} : InSession(t)' <=> InSession(t)
        BY <1>1, <1>2, <2>2, <2>3, ThreadsApart, Zenon DEF InSession
    <2>5. TakenOut(u)
        BY <1>1, <1>2, <2>1, <2>2, <2>3, <2>4, Zenon DEF TakenOut
    <2>. QED
        BY <2>5, TakenOutKeeps
<1>4. CASE session.current = Null /\ session.list # <<>>
    <2>1. /\ EndRequest(Head(session.list))
          /\ session' = [session EXCEPT !.list = Tail(session.list), !.server = "cleaning"]
          /\ UNCHANGED <<process, running, table, tasks, term, destroying>>
        BY <1>4 DEF CleanupRequest
    <2>2. /\ session'.client = session.client /\ session'.list = Tail(session.list)
          /\ session'.current = session.current
        BY <2>1 DEF ManagerInv, ManagerType, SessionRecords
    <2>3. /\ Head(session.list) \in Threads
          /\ Range(session.list) = {Head(session.list)} \cup Range(Tail(session.list))
          /\ IsInjective(Tail(session.list)) /\ Head(session.list) \notin Range(Tail(session.list))
        BY <1>1, <1>2, <1>4, TailFacts, Zenon
    <2>4. PICK u \in Threads : u = Head(session.list)
        BY <2>3
    <2>5. InSession(u) /\ ~InSession(u)' /\ \A t \in Threads \ {u} : InSession(t)' <=> InSession(t)
        BY <1>1, <1>4, <2>2, <2>3, <2>4, ThreadsApart, Zenon DEF InSession
    <2>6. TakenOut(u)
        BY <1>1, <1>2, <1>4, <2>1, <2>2, <2>3, <2>4, <2>5, Zenon DEF TakenOut
    <2>. QED
        BY <2>6, TakenOutKeeps
<1>5. CASE session.current = Null /\ session.list = <<>>
    <2>1. /\ session' = [session EXCEPT !.server = "closed"]
          /\ UNCHANGED <<process, thread, running, refs, table, tasks, term, destroying, request>>
        BY <1>5 DEF CleanupRequest
    <2>2. /\ session'.client = session.client /\ session'.list = session.list
          /\ session'.current = session.current
        BY <2>1 DEF ManagerInv, ManagerType, SessionRecords
    <2>. QED
        BY <1>1, <2>1, <2>2, RequestsKept
<1>. QED
    BY <1>3, <1>4, <1>5

(* SendReply ends the request that it has taken.                           *)
LEMMA ReplyEndsKeeps ==
    ASSUME ManagerInv, ProcessInv, ReplyEnds
    PROVE  ProcessInv'
<1>1. /\ server \in ServerRecords /\ session \in SessionRecords
      /\ server.replying \in Threads /\ session.list \in Seq(Threads)
      /\ session.current \in Threads \cup {Null} /\ server.pc = "replied"
    BY DEF ReplyEnds, ManagerInv, ManagerType, SessionRecords, ServerRecords, HandInv, ServerAt
<1>2. server'.replying = Null
    <2>1. LinkToDeferredList(server, "session") \in ServerRecords
        BY <1>1, LinkToDeferredListFacts, Zenon DEF Holders
    <2>. QED
        BY <1>1, <2>1, Zenon DEF ReplyEnds, ServerRecords
<1>3. /\ session'.client = session.client /\ session'.list = session.list
      /\ session'.current = session.current
    BY <1>1 DEF ReplyEnds, SessionRecords
<1>4. /\ IsInjective(session.list) /\ session.current \notin Range(session.list)
      /\ server.replying \notin Range(session.list) /\ Null \notin Range(session.list)
      /\ session.current # Null => session.current # server.replying
    BY <1>1, RangeFacts, ThreadsApart, Zenon DEF ProcessInv, RequestInv
<1>5. PICK u \in Threads : u = server.replying
    BY <1>1
<1>6. InSession(u) /\ ~InSession(u)' /\ \A t \in Threads \ {u} : InSession(t)' <=> InSession(t)
    BY <1>1, <1>2, <1>3, <1>4, <1>5, ThreadsApart, Zenon DEF InSession
<1>7. TakenOut(u)
    BY <1>2, <1>3, <1>4, <1>5, <1>6, Zenon DEF TakenOut, ReplyEnds
<1>. QED
    BY <1>7, TakenOutKeeps

(* The handle table is as it was.                                          *)
LEMMA TableKept ==
    ASSUME TableInv, UNCHANGED <<table, process, term, thread>>
    PROVE  TableInv'
BY Zenon DEF TableInv, Handled

(* KServerSession::OnClientClosed: nobody waits for a reply any more, so   *)
(* that every request of the session is of a thread that terminates, and   *)
(* has lost its sender's reference.                                        *)
LEMMA OnClientClosedKeeps ==
    ASSUME ManagerInv, ProcessInv, OnClientClosed(SessionLocked),
           server' = NotifyAvailable(server, session', "session")
    PROVE  ProcessInv'
<1>1. /\ session.client = "notifying" /\ server.replying = Null /\ server'.replying = Null
      /\ session.list \in Seq(Threads) /\ session.current \in Threads \cup {Null}
      /\ session'.client = "closed" /\ session'.list = <<>> /\ session'.current = session.current
      /\ destroying' = Null /\ UNCHANGED <<process, thread, running, table, tasks, term>>
    <2>1. server \in ServerRecords /\ session \in SessionRecords /\ "session" \in Holders
        BY DEF ManagerInv, ManagerType, Holders
    <2>2. PICK w : server' = [server EXCEPT !.woken = w]
        BY <2>1, NotifyFacts, ZenonT(30)
    <2>3. server.replying = Null /\ server'.replying = server.replying
        BY <2>1, <2>2, Zenon DEF OnClientClosed, SessionLocked, ManagerInv, HandInv, ServerAt,
           ServerRecords
    <2>. QED
        BY <2>1, <2>3, Zenon DEF OnClientClosed, SessionRecords
<1>2. Senders = {} /\ refs[Client] = 0 /\ Client \notin Handled
    BY <1>1, UnusedFacts, Zenon
<1>3. /\ Range(session'.list) = {} /\ IsInjective(session'.list) /\ Range(session.list) \subseteq Threads
      /\ session.current \notin Range(session.list)
      /\ \A t \in Threads : InSession(t)' <=> t = session.current
      /\ \A t \in Threads : InSession(t) <=> t = session.current \/ t \in Range(session.list)
    <2>1. Range(session'.list) = {} /\ IsInjective(session'.list) /\ Range(session.list) \subseteq Threads
        BY <1>1, EmptyFacts, RangeFacts, Zenon
    <2>. QED
        BY <1>1, <2>1, ThreadsApart, Zenon DEF InSession, ProcessInv, RequestInv
<1>4. \A t \in Threads : InSession(t) =>
          thread[t].requested /\ thread[t].pc \in {"end", "exiting", "gone"} /\ request[t].refs = 1
    BY <1>2, ProcessFacts, Zenon DEF RequestInv, RequestOf, Senders, One
<1>5. /\ request' \in [Threads -> [refs : 0..2, bound : BOOLEAN]]
      /\ \A t \in Threads : /\ request'[t].refs = IF t \in Range(session.list) THEN 0 ELSE request[t].refs
                            /\ (request'[t].bound <=> request[t].bound /\ ~InSession(t))
    <2>. DEFINE orphan == /\ session.current # Null /\ request[session.current].bound
                          /\ IsTerminationRequested(session.current)
               gone == Range(session.list) \cup (IF orphan THEN {session.current} ELSE {})
    <2>1. request' = [t \in Threads |->
              IF orphan /\ t = session.current THEN [request[t] EXCEPT !.bound = FALSE]
              ELSE IF t \in gone THEN RequestClosed(request[t]) ELSE request[t]]
        BY Zenon DEF OnClientClosed, Range
    <2>2. ASSUME NEW t \in Threads
          PROVE  /\ request'[t] \in [refs : 0..2, bound : BOOLEAN]
                 /\ request'[t].refs = IF t \in Range(session.list) THEN 0 ELSE request[t].refs
                 /\ (request'[t].bound <=> request[t].bound /\ ~InSession(t))
        <3>1. request[t] \in [refs : 0..2, bound : BOOLEAN]
            BY ProcessFacts, Zenon
        <3>2. CASE t \in Range(session.list)
            <4>1. request'[t] = RequestClosed(request[t]) /\ request[t].refs = 1 /\ InSession(t)
                BY <1>3, <1>4, <2>1, <3>2, Zenon
            <4>2. request'[t] = [refs |-> 0, bound |-> FALSE]
                BY <4>1, Zenon DEF RequestClosed, NoRequest
            <4>. QED
                BY <3>2, <4>1, <4>2, SMTT(20), Z3T(20)
        <3>3. CASE t = session.current
            <4>1. /\ InSession(t) /\ (orphan <=> request[t].bound) /\ t \notin Range(session.list)
                BY <1>3, <1>4, <3>3, ThreadsApart, Zenon DEF IsTerminationRequested
            <4>2. CASE request[t].bound
                <5>1. request'[t] = [request[t] EXCEPT !.bound = FALSE]
                    BY <2>1, <3>3, <4>1, <4>2
                <5>. QED
                    BY <3>1, <4>1, <5>1, Zenon
            <4>3. CASE ~request[t].bound
                <5>1. request'[t] = request[t]
                    BY <2>1, <3>3, <4>1, <4>3
                <5>. QED
                    BY <3>1, <4>1, <4>3, <5>1, Zenon
            <4>. QED
                BY <4>2, <4>3, Zenon
        <3>4. CASE t # session.current /\ t \notin Range(session.list)
            <4>1. ~InSession(t) /\ request'[t] = request[t]
                BY <1>3, <2>1, <3>4
            <4>. QED
                BY <3>1, <3>4, <4>1, Zenon
        <3>. QED
            BY <3>2, <3>3, <3>4, Zenon
    <2>3. request' \in [Threads -> [refs : 0..2, bound : BOOLEAN]]
        <3>1. DOMAIN request' = Threads /\ request' = [t \in Threads |-> request'[t]]
            BY <2>1
        <3>. QED
            BY <2>2, <3>1
    <2>. QED
        BY <2>2, <2>3, Zenon
<1>6. /\ refs' \in [Objects -> Nat] /\ refs'[Client] = refs[Client]
      /\ \A t \in Threads : refs'[t] = refs[t] - One(InSession(t) /\ request[t].bound)
    <2>. DEFINE orphan == /\ session.current # Null /\ request[session.current].bound
                          /\ IsTerminationRequested(session.current)
               gone == Range(session.list) \cup (IF orphan THEN {session.current} ELSE {})
    <2>1. refs' = [o \in Objects |->
              IF o \in gone /\ (o = session.current \/ (request[o].refs = 1 /\ request[o].bound))
              THEN refs[o] - 1 ELSE refs[o]]
        BY Zenon DEF OnClientClosed, Range
    <2>2. Client \in Objects /\ Client \notin gone
        BY <1>1, <1>3, ThreadsApart, Zenon DEF Objects
    <2>3. ASSUME NEW t \in Threads
          PROVE  refs'[t] = refs[t] - One(InSession(t) /\ request[t].bound)
        <3>1. t \in Objects /\ refs[t] \in Nat
            BY CountedFacts, Zenon DEF Objects
        <3>2. CASE t \in Range(session.list)
            <4>1. request[t].refs = 1 /\ InSession(t) /\ t \in gone /\ t # session.current
                BY <1>3, <1>4, <3>2, Zenon
            <4>2. refs'[t] = IF request[t].bound THEN refs[t] - 1 ELSE refs[t]
                BY <2>1, <3>1, <4>1, Zenon
            <4>. QED
                BY <3>1, <4>1, <4>2, SMTT(20), Z3T(20) DEF One
        <3>3. CASE t = session.current
            <4>1. /\ InSession(t) /\ (orphan <=> request[t].bound) /\ t \notin Range(session.list)
                BY <1>3, <1>4, <3>3, ThreadsApart DEF IsTerminationRequested
            <4>2. t \in gone <=> request[t].bound
                BY <3>3, <4>1, Zenon
            <4>. QED
                BY <2>1, <3>1, <3>3, <4>1, <4>2, SMTT(20), Z3T(20) DEF One
        <3>4. CASE t # session.current /\ t \notin Range(session.list)
            <4>1. ~InSession(t) /\ t \notin gone
                BY <1>3, <3>4, Zenon
            <4>. QED
                BY <2>1, <3>1, <4>1, SMTT(20), Z3T(20) DEF One
        <3>. QED
            BY <3>2, <3>3, <3>4, Zenon
    <2>4. \A t \in Threads : refs'[t] \in Nat
        BY <2>3, BoundFacts, CountedFacts, SMTT(20), Z3T(20) DEF One
    <2>5. refs'[Client] = refs[Client] /\ refs[Client] \in Nat
        BY <2>1, <2>2, CountedFacts, Zenon
    <2>6. DOMAIN refs' = Objects /\ refs' = [o \in Objects |-> refs'[o]]
        BY <2>1, Zenon
    <2>7. \A o \in Objects : refs'[o] \in Nat
        BY <2>4, <2>5 DEF Objects
    <2>8. refs' \in [Objects -> Nat]
        BY <2>6, <2>7
    <2>. QED
        BY <2>3, <2>5, <2>8, Zenon
<1>7. ASSUME NEW t \in Threads, refs'[t] > 0
      PROVE  refs[t] > 0
    <2>1. /\ refs[t] \in Nat /\ refs'[t] = refs[t] - One(InSession(t) /\ request[t].bound)
          /\ One(InSession(t) /\ request[t].bound) \in {0, 1}
        BY <1>6, CountedFacts, Zenon DEF One
    <2>. QED
        BY <1>7, <2>1, SMTT(20), Z3T(20)
<1>. USE <1>1, <1>2, <1>3, <1>5, <1>6
<1>8. ThreadInv'
    BY Zenon DEF ProcessInv, ThreadInv, Running
<1>9. TermInv'
    BY <1>7, Zenon DEF ProcessInv, TermInv
<1>10. TableInv'
    <2>1. UNCHANGED <<table, process, term, thread>>
        BY Zenon
    <2>. QED
        BY <2>1, TableKept, Zenon DEF ProcessInv
<1>11. TaskInv'
    BY Zenon DEF ProcessInv, TaskInv
<1>12. RequestInv'
    <2>1. ASSUME NEW t \in Threads
          PROVE  RequestOf(t)'
        <3>1. thread'[t] = thread[t] /\ thread[t].pc \notin {"waiting", "returning"}
            BY Zenon DEF Senders
        <3>2. request[t].refs = One(InSession(t))
            BY <3>1, ProcessFacts, Zenon DEF RequestInv, RequestOf
        <3>3. request'[t].refs = One(InSession(t)')
            <4>1. CASE t \in Range(session.list)
                <5>1. request'[t].refs = 0 /\ ~InSession(t)'
                    BY <4>1, Zenon
                <5>. QED
                    BY <5>1, Zenon DEF One
            <4>2. CASE t \notin Range(session.list)
                <5>1. request'[t].refs = request[t].refs /\ (InSession(t)' <=> InSession(t))
                    BY <4>2, Zenon
                <5>. QED
                    BY <3>2, <5>1, Zenon DEF One
            <4>. QED
                BY <4>1, <4>2, Zenon
        <3>4. ~request'[t].bound
            <4>1. RequestOf(t)
                BY ProcessFacts, Zenon DEF RequestInv
            <4>2. request[t].bound => request[t].refs > 0
                BY <4>1, Zenon DEF RequestOf
            <4>3. ~(0 > 0)
                BY SMTT(20), Z3T(20)
            <4>4. request[t].bound => InSession(t)
                BY <3>2, <4>2, <4>3, Zenon DEF One
            <4>. QED
                BY <4>4, Zenon
        <3>5. InSession(t)' => thread[t].requested /\ thread[t].pc \in {"end", "exiting", "gone"}
            BY <1>4, Zenon
        <3>. QED
            BY <3>1, <3>3, <3>4, <3>5, Zenon DEF RequestOf
    <2>. QED
        BY <2>1, Zenon DEF RequestInv
<1>13. RefsInv'
    <2>1. (\A t \in Threads : Users(t)' = Users(t)) /\ Senders' = Senders /\ Handled' = Handled
        BY ZenonT(20) DEF Users, Senders, Handled
    <2>2. ASSUME NEW t \in Threads
          PROVE  refs'[t] = Held(t)'
        <3>1. refs[t] = Held(t) /\ refs[t] \in Nat /\ Cardinality(Users(t)) \in Nat
            BY ProcessFacts, CountedFacts, Zenon DEF RefsInv
        <3>2. One(request'[t].bound) = One(request[t].bound) - One(InSession(t) /\ request[t].bound)
            BY SMTT(20), Z3T(20) DEF One
        <3>3. Runs(t)' <=> Runs(t)
            BY Zenon DEF Runs
        <3>4. /\ Held(t)' = Cardinality(Users(t)) + One(t \in Handled) + One(Runs(t))
                            + One(term.child = t) + One(request'[t].bound)
              /\ Held(t) = Cardinality(Users(t)) + One(t \in Handled) + One(Runs(t))
                           + One(term.child = t) + One(request[t].bound)
            BY <2>1, <3>3, Zenon DEF Held, One
        <3>5. refs'[t] = refs[t] - One(InSession(t) /\ request[t].bound)
            BY Zenon
        <3>6. /\ One(t \in Handled) \in Nat /\ One(Runs(t)) \in Nat /\ One(term.child = t) \in Nat
              /\ One(request[t].bound) \in Nat /\ One(InSession(t) /\ request[t].bound) \in Nat
            BY Zenon DEF One
        <3>. QED
            <4>. HIDE <1>1, <1>2, <1>3, <1>5, <1>6
            <4>. QED
                BY <3>1, <3>2, <3>4, <3>5, <3>6, SMTT(20), Z3T(20)
    <2>3. refs'[Client] = ClientHeld'
        BY <2>1, ClientKept, Zenon
    <2>. QED
        BY <2>2, <2>3, Zenon DEF RefsInv
<1>14. ClientInv'
    BY Zenon DEF ProcessInv, ClientInv
<1>15. RunningInv'
    <2>1. Runners' = Runners
        BY Zenon DEF Runners, Running
    <2>. QED
        BY <2>1, Zenon DEF ProcessInv, RunningInv
<1>. QED
    BY <1>4, <1>7, <1>8, <1>9, <1>10, <1>11, <1>12, <1>13, <1>14, <1>15, CountingKept, ZenonT(20) DEF
       ProcessInv, ProcessType

-----------------------------------------------------------------------------
(* All steps.                                                              *)

(* The process is consistent at first.                                     *)
LEMMA InitProcessInv ==
    ASSUME Init, Counting
    PROVE  ProcessInv
<1>1. /\ process = "Created" /\ running = 0 /\ tasks = <<>> /\ destroying = Null
      /\ thread = [t \in Threads |-> NewThread] /\ refs = [o \in Objects |-> 0]
      /\ table = [open |-> FALSE, entries |-> {}, closing |-> {}]
      /\ term = [by |-> Null, pc |-> "none", child |-> Null]
      /\ request = [t \in Threads |-> NoRequest]
      /\ session.list = <<>> /\ session.current = Null /\ session.client = "none" /\ server.replying = Null
    BY Zenon DEF Init, ProcessInit, SessionInit
<1>2. NewThread \in ThreadRecords
    BY Zenon DEF NewThread, ThreadRecords, Running
<1>3. \A t \in Threads : /\ thread[t] = NewThread /\ thread[t].state = "None" /\ thread[t].pc = "none"
                         /\ ~thread[t].requested /\ ~thread[t].signaled
    BY <1>1, Zenon DEF NewThread
<1>4. /\ \A t \in Threads : refs[t] = 0 /\ request[t].refs = 0 /\ ~request[t].bound
      /\ refs[Client] = 0
    BY <1>1, Zenon DEF Objects, NoRequest
<1>5. ProcessType
    BY <1>1, <1>2, SMTT(20), Z3T(20) DEF ProcessType, NoRequest
<1>6. ThreadInv
    BY <1>3, Zenon DEF ThreadInv, Running
<1>7. TermInv
    BY <1>1, <1>3, ThreadsApart, Zenon DEF TermInv
<1>8. TableInv
    BY <1>1, <1>3, Zenon DEF TableInv, Handled
<1>9. TaskInv
    BY <1>1, EmptyFacts, Zenon DEF TaskInv
<1>10. RequestInv
    <2>1. \A t \in Threads : ~InSession(t)
        BY <1>1, EmptyFacts, ThreadsApart, Zenon DEF InSession
    <2>. QED
        BY <1>1, <1>3, <1>4, <2>1, EmptyFacts, Zenon DEF RequestInv, RequestOf, One
<1>11. (\A t \in Threads : Users(t) = {}) /\ Senders = {} /\ Runners = {} /\ Cardinality({}) = 0
    BY <1>3, Zenon DEF Users, Senders, Runners, Running, Counting
<1>12. RefsInv
    <2>1. ASSUME NEW t \in Threads
          PROVE  refs[t] = Held(t)
        <3>1. t \notin Handled /\ ~Runs(t) /\ term.child # t /\ ~request[t].bound
            BY <1>1, <1>3, <1>4, ThreadsApart, Zenon DEF Handled, Runs
        <3>2. /\ One(t \in Handled) = 0 /\ One(Runs(t)) = 0 /\ One(term.child = t) = 0
              /\ One(request[t].bound) = 0 /\ Cardinality(Users(t)) = 0
            BY <1>11, <3>1, Zenon DEF One
        <3>3. Held(t) = 0
            BY <3>2, SMTT(20), Z3T(20) DEF Held
        <3>. QED
            BY <1>4, <3>3, Zenon
    <2>2. refs[Client] = ClientHeld
        BY <1>1, <1>4, <1>11, SMTT(20), Z3T(20) DEF ClientHeld, Handled, One
    <2>. QED
        BY <2>1, <2>2, Zenon DEF RefsInv
<1>13. ClientInv
    BY <1>1, <1>4, Zenon DEF ClientInv
<1>14. RunningInv
    BY <1>1, <1>11, Zenon DEF RunningInv
<1>. QED
    BY <1>5, <1>6, <1>7, <1>8, <1>9, <1>10, <1>12, <1>13, <1>14, Zenon DEF ProcessInv

(* The threads.                                                            *)
LEMMA CallProcessInv ==
    ASSUME ManagerInv, ProcessInv, NEW t \in Threads, Call(t) \/ KernelStep(t) \/ ExitThread(t)
    PROVE  ProcessInv'
<1>1. ASSUME NEW s, NEW h \in Holders, server' = NotifyAvailable(server, s, h)
      PROVE  server'.replying = server.replying
    <2>1. server \in ServerRecords
        BY DEF ManagerInv, ManagerType
    <2>2. PICK w : server' = [server EXCEPT !.woken = w]
        BY <1>1, <2>1, NotifyFacts, Zenon
    <2>. QED
        BY <2>1, <2>2 DEF ServerRecords
<1>2. CASE /\ \/ \E u \in Threads : CreateThread(t, u) \/ StartThread(t, u)
              \/ \E o \in Objects : CloseHandle(t, o)
           /\ UNCHANGED sessionVars /\ Elsewhere
    BY <1>2, CreateThreadPreserves, StartThreadPreserves, CloseHandlePreserves,
       Zenon DEF sessionVars, Elsewhere
<1>3. CASE (Interrupted(t) \/ AddThread(t) \/ RunThread(t)) /\ UNCHANGED sessionVars /\ Elsewhere
    BY <1>3, InterruptedPreserves, AddThreadPreserves, RunThreadPreserves, RunThreadFails, Zenon
       DEF sessionVars, Elsewhere
<1>4. CASE (ExitFinish(t) \/ Exit(t)) /\ UNCHANGED sessionVars /\ Elsewhere
    BY <1>4, ExitFinishPreserves, ExitPreserves, Zenon DEF sessionVars, Elsewhere
<1>5. CASE (SendSyncRequest(t) \/ Return(t)) /\ Elsewhere
    BY <1>5, SendSyncRequestPreserves, ReturnPreserves, Zenon DEF Elsewhere
<1>6. CASE ConnectToPort(t)
    <2>1. server'.replying = server.replying /\ Connect(t)
        BY <1>1, <1>6, Zenon DEF ConnectToPort, Holders
    <2>. QED
        BY <2>1, ConnectPreserves, Zenon
<1>7. CASE Request(t)
    <2>1. server'.replying = server.replying /\ OnRequest(t)
        BY <1>1, <1>7, Zenon DEF Request, Holders
    <2>. QED
        BY <2>1, RequestRefused, RequestMade, Zenon
<1>. QED
    BY <1>2, <1>3, <1>4, <1>5, <1>6, <1>7, Zenon DEF Call, KernelStep, ExitThread

(* The manager's thread.                                                   *)
LEMMA ServerStepProcessInv ==
    ASSUME ManagerInv, ProcessInv, ServerStep
    PROVE  ProcessInv'
<1>1. server \in ServerRecords /\ session \in SessionRecords
    BY Zenon DEF ManagerInv, ManagerType
<1>2. CASE LinkDeferred \/ WaitAny \/ Woken \/ ClearWakeup
    <2>1. UNCHANGED <<process, thread, running, refs, table, tasks, term, destroying, request, session>>
        BY <1>2, Zenon DEF LinkDeferred, WaitAny, Woken, ClearWakeup, processVars, sessionVars
    <2>2. server'.replying = server.replying
        BY <1>1, <1>2, ZenonT(20) DEF LinkDeferred, WaitAny, Woken, ClearWakeup, Selected, ServerTo,
           ServerRecords
    <2>. QED
        BY <2>1, <2>2, RequestsKept, Zenon
<1>3. CASE (\E closing \in BOOLEAN : HandlerReturns(closing)) \/ HandlerDefers \/ KeepDeferred \/ HandlerTerminated \/ Destroyed
    <2>1. UNCHANGED <<process, thread, running, refs, table, tasks, term, destroying, request, session>>
        BY <1>3, Zenon DEF HandlerReturns, HandlerDefers, KeepDeferred, HandlerTerminated,
           Destroyed, processVars,
                    sessionVars
    <2>2. server'.replying = server.replying
        BY <1>1, <1>3, Zenon DEF HandlerReturns, HandlerDefers, KeepDeferred, HandlerTerminated,
           Destroyed, ServerTo,
                          ServerRecords
    <2>. QED
        BY <2>1, <2>2, RequestsKept
<1>4. CASE OnDeferralEvent
    <2>1. UNCHANGED <<process, thread, running, refs, table, tasks, term, destroying, request, session>>
        BY <1>4 DEF OnDeferralEvent, processVars, sessionVars
    <2>2. PICK sv \in ServerRecords :
              sv = [server EXCEPT !.deferral = FALSE] /\ sv.pc = "deferral" /\ sv.replying = server.replying
        <3>1. server.pc = "deferral"
            BY <1>4 DEF OnDeferralEvent, ServerAt
        <3>2. [server EXCEPT !.deferral = FALSE] \in ServerRecords
            BY <1>1, Zenon DEF ServerRecords
        <3>3. /\ [server EXCEPT !.deferral = FALSE].pc = "deferral"
              /\ [server EXCEPT !.deferral = FALSE].replying = server.replying
            BY <1>1, <3>1 DEF ServerRecords
        <3>. QED
            BY <3>2, <3>3, Zenon
    <2>3. LinkToDeferredList(sv, "deferral") =
              [sv EXCEPT !.deferredList = Append(sv.deferredList, "deferral"), !.wakeup = TRUE]
        BY <2>2, LinkToDeferredListFacts, Zenon DEF Holders
    <2>4. server'.replying = LinkToDeferredList(sv, "deferral").replying
        BY <2>2, <2>3, <1>4 DEF OnDeferralEvent, ServerRecords
    <2>5. server'.replying = server.replying
        BY <2>2, <2>3, <2>4, Zenon DEF ServerRecords
    <2>. QED
        BY <2>1, <2>5, RequestsKept
<1>5. CASE OnPortEvent
    <2>1. /\ UNCHANGED <<process, thread, running, refs, table, tasks, term, destroying, request>>
          /\ session'.client = session.client /\ session'.list = session.list
          /\ session'.current = session.current
        BY <1>1, <1>5 DEF OnPortEvent, processVars, SessionRecords
    <2>2. PICK sv \in ServerRecords :
              sv = LinkToDeferredList(server, "session") /\ sv.pc = "port" /\ sv.replying = server.replying
        <3>1. /\ LinkToDeferredList(server, "session") \in ServerRecords
              /\ LinkToDeferredList(server, "session") =
                     [server EXCEPT !.deferredList = Append(server.deferredList, "session"), !.wakeup = TRUE]
            BY <1>1, <1>5, LinkToDeferredListFacts, Zenon DEF Holders, OnPortEvent, ServerAt
        <3>. QED
            BY <1>1, <1>5, <3>1, Zenon DEF OnPortEvent, ServerAt, ServerRecords
    <2>3. LinkToDeferredList(sv, "port") =
              [sv EXCEPT !.deferredList = Append(sv.deferredList, "port"), !.wakeup = TRUE]
        BY <2>2, LinkToDeferredListFacts, Zenon DEF Holders
    <2>4. server'.replying = LinkToDeferredList(sv, "port").replying
        BY <2>2, <2>3, <1>5 DEF OnPortEvent, ServerRecords
    <2>5. server'.replying = server.replying
        BY <2>2, <2>3, <2>4, Zenon DEF ServerRecords
    <2>. QED
        BY <2>1, <2>5, RequestsKept, Zenon
<1>6. CASE HandlerTerminates
    <2>1. /\ server'.replying = server.replying /\ UNCHANGED <<request, session>>
          /\ BeginTerminate(Server)
        BY <1>1, <1>6 DEF HandlerTerminates, ServerTo, ServerRecords, sessionVars
    <2>. QED
        BY <2>1, BeginTerminateKeeps
<1>. QED
    BY <1>2, <1>3, <1>4, <1>5, <1>6, OnSessionEventKeeps, SendReplyKeeps, ReplyEndsKeeps,
       Zenon DEF ServerStep

(* RegisterService, and the host.                                          *)
LEMMA HostStepProcessInv ==
    ASSUME ManagerInv, ProcessInv, RegisterService \/ HostStep
    PROVE  ProcessInv'
<1>1. server \in ServerRecords /\ session \in SessionRecords
    BY DEF ManagerInv, ManagerType
<1>2. CASE \E from, pc, suspended : SuspendEmulation(from, pc, suspended)
    BY <1>2, SuspendEmulationKeeps
<1>3. CASE RegisterService \/ WakeUpServer
    <2>1. UNCHANGED <<process, thread, running, refs, table, tasks, term, destroying, request, session>>
        BY <1>3, Zenon DEF RegisterService, WakeUpServer, processVars, sessionVars
    <2>2. CASE RegisterService
        <3>1. PICK w : server' = [server EXCEPT !.deferral = TRUE, !.woken = w]
            BY <1>1, <2>2, SignalDeferralFacts, Zenon DEF RegisterService
        <3>. QED
            BY <1>1, <2>1, <3>1, RequestsKept DEF ServerRecords
    <2>3. CASE WakeUpServer
        <3>1. PICK w : server' = [server EXCEPT !.wakeup = TRUE, !.woken = w]
            BY <1>1, <2>3, SignalWakeupFacts, Zenon DEF WakeUpServer
        <3>. QED
            BY <1>1, <2>1, <3>1, RequestsKept, Zenon DEF ServerRecords
    <2>. QED
        BY <1>3, <2>2, <2>3
<1>4. CASE CleanUpSessions
    <2>1. /\ UNCHANGED <<process, thread, running, refs, table, tasks, term, destroying, request, server>>
          /\ session'.client = session.client /\ session'.list = session.list
          /\ session'.current = session.current
        BY <1>1, <1>4 DEF CleanUpSessions, processVars, SessionRecords
    <2>. QED
        BY <2>1, RequestsKept, Zenon
<1>5. CASE TerminateAllProcesses
    BY <1>5, BeginTerminateKeeps DEF TerminateAllProcesses, sessionVars
<1>6. CASE HostDown
    BY <1>6, RequestsKept, Zenon DEF HostDown, processVars, sessionVars
<1>. QED
    BY <1>2, <1>3, <1>4, <1>5, <1>6, Zenon DEF HostStep, HostGoesOn

(* Every step of KProcess::Terminate keeps the process consistent.         *)
LEMMA TerminateProcessInv ==
    ASSUME ProcessInv, Terminate, UNCHANGED <<request, session, server>>
    PROVE  ProcessInv'
BY TerminateRequestKeeps, TerminatePickEmpty, TerminatePickChild, TerminateChildWaits,
   TerminateChildEnds,
   TerminateWaitKeeps, TerminateTableKeeps, TerminateEntryKeeps, TerminateFinishKeeps, Zenon
   DEF Terminate

(* Every step keeps the process consistent, given the manager's invariant. *)
LEMMA NextProcessInv ==
    ASSUME ManagerInv, ProcessInv, [Next]_vars
    PROVE  ProcessInv'
<1>1. CASE (Run \/ Terminate \/ FinishTermination) /\ UNCHANGED sessionVars /\ Elsewhere
    BY <1>1, RunKeeps, TerminateProcessInv, FinishTerminationPreserves DEF sessionVars, Elsewhere
<1>2. CASE \E t \in Threads : Call(t) \/ KernelStep(t) \/ ExitThread(t)
    BY <1>2, CallProcessInv
<1>3. CASE DestroyClient
    BY <1>3, ClientClosingKeeps, OnClientClosedKeeps, Zenon DEF DestroyClient
<1>4. CASE DestroyServer
    BY <1>4, ServerClosingKeeps, CleanupRequestKeeps DEF DestroyServer
<1>5. CASE ServerStep \/ RegisterService \/ HostStep
    BY <1>5, ServerStepProcessInv, HostStepProcessInv, Zenon
<1>6. CASE UNCHANGED vars
    BY <1>6, RequestsKept DEF vars, processVars, sessionVars
<1>. QED
    BY <1>1, <1>2, <1>3, <1>4, <1>5, <1>6, Zenon DEF Next, WorkerStep, TerminateStep

-----------------------------------------------------------------------------
(* WaitSignaled.                                                           *)

(* ServerManager::LinkDeferred: the deferred list moves to the end of the  *)
(* other one.                                                              *)
LEMMA LinkDeferredPreserves ==
    ASSUME ManagerInv, LinkDeferred
    PROVE  ManagerInv'
<1>1. PICK pc \in {"stopped", "select"} :
          /\ server' = [server EXCEPT !.multiWait = server.multiWait \o server.deferredList,
                                      !.deferredList = <<>>, !.pc = pc]
          /\ server.pc = "link" /\ UNCHANGED <<session, registered>>
    BY Zenon DEF LinkDeferred, ServerAt, sessionVars
<1>2. server.multiWait \in Seq(Holders) /\ server.deferredList \in Seq(Holders)
    BY DEF ManagerInv, ManagerType, ServerRecords
<1>3. PICK l \in Seq(Holders) :
          /\ l = server.multiWait \o server.deferredList /\ IsInjective(l)
          /\ Range(l) = Range(server.multiWait) \cup Range(server.deferredList)
    <2>1. /\ IsInjective(server.multiWait) /\ IsInjective(server.deferredList)
          /\ Range(server.multiWait) \cap Range(server.deferredList) = {}
        BY Zenon DEF ManagerInv, ListInv
    <2>2. /\ server.multiWait \o server.deferredList \in Seq(Holders)
          /\ IsInjective(server.multiWait \o server.deferredList)
          /\ Range(server.multiWait \o server.deferredList) =
                Range(server.multiWait) \cup Range(server.deferredList)
        BY <1>2, <2>1, ConcatFacts, SMTT(20), Z3T(20)
    <2>. QED
        BY <2>2, Zenon
<1>4. server' = [server EXCEPT !.multiWait = l, !.deferredList = <<>>, !.pc = pc] /\ <<>> \in Seq(Holders)
    BY <1>1, <1>3
<1>5. server' \in ServerRecords
    BY <1>4, Zenon DEF ManagerInv, ManagerType, ServerRecords
<1>6. /\ server'.multiWait = l /\ server'.deferredList = <<>> /\ server'.pc = pc
      /\ server'.deferred = server.deferred
    BY <1>4 DEF ManagerInv, ManagerType, ServerRecords
<1>7. ListInv'
    <2>2. \A h \in Holders : ToBeLinked(h) <=> h \in Range(l)
        BY <1>1, <1>3 DEF ManagerInv, ListInv, ServerAt
    <2>3. \A h \in Holders : ToBeLinked(h)' <=> ToBeLinked(h)
        BY <1>1, <1>6 DEF ToBeLinked, ServerAt, InHand
    <2>. QED
        BY <1>3, <1>6, <2>2, <2>3, EmptyFacts, Zenon DEF ListInv, ServerAt
<1>8. WaitInv'
    BY <1>1, <1>4 DEF ManagerInv, ManagerType, ServerRecords, WaitInv, ServerAt
<1>9. EndsInv'
    BY <1>1 DEF ManagerInv, EndsInv, IsClosed
<1>10. HandInv'
    BY <1>1, <1>4 DEF ManagerInv, ManagerType, ServerRecords, HandInv, InHand, ServerAt, IsClosed
<1>. QED
    BY <1>1, <1>5, <1>7, <1>8, <1>9, <1>10, Zenon DEF ManagerInv, ManagerType

(* The manager takes a signaled holder out of its list: it has it in its   *)
(* hands then.                                                             *)
LEMMA SelectedPreserves ==
    ASSUME ManagerInv, NEW i \in DOMAIN server.multiWait, Selected(i),
           IsSignaled(server, session, server.multiWait[i]), server.pc \in {"select", "waiting"},
           UNCHANGED <<session, registered>>
    PROVE  ManagerInv'
<1>. DEFINE h == server.multiWait[i]
<1>1. server.multiWait \in Seq(Holders) /\ h \in Holders /\ h \in Range(server.multiWait)
    BY SMTT(20), Z3T(20) DEF ManagerInv, ManagerType, ServerRecords, Range
<1>2. ToBeLinked(h)
    BY <1>1, Zenon DEF ManagerInv, ListInv, ServerAt
<1>3. EndsInv'
    BY Zenon DEF ManagerInv, EndsInv, IsClosed
<1>4. CASE h = "wakeup"
    <2>1. server' = [server EXCEPT !.pc = "clear", !.woken = NoHolder]
        BY <1>4 DEF Selected
    <2>2. server' \in ServerRecords
        BY <2>1, Zenon DEF ManagerInv, ManagerType, ServerRecords
    <2>3. ListInv'
        BY <2>1 DEF ManagerInv, ManagerType, ServerRecords, ListInv, ServerAt, ToBeLinked, InHand
    <2>4. WaitInv'
        BY <2>1 DEF ManagerInv, ManagerType, ServerRecords, WaitInv, ServerAt
    <2>5. HandInv'
        BY <2>1 DEF ManagerInv, ManagerType, ServerRecords, HandInv, InHand, ServerAt, IsClosed
    <2>. QED
        BY <1>3, <2>2, <2>3, <2>4, <2>5, Zenon DEF ManagerInv, ManagerType
<1>5. CASE h # "wakeup"
    <2>1. PICK l \in Seq(Holders) :
              /\ l = Unlinked(server.multiWait, i) /\ IsInjective(l)
              /\ Range(l) = Range(server.multiWait) \ {h}
        BY <1>1, UnlinkedFacts, Zenon DEF ManagerInv, ListInv
    <2>2. server' = [server EXCEPT !.pc = h, !.woken = NoHolder, !.multiWait = l]
        BY <1>5, <2>1, Zenon DEF Selected
    <2>3. h \in {"port", "deferral", "session"}
        BY <1>1, <1>5, Zenon DEF Holders
    <2>4. server' \in ServerRecords
        BY <2>2, <2>3, Zenon DEF ManagerInv, ManagerType, ServerRecords
    <2>5. /\ server'.pc = h /\ server'.woken = NoHolder /\ server'.multiWait = l
          /\ server'.deferredList = server.deferredList /\ server'.deferred = server.deferred
          /\ server'.deferral = server.deferral /\ server'.replying = server.replying
        BY <2>2 DEF ManagerInv, ManagerType, ServerRecords
    <2>6. ListInv'
        <3>2. h \notin Range(server.deferredList)
            BY <1>1, Zenon DEF ManagerInv, ListInv
        <3>3. \A x \in Holders : ToBeLinked(x)' <=> ToBeLinked(x) /\ x # h
            BY <1>2, <2>3, <2>5, Zenon DEF ToBeLinked, ServerAt, InHand, Holders
        <3>4. \A x \in Holders : ToBeLinked(x)' <=> x \in Range(l) \cup Range(server.deferredList)
            BY <2>1, <3>2, <3>3, Zenon DEF ManagerInv, ListInv, ServerAt
        <3>. QED
            BY <2>1, <2>5, <3>4, Zenon DEF ManagerInv, ListInv
    <2>7. WaitInv'
        BY <2>3, <2>5, Zenon DEF ManagerInv, WaitInv, ServerAt
    <2>8. HandInv'
        BY <1>2, <2>3, <2>5, Zenon DEF ManagerInv, HandInv, InHand, ServerAt, IsClosed, IsSignaled,
           SessionSignaled,
                                ToBeLinked
    <2>. QED
        BY <1>3, <2>4, <2>6, <2>7, <2>8, Zenon DEF ManagerInv, ManagerType
<1>. QED
    BY <1>4, <1>5, Zenon

(* MultiWait::WaitAny: the first signaled holder, or to wait if there is   *)
(* none.                                                                   *)
LEMMA WaitAnyPreserves ==
    ASSUME ManagerInv, WaitAny
    PROVE  ManagerInv'
<1>1. server.pc = "select" /\ UNCHANGED <<session, registered>>
    BY Zenon DEF WaitAny, ServerAt, sessionVars
<1>2. ASSUME NEW i \in DOMAIN server.multiWait, IsSignaled(server, session, server.multiWait[i]), Selected(i)
      PROVE  ManagerInv'
    BY <1>1, <1>2, SelectedPreserves
<1>3. ASSUME \A i \in DOMAIN server.multiWait : ~IsSignaled(server, session, server.multiWait[i]),
             server' = [server EXCEPT !.pc = "waiting"]
      PROVE  ManagerInv'
    <2>1. server' \in ServerRecords
        BY <1>3, Zenon DEF ManagerInv, ManagerType, ServerRecords
    <2>2. ListInv'
        BY <1>1, <1>3 DEF ManagerInv, ManagerType, ServerRecords, ListInv, ServerAt, ToBeLinked, InHand
    <2>3. WaitInv'
        BY <1>1, <1>3, SMTT(20), Z3T(20) DEF ManagerInv, ManagerType, ServerRecords, WaitInv,
           ServerAt, IsSignaled,
                          SessionSignaled, IsClosed, Range
    <2>4. EndsInv'
        BY <1>1, Zenon DEF ManagerInv, EndsInv, IsClosed
    <2>5. HandInv'
        BY <1>1, <1>3, Zenon DEF ManagerInv, ManagerType, ServerRecords, HandInv, InHand, ServerAt,
           IsClosed
    <2>. QED
        BY <1>1, <2>1, <2>2, <2>3, <2>4, <2>5 DEF ManagerInv, ManagerType
<1>. QED
    BY <1>2, <1>3, Zenon DEF WaitAny, ServerTo

(* The manager that was woken finds the holder that woke it still linked   *)
(* and signaled.                                                           *)
LEMMA WokenPreserves ==
    ASSUME ManagerInv, Woken
    PROVE  ManagerInv'
<1>1. server.pc = "waiting" /\ UNCHANGED <<session, registered>>
    BY Zenon DEF Woken, ServerAt, sessionVars
<1>2. PICK i \in DOMAIN server.multiWait : server.multiWait[i] = server.woken /\ Selected(i)
    BY Zenon DEF Woken
<1>3. server.woken # NoHolder
    BY <1>2, SMTT(20), Z3T(20) DEF ManagerInv, ManagerType, ServerRecords, Holders, NoHolder
<1>. QED
    BY <1>1, <1>2, <1>3, SelectedPreserves, Zenon DEF ManagerInv, WaitInv

-----------------------------------------------------------------------------
(* The other steps that link something.                                    *)

(* A holder that is put in the deferred list by the manager's thread.      *)
LEMMA AppendedListInv ==
    ASSUME ManagerInv, NEW h \in Holders,
           h \notin Range(server.multiWait) \cup Range(server.deferredList),
           server' \in ServerRecords,
           server'.multiWait = server.multiWait, server'.deferredList = Append(server.deferredList, h),
           ~ServerAt("stopped"), \A x \in Holders : ToBeLinked(x)' <=> ToBeLinked(x) \/ x = h
    PROVE  ListInv'
<1>1. server.deferredList \in Seq(Holders)
    BY Zenon DEF ManagerInv, ManagerType, ServerRecords
<1>2. /\ Range(server'.deferredList) = Range(server.deferredList) \cup {h}
      /\ IsInjective(server'.deferredList)
    BY <1>1, AppendFacts, SMTT(20), Z3T(20) DEF ManagerInv, ListInv
<1>. QED
    BY <1>2, Zenon DEF ManagerInv, ListInv

(* ServerManager::OnDeferralEvent clears the event before it looks at the  *)
(* deferred session.                                                       *)
LEMMA OnDeferralEventPreserves ==
    ASSUME ManagerInv, OnDeferralEvent
    PROVE  ManagerInv'
<1>1. server.pc = "deferral" /\ UNCHANGED <<session, registered>> /\ server \in ServerRecords
    BY Zenon DEF OnDeferralEvent, ServerAt, sessionVars, ManagerInv, ManagerType
<1>2. PICK cleared \in ServerRecords : cleared = [server EXCEPT !.deferral = FALSE]
    BY <1>1, Zenon DEF ServerRecords
<1>3. cleared.pc # "waiting" /\ "deferral" \in Holders /\ cleared.deferredList = server.deferredList
    BY <1>1, <1>2 DEF ServerRecords, Holders
<1>4. PICK linked \in ServerRecords :
          /\ linked = LinkToDeferredList(cleared, "deferral")
          /\ linked = [cleared EXCEPT !.deferredList = Append(server.deferredList, "deferral"), !.wakeup = TRUE]
    <2>1. /\ LinkToDeferredList(cleared, "deferral") \in ServerRecords
          /\ LinkToDeferredList(cleared, "deferral") =
                [cleared EXCEPT !.deferredList = Append(cleared.deferredList, "deferral"), !.wakeup = TRUE]
        BY <1>3, LinkToDeferredListFacts, Zenon
    <2>. QED
        BY <1>3, <2>1
<1>5. PICK pc \in {"handle", "link"} :
          /\ server' = [linked EXCEPT !.pc = pc, !.retry = server.deferred, !.deferred = FALSE]
          /\ pc = "handle" <=> server.deferred
    BY <1>2, <1>4, Zenon DEF OnDeferralEvent
<1>6. server.deferred \in BOOLEAN
    BY <1>1, Zenon DEF ServerRecords
<1>7. server' \in ServerRecords
    BY <1>5, <1>6, ZenonT(20) DEF ServerRecords
<1>8. /\ server'.pc = pc /\ server'.multiWait = server.multiWait /\ server'.woken = server.woken
      /\ server'.deferredList = Append(server.deferredList, "deferral") /\ ~server'.deferred
      /\ server'.replying = server.replying
    BY <1>1, <1>2, <1>4, <1>5, ZenonT(30) DEF ServerRecords
<1>9. ListInv'
    <2>1. \A x \in Holders : ToBeLinked(x)' <=> ToBeLinked(x) \/ x = "deferral"
        BY <1>1, <1>5, <1>8, Zenon DEF ToBeLinked, ServerAt, InHand, Holders
    <2>2. ~ToBeLinked("deferral") /\ ~ServerAt("stopped")
        BY <1>1, Zenon DEF ToBeLinked, ServerAt
    <2>3. "deferral" \notin Range(server.multiWait) \cup Range(server.deferredList)
        BY <1>3, <2>2, Zenon DEF ManagerInv, ListInv
    <2>. QED
        BY <1>3, <1>7, <1>8, <2>1, <2>2, <2>3, AppendedListInv, Zenon
<1>10. WaitInv'
    BY <1>1, <1>8, Zenon DEF ManagerInv, WaitInv, ServerAt
<1>11. EndsInv'
    BY <1>1, Zenon DEF ManagerInv, EndsInv, IsClosed
<1>12. HandInv'
    BY <1>1, <1>5, <1>8 DEF ManagerInv, HandInv, InHand, ServerAt, IsClosed
<1>. QED
    BY <1>1, <1>7, <1>9, <1>10, <1>11, <1>12, Zenon DEF ManagerInv, ManagerType

(* ServerManager::OnPortEvent accepts the pending session and links it and *)
(* the port.                                                               *)
LEMMA OnPortEventPreserves ==
    ASSUME ManagerInv, OnPortEvent
    PROVE  ManagerInv'
<1>1. /\ server.pc = "port" /\ server \in ServerRecords /\ session \in SessionRecords
      /\ session' = [session EXCEPT !.pending = FALSE] /\ UNCHANGED registered
    BY DEF OnPortEvent, ServerAt, ManagerInv, ManagerType
<1>2. "session" \in Holders /\ "port" \in Holders
    BY DEF Holders
<1>3. PICK l \in ServerRecords :
          /\ l = LinkToDeferredList(server, "session")
          /\ l = [server EXCEPT !.deferredList = Append(server.deferredList, "session"), !.wakeup = TRUE]
    <2>1. /\ LinkToDeferredList(server, "session") \in ServerRecords
          /\ LinkToDeferredList(server, "session") =
                [server EXCEPT !.deferredList = Append(server.deferredList, "session"), !.wakeup = TRUE]
        BY <1>1, <1>2, LinkToDeferredListFacts, Zenon
    <2>. QED
        BY <2>1, Zenon
<1>4. l.pc # "waiting" /\ l.deferredList = Append(server.deferredList, "session")
    BY <1>1, <1>3, Zenon DEF ServerRecords
<1>5. PICK m \in ServerRecords :
          /\ m = LinkToDeferredList(l, "port")
          /\ m = [l EXCEPT !.deferredList = Append(l.deferredList, "port"), !.wakeup = TRUE]
    <2>1. /\ LinkToDeferredList(l, "port") \in ServerRecords
          /\ LinkToDeferredList(l, "port") =
                [l EXCEPT !.deferredList = Append(l.deferredList, "port"), !.wakeup = TRUE]
        BY <1>2, <1>4, LinkToDeferredListFacts, Zenon
    <2>. QED
        BY <2>1
<1>6. server' = [m EXCEPT !.pc = "link"]
    BY <1>3, <1>5 DEF OnPortEvent
<1>7. server' \in ServerRecords
    BY <1>6, Zenon DEF ServerRecords
<1>8. session' \in SessionRecords
    BY <1>1, Zenon DEF SessionRecords
<1>9. /\ server'.pc = "link" /\ server'.multiWait = server.multiWait /\ server'.woken = server.woken
      /\ server'.deferredList = Append(Append(server.deferredList, "session"), "port")
      /\ server'.deferred = server.deferred /\ server'.deferral = server.deferral
      /\ server'.replying = server.replying
    BY <1>1, <1>3, <1>4, <1>5, <1>6, SMTT(20), Z3T(20) DEF ServerRecords
<1>10. /\ session'.server = session.server /\ ~session'.pending
       /\ session.server = "open" /\ session.pending /\ ~server.deferred
    BY <1>1, Zenon DEF SessionRecords, ManagerInv, HandInv, ServerAt
<1>11. ListInv'
    <2>1. server.deferredList \in Seq(Holders)
        BY <1>1 DEF ServerRecords
    <2>2. ~ToBeLinked("port") /\ ~ToBeLinked("session") /\ ~ServerAt("stopped")
        BY <1>1, <1>10 DEF ToBeLinked, ServerAt
    <2>3. {"port", "session"} \cap (Range(server.multiWait) \cup Range(server.deferredList)) = {}
        BY <1>2, <2>2, Zenon DEF ManagerInv, ListInv
    <2>4. PICK e \in Seq(Holders) :
              /\ e = Append(server.deferredList, "session") /\ IsInjective(e)
              /\ Range(e) = Range(server.deferredList) \cup {"session"}
        BY <1>2, <2>1, <2>3, AppendFacts, Zenon DEF ManagerInv, ListInv
    <2>5. "port" \notin Range(e)
        BY <2>3, <2>4, Zenon
    <2>6. PICK f \in Seq(Holders) :
              f = Append(e, "port") /\ IsInjective(f) /\ Range(f) = Range(e) \cup {"port"}
        <3>1. /\ Append(e, "port") \in Seq(Holders) /\ IsInjective(Append(e, "port"))
              /\ Range(Append(e, "port")) = Range(e) \cup {"port"}
            <4>1. IsInjective(e) /\ "port" \in Holders
                BY <1>2, <2>4, Zenon
            <4>2. \A p \in Holders :
                     /\ Append(e, p) \in Seq(Holders) /\ Range(Append(e, p)) = Range(e) \cup {p}
                     /\ p \notin Range(e) => IsInjective(Append(e, p))
                BY <4>1, AppendFacts, SMTT(20), Z3T(20)
            <4>. QED
                BY <2>5, <4>1, <4>2, Zenon
        <3>. QED
            BY <3>1, Zenon
    <2>7. \A x \in Holders : ToBeLinked(x)' <=> ToBeLinked(x) \/ x \in {"port", "session"}
        BY <1>1, <1>9, <1>10 DEF ToBeLinked, ServerAt, InHand, Holders
    <2>8. \A x \in Holders : ToBeLinked(x)' <=> x \in Range(server.multiWait) \cup Range(f)
        BY <2>2, <2>4, <2>6, <2>7, Zenon DEF ManagerInv, ListInv
    <2>. QED
        BY <1>9, <2>3, <2>4, <2>6, <2>8, Zenon DEF ManagerInv, ListInv
<1>12. WaitInv'
    BY <1>1, <1>9, <1>10 DEF ManagerInv, WaitInv, ServerAt
<1>13. EndsInv'
    BY <1>1 DEF ManagerInv, EndsInv, IsClosed, SessionRecords
<1>14. HandInv'
    BY <1>1, <1>9, <1>10 DEF ManagerInv, HandInv, InHand, ServerAt, IsClosed
<1>. QED
    BY <1>1, <1>7, <1>8, <1>11, <1>12, <1>13, <1>14, Zenon DEF ManagerInv, ManagerType

(* The reply is sent: the session is linked again, or destroyed.           *)
LEMMA ReplyEndsPreserves ==
    ASSUME ManagerInv, ReplyEnds
    PROVE  ManagerInv'
<1>1. /\ server.pc = "replied" /\ server \in ServerRecords /\ session \in SessionRecords
      /\ UNCHANGED registered
    BY DEF ReplyEnds, ServerAt, ManagerInv, ManagerType
<1>2. session.server = "open" /\ ~session.pending /\ ~server.deferred
    BY <1>1, Zenon DEF ManagerInv, HandInv, InHand
<1>3. CASE ~request[server.replying].bound \/ IsClosed(session) \/ server.closing
    <2>1. /\ session' = [session EXCEPT !.server = "destroyed"]
          /\ server' = [server EXCEPT !.pc = "destroy", !.closing = FALSE, !.replying = Null]
        BY <1>3 DEF ReplyEnds
    <2>2. server' \in ServerRecords
        BY <1>1, <2>1, Zenon DEF ServerRecords
    <2>3. session' \in SessionRecords
        BY <1>1, <2>1 DEF SessionRecords
    <2>4. ListInv'
        BY <1>1, <2>1 DEF ManagerInv, ListInv, ServerRecords, SessionRecords, ToBeLinked, InHand,
                          ServerAt, Holders
    <2>5. WaitInv'
        BY <1>1, <2>1 DEF ManagerInv, WaitInv, ServerRecords, ServerAt
    <2>6. EndsInv'
        BY <1>1, <1>2, <2>1 DEF ManagerInv, EndsInv, SessionRecords, IsClosed
    <2>7. HandInv'
        BY <1>1, <1>2, <2>1 DEF ManagerInv, HandInv, InHand, ServerRecords, SessionRecords,
           ServerAt, IsClosed
    <2>. QED
        BY <1>1, <2>2, <2>3, <2>4, <2>5, <2>6, <2>7, Zenon DEF ManagerInv, ManagerType
<1>4. CASE ~(~request[server.replying].bound \/ IsClosed(session) \/ server.closing)
    <2>1. /\ session' = session
          /\ server' = [LinkToDeferredList(server, "session") EXCEPT !.pc = "link", !.replying = Null]
        BY <1>4 DEF ReplyEnds
    <2>2. "session" \in Holders
        BY Zenon DEF Holders
    <2>3. PICK l \in ServerRecords :
              /\ l = LinkToDeferredList(server, "session")
              /\ l = [server EXCEPT !.deferredList = Append(server.deferredList, "session"), !.wakeup = TRUE]
        <3>1. /\ LinkToDeferredList(server, "session") \in ServerRecords
              /\ LinkToDeferredList(server, "session") =
                    [server EXCEPT !.deferredList = Append(server.deferredList, "session"), !.wakeup = TRUE]
            BY <1>1, <2>2, LinkToDeferredListFacts, Zenon
        <3>. QED
            BY <3>1
    <2>a. server' = [l EXCEPT !.pc = "link", !.replying = Null]
        BY <2>1, <2>3
    <2>4. server' \in ServerRecords
        BY <2>a, Zenon DEF ServerRecords
    <2>5. /\ server'.pc = "link" /\ server'.multiWait = server.multiWait /\ server'.woken = server.woken
          /\ server'.deferredList = Append(server.deferredList, "session")
          /\ server'.deferred = server.deferred /\ server'.deferral = server.deferral
          /\ server'.replying = Null
        BY <1>1, <2>3, <2>a DEF ServerRecords
    <2>6. ListInv'
        <3>1. \A x \in Holders : ToBeLinked(x)' <=> ToBeLinked(x) \/ x = "session"
            BY <1>1, <1>2, <2>1, <2>5 DEF ToBeLinked, ServerAt, InHand, Holders
        <3>2. ~ToBeLinked("session") /\ ~ServerAt("stopped")
            BY <1>1 DEF ToBeLinked, ServerAt, InHand
        <3>3. "session" \notin Range(server.multiWait) \cup Range(server.deferredList)
            BY <2>2, <3>2 DEF ManagerInv, ListInv
        <3>. QED
            BY <2>2, <2>4, <2>5, <3>1, <3>2, <3>3, AppendedListInv, Zenon
    <2>7. WaitInv'
        BY <1>1, <1>2, <2>5, Zenon DEF ManagerInv, WaitInv, ServerAt
    <2>8. EndsInv'
        BY <2>1 DEF ManagerInv, EndsInv, IsClosed
    <2>9. HandInv'
        BY <1>1, <1>2, <2>1, <2>5 DEF ManagerInv, HandInv, InHand, ServerAt, IsClosed
    <2>. QED
        BY <1>1, <2>1, <2>4, <2>6, <2>7, <2>8, <2>9 DEF ManagerInv, ManagerType
<1>. QED
    BY <1>3, <1>4, Zenon

(* ServerManager::OnSessionEvent receives a request or finds the session   *)
(* closed.                                                                 *)
LEMMA OnSessionEventPreserves ==
    ASSUME ManagerInv, OnSessionEvent
    PROVE  ManagerInv'
<1>1. CASE IsClosed(session)
    <2>1. /\ session' = [session EXCEPT !.server = "destroyed"] /\ UNCHANGED registered
          /\ server' = [server EXCEPT !.pc = "destroy"] /\ server.pc = "session"
        BY <1>1 DEF OnSessionEvent, ServerTo, ServerAt
    <2>2. server' \in ServerRecords
        BY <2>1, Zenon DEF ManagerInv, ManagerType, ServerRecords
    <2>3. session' \in SessionRecords
        BY <2>1, Zenon DEF ManagerInv, ManagerType, SessionRecords
    <2>4. ListInv'
        BY <2>1, Zenon DEF ManagerInv, ManagerType, ListInv, ServerRecords, SessionRecords,
           ToBeLinked, InHand,
                    ServerAt, Holders, HandInv
    <2>5. WaitInv'
        BY <2>1 DEF ManagerInv, ManagerType, WaitInv, ServerRecords, ServerAt
    <2>6. EndsInv'
        BY <1>1, <2>1 DEF ManagerInv, ManagerType, EndsInv, HandInv, InHand, SessionRecords, IsClosed
    <2>7. HandInv'
        BY <2>1 DEF ManagerInv, ManagerType, HandInv, InHand, ServerRecords, SessionRecords,
           ServerAt, IsClosed
    <2>. QED
        BY <2>1, <2>2, <2>3, <2>4, <2>5, <2>6, <2>7 DEF ManagerInv, ManagerType
<1>2. CASE ~IsClosed(session)
    <2>1. /\ session' = [session EXCEPT !.current = Head(session.list), !.list = Tail(session.list)]
          /\ server' = [server EXCEPT !.pc = "handle"] /\ server.pc = "session" /\ UNCHANGED registered
        BY <1>2 DEF OnSessionEvent, ServerTo, ServerAt, Received
    <2>2. session.list # <<>> /\ session.list \in Seq(Threads)
        BY <1>2, <2>1 DEF ManagerInv, ManagerType, SessionRecords, HandInv, ServerAt
    <2>3. Head(session.list) \in Threads /\ Tail(session.list) \in Seq(Threads)
        BY <2>2, TailFacts, Zenon
    <2>4. server' \in ServerRecords
        BY <2>1, Zenon DEF ManagerInv, ManagerType, ServerRecords
    <2>5. session' \in SessionRecords
        BY <2>1, <2>3, Zenon DEF ManagerInv, ManagerType, SessionRecords
    <2>6. ListInv'
        BY <2>1, Zenon DEF ManagerInv, ManagerType, ListInv, ServerRecords, SessionRecords,
           ToBeLinked, InHand,
                    ServerAt, Holders, HandInv
    <2>7. WaitInv'
        BY <2>1, Zenon DEF ManagerInv, ManagerType, WaitInv, HandInv, InHand, ServerRecords, ServerAt
    <2>8. EndsInv'
        BY <2>1 DEF ManagerInv, ManagerType, EndsInv, HandInv, InHand, SessionRecords, IsClosed
    <2>9. HandInv'
        BY <2>1, <2>3, ProcessAssumption, Zenon
           DEF ManagerInv, ManagerType, HandInv, InHand, ServerRecords, SessionRecords, ServerAt,
               IsClosed
    <2>. QED
        BY <2>1, <2>4, <2>5, <2>6, <2>7, <2>8, <2>9 DEF ManagerInv, ManagerType
<1>. QED
    BY <1>1, <1>2

(* KServerSession::CleanupRequests, one request at a time.                 *)
LEMMA CleanupRequestPreserves ==
    ASSUME ManagerInv, CleanupRequest, Elsewhere
    PROVE  ManagerInv'
<1>1. session.server \in {"cleanup", "cleaning"} /\ UNCHANGED <<server, registered>>
    BY Zenon DEF CleanupRequest, Elsewhere
<1>2. PICK s \in {"cleaning", "closed"}, l \in Seq(Threads) :
          /\ session' = [session EXCEPT !.current = Null, !.list = l, !.server = s]
          /\ s = "closed" => l = <<>>
    <2>1. CASE session.current # Null
        <3>1. session' = [session EXCEPT !.current = Null, !.server = "cleaning"]
            BY <2>1, Zenon DEF CleanupRequest
        <3>. QED
            BY <3>1, Zenon DEF ManagerInv, ManagerType, SessionRecords
    <2>2. CASE session.current = Null /\ session.list # <<>>
        <3>1. session' = [session EXCEPT !.list = Tail(session.list), !.server = "cleaning"]
            BY <2>2 DEF CleanupRequest
        <3>2. Tail(session.list) \in Seq(Threads)
            BY <2>2, TailFacts, Zenon DEF ManagerInv, ManagerType, SessionRecords
        <3>. QED
            BY <2>2, <3>1, <3>2, Zenon DEF ManagerInv, ManagerType, SessionRecords
    <2>3. CASE session.current = Null /\ session.list = <<>>
        <3>1. session' = [session EXCEPT !.server = "closed"]
            BY <2>3 DEF CleanupRequest
        <3>. QED
            BY <2>3, <3>1, Zenon DEF ManagerInv, ManagerType, SessionRecords
    <2>. QED
        BY <2>1, <2>2, <2>3, Zenon
<1>3. session' \in SessionRecords
    BY <1>2, Zenon DEF ManagerInv, ManagerType, SessionRecords
<1>4. ListInv'
    BY <1>1, <1>2 DEF ManagerInv, ManagerType, SessionRecords, ListInv, ToBeLinked, InHand, ServerAt
<1>5. WaitInv'
    BY <1>1, <1>2, Zenon DEF ManagerInv, ManagerType, SessionRecords, WaitInv, EndsInv, ServerAt,
       IsSignaled,
                      SessionSignaled, IsClosed
<1>6. EndsInv'
    BY <1>1, <1>2 DEF ManagerInv, ManagerType, SessionRecords, EndsInv, IsClosed
<1>7. HandInv'
    BY <1>1, <1>2, Zenon DEF ManagerInv, ManagerType, SessionRecords, EndsInv, HandInv, InHand,
       ServerAt, IsClosed
<1>. QED
    BY <1>1, <1>3, <1>4, <1>5, <1>6, <1>7, Zenon DEF ManagerInv, ManagerType

-----------------------------------------------------------------------------
(* The other steps of the manager's thread.                                *)

(* The thread clears the wake-up event before it links what was put in the *)
(* list.                                                                   *)
LEMMA ClearWakeupPreserves ==
    ASSUME ManagerInv, ClearWakeup
    PROVE  ManagerInv'
<1>1. /\ server' = [server EXCEPT !.wakeup = FALSE, !.pc = "link"]
      /\ server.pc = "clear" /\ UNCHANGED <<session, registered>>
    BY DEF ServerAt, ServerTo, sessionVars, ClearWakeup
<1>2. server' \in ServerRecords
    BY <1>1, Zenon DEF ManagerInv, ManagerType, ServerRecords
<1>3. ListInv'
    BY <1>1 DEF ManagerInv, ManagerType, ServerRecords, ListInv, ToBeLinked, InHand, ServerAt
<1>4. WaitInv'
    BY <1>1, Zenon DEF ManagerInv, ManagerType, ServerRecords, WaitInv, ServerAt, IsSignaled,
                SessionSignaled, IsClosed
<1>5. EndsInv'
    BY <1>1 DEF ManagerInv, EndsInv, IsClosed
<1>6. HandInv'
    BY <1>1 DEF ManagerInv, ManagerType, ServerRecords, HandInv, InHand, ServerAt, IsClosed
<1>. QED
    BY <1>1, <1>2, <1>3, <1>4, <1>5, <1>6 DEF ManagerInv, ManagerType

(* A handler that returns leaves the request in the session.               *)
LEMMA HandlerReturnsPreserves ==
    ASSUME ManagerInv, NEW closing \in BOOLEAN, HandlerReturns(closing)
    PROVE  ManagerInv'
<1>1. /\ server' = [server EXCEPT !.pc = "reply", !.retry = FALSE, !.closing = closing]
      /\ server.pc = "handle" /\ UNCHANGED <<session, registered>>
    BY DEF ServerAt, ServerTo, sessionVars, HandlerReturns
<1>2. server' \in ServerRecords
    BY <1>1, Zenon DEF ManagerInv, ManagerType, ServerRecords
<1>3. ListInv'
    BY <1>1 DEF ManagerInv, ManagerType, ServerRecords, ListInv, ToBeLinked, InHand, ServerAt
<1>4. WaitInv'
    BY <1>1, Zenon DEF ManagerInv, ManagerType, ServerRecords, WaitInv, ServerAt, IsSignaled,
                SessionSignaled, IsClosed
<1>5. EndsInv'
    BY <1>1 DEF ManagerInv, EndsInv, IsClosed
<1>6. HandInv'
    BY <1>1, Zenon DEF ManagerInv, ManagerType, ServerRecords, HandInv, InHand, ServerAt, IsClosed
<1>. QED
    BY <1>1, <1>2, <1>3, <1>4, <1>5, <1>6 DEF ManagerInv, ManagerType

(* A handler defers only if the service is not registered.                 *)
LEMMA HandlerDefersPreserves ==
    ASSUME ManagerInv, HandlerDefers
    PROVE  ManagerInv'
<1>1. /\ server' = [server EXCEPT !.pc = "defer"]
      /\ server.pc = "handle" /\ ~registered /\ UNCHANGED <<session, registered>>
    BY DEF ServerAt, ServerTo, sessionVars, HandlerDefers
<1>2. server' \in ServerRecords
    BY <1>1, Zenon DEF ManagerInv, ManagerType, ServerRecords
<1>3. ListInv'
    BY <1>1 DEF ManagerInv, ManagerType, ServerRecords, ListInv, ToBeLinked, InHand, ServerAt
<1>4. WaitInv'
    BY <1>1, Zenon DEF ManagerInv, ManagerType, ServerRecords, WaitInv, ServerAt, IsSignaled,
                SessionSignaled, IsClosed
<1>5. EndsInv'
    BY <1>1 DEF ManagerInv, EndsInv, IsClosed
<1>6. HandInv'
    BY <1>1 DEF ManagerInv, ManagerType, ServerRecords, HandInv, InHand, ServerAt, IsClosed
<1>. QED
    BY <1>1, <1>2, <1>3, <1>4, <1>5, <1>6 DEF ManagerInv, ManagerType

(* A deferred request keeps the session out of the lists.                  *)
LEMMA KeepDeferredPreserves ==
    ASSUME ManagerInv, KeepDeferred
    PROVE  ManagerInv'
<1>1. /\ server' = [server EXCEPT !.pc = "link", !.deferred = TRUE]
      /\ server.pc = "defer" /\ UNCHANGED <<session, registered>>
    BY DEF ServerAt, ServerTo, sessionVars, KeepDeferred
<1>2. server' \in ServerRecords
    BY <1>1, Zenon DEF ManagerInv, ManagerType, ServerRecords
<1>3. ListInv'
    BY <1>1 DEF ManagerInv, ManagerType, ServerRecords, ListInv, ToBeLinked, InHand, ServerAt
<1>4. WaitInv'
    BY <1>1, Zenon DEF ManagerInv, ManagerType, ServerRecords, WaitInv, ServerAt, IsSignaled,
                SessionSignaled, IsClosed
<1>5. EndsInv'
    BY <1>1 DEF ManagerInv, EndsInv, IsClosed
<1>6. HandInv'
    BY <1>1, Zenon DEF ManagerInv, ManagerType, ServerRecords, HandInv, InHand, ServerAt, IsClosed
<1>. QED
    BY <1>1, <1>2, <1>3, <1>4, <1>5, <1>6 DEF ManagerInv, ManagerType

(* The termination of the process is none of the manager's state.          *)
LEMMA HandlerTerminatesPreserves ==
    ASSUME ManagerInv, HandlerTerminates
    PROVE  ManagerInv'
<1>1. /\ server' = [server EXCEPT !.pc = "terminate"]
      /\ server.pc = "handle" /\ UNCHANGED <<session, registered>>
    BY DEF ServerAt, ServerTo, sessionVars, HandlerTerminates
<1>2. server' \in ServerRecords
    BY <1>1, Zenon DEF ManagerInv, ManagerType, ServerRecords
<1>3. ListInv'
    BY <1>1, Zenon DEF ManagerInv, ManagerType, ServerRecords, ListInv, ToBeLinked, InHand, ServerAt
<1>4. WaitInv'
    BY <1>1, Zenon DEF ManagerInv, ManagerType, ServerRecords, WaitInv, ServerAt, IsSignaled,
                SessionSignaled, IsClosed
<1>5. EndsInv'
    BY <1>1 DEF ManagerInv, EndsInv, IsClosed
<1>6. HandInv'
    BY <1>1, Zenon DEF ManagerInv, ManagerType, ServerRecords, HandInv, InHand, ServerAt, IsClosed
<1>. QED
    BY <1>1, <1>2, <1>3, <1>4, <1>5, <1>6 DEF ManagerInv, ManagerType

(* Nor is its end.                                                         *)
LEMMA HandlerTerminatedPreserves ==
    ASSUME ManagerInv, HandlerTerminated
    PROVE  ManagerInv'
<1>1. /\ server' = [server EXCEPT !.pc = "reply", !.closing = FALSE]
      /\ server.pc = "terminate" /\ UNCHANGED <<session, registered>>
    BY DEF ServerAt, ServerTo, sessionVars, HandlerTerminated
<1>2. server' \in ServerRecords
    BY <1>1, Zenon DEF ManagerInv, ManagerType, ServerRecords
<1>3. ListInv'
    BY <1>1, Zenon DEF ManagerInv, ManagerType, ServerRecords, ListInv, ToBeLinked, InHand, ServerAt
<1>4. WaitInv'
    BY <1>1, Zenon DEF ManagerInv, ManagerType, ServerRecords, WaitInv, ServerAt, IsSignaled,
                SessionSignaled, IsClosed
<1>5. EndsInv'
    BY <1>1 DEF ManagerInv, EndsInv, IsClosed
<1>6. HandInv'
    BY <1>1 DEF ManagerInv, ManagerType, ServerRecords, HandInv, InHand, ServerAt, IsClosed
<1>. QED
    BY <1>1, <1>2, <1>3, <1>4, <1>5, <1>6 DEF ManagerInv, ManagerType

(* The manager goes on once the session is destroyed.                      *)
LEMMA DestroyedPreserves ==
    ASSUME ManagerInv, Destroyed
    PROVE  ManagerInv'
<1>1. /\ server' = [server EXCEPT !.pc = "link"]
      /\ server.pc = "destroy" /\ UNCHANGED <<session, registered>>
    BY DEF ServerAt, ServerTo, sessionVars, Destroyed
<1>2. server' \in ServerRecords
    BY <1>1, Zenon DEF ManagerInv, ManagerType, ServerRecords
<1>3. ListInv'
    BY <1>1 DEF ManagerInv, ManagerType, ServerRecords, ListInv, ToBeLinked, InHand, ServerAt
<1>4. WaitInv'
    BY <1>1, Zenon DEF ManagerInv, ManagerType, ServerRecords, WaitInv, ServerAt, IsSignaled,
                SessionSignaled, IsClosed
<1>5. EndsInv'
    BY <1>1 DEF ManagerInv, EndsInv, IsClosed
<1>6. HandInv'
    BY <1>1, Zenon DEF ManagerInv, ManagerType, ServerRecords, HandInv, InHand, ServerAt, IsClosed
<1>. QED
    BY <1>1, <1>2, <1>3, <1>4, <1>5, <1>6 DEF ManagerInv, ManagerType

(* The reply takes the request out of the session.                         *)
LEMMA SendReplyPreserves ==
    ASSUME ManagerInv, SendReply
    PROVE  ManagerInv'
<1>1. /\ server' = [server EXCEPT !.pc = "replied", !.replying = session.current]
      /\ session' = [session EXCEPT !.current = Null]
      /\ server.pc = "reply" /\ UNCHANGED registered
    BY DEF ServerAt, ServerTo, sessionVars, SendReply
<1>2. server' \in ServerRecords
    BY <1>1, Zenon DEF ManagerInv, ManagerType, ServerRecords, SessionRecords
<1>3. session' \in SessionRecords
    BY <1>1 DEF ManagerInv, ManagerType, SessionRecords
<1>4. ListInv'
    BY <1>1 DEF ManagerInv, ManagerType, ServerRecords, SessionRecords, ListInv, ToBeLinked,
                InHand, ServerAt
<1>5. WaitInv'
    BY <1>1, Zenon DEF ManagerInv, ManagerType, ServerRecords, SessionRecords, WaitInv, ServerAt,
                IsSignaled, SessionSignaled, IsClosed
<1>6. EndsInv'
    BY <1>1 DEF ManagerInv, ManagerType, ServerRecords, SessionRecords, EndsInv, IsClosed
<1>7. HandInv'
    BY <1>1 DEF ManagerInv, ManagerType, ServerRecords, SessionRecords, HandInv, InHand, ServerAt,
                IsClosed
<1>. QED
    BY <1>1, <1>2, <1>3, <1>4, <1>5, <1>6, <1>7 DEF ManagerInv, ManagerType

-----------------------------------------------------------------------------
(* The ends of the session.                                                *)

(* What holds of the waiting manager still does when x, which may have     *)
(* become signaled, is notified or its notification is still to come.      *)
LEMMA NotifiedWaitInv ==
    ASSUME WaitInv, NEW x \in Holders,
           server'.pc = server.pc, server'.multiWait = server.multiWait,
           server'.woken = server.woken \/ (/\ server.pc = "waiting" /\ server'.woken = x
                                            /\ x \in Range(server.multiWait)
                                            /\ IsSignaled(server', session', x)),
           \A h \in Range(server.multiWait) \ {x} : server.pc = "waiting" =>
               (IsSignaled(server', session', h) <=> IsSignaled(server, session, h)),
           IsSignaled(server, session, x) => IsSignaled(server', session', x),
           server.pc = "waiting" /\ server'.woken = NoHolder /\ x \in Range(server.multiWait)
               /\ IsSignaled(server', session', x) => x = "session" /\ session'.client = "notifying",
           server.pc = "waiting" /\ x # "session" /\ "session" \in Range(server.multiWait) =>
               session'.client = session.client,
           registered' /\ (server'.deferred \/ server.pc = "defer") => server'.deferral \/ server.pc = "deferral"
    PROVE  WaitInv'
<1>. USE DEF ServerAt
<1>1. server'.woken # NoHolder => /\ server'.pc = "waiting" /\ server'.woken \in Range(server'.multiWait)
                                  /\ IsSignaled(server', session', server'.woken)
    BY Zenon DEF WaitInv
<1>2. ASSUME server'.pc = "waiting", server'.woken = NoHolder, NEW h \in Range(server'.multiWait),
             IsSignaled(server', session', h)
      PROVE  h = "session" /\ session'.client = "notifying"
    <2>1. server.woken = NoHolder
        BY <1>2, Zenon DEF Holders, NoHolder
    <2>2. CASE h = x
        BY <1>2, <2>2, Zenon
    <2>3. CASE h # x
        <3>1. IsSignaled(server, session, h)
            BY <1>2, <2>3, Zenon
        <3>2. h = "session" /\ session.client = "notifying"
            BY <1>2, <2>1, <3>1, Zenon DEF WaitInv
        <3>. QED
            BY <1>2, <2>3, <3>2, Zenon
    <2>. QED
        BY <2>2, <2>3, Zenon
<1>. QED
    BY <1>1, <1>2, Zenon DEF WaitInv

(* The session is closed, and its notification is still to come.           *)
LEMMA ClientClosedPreserves ==
    ASSUME ManagerInv, ClientClosed, Elsewhere
    PROVE  ManagerInv'
<1>1. /\ session' = [session EXCEPT !.client = "notifying", !.state = "ClientClosed"]
      /\ session.client = "closing" /\ UNCHANGED <<server, registered>>
    BY DEF Elsewhere, ClientClosed
<1>2. session' \in SessionRecords
    BY <1>1, Zenon DEF ManagerInv, ManagerType, SessionRecords
<1>3. ListInv'
    BY <1>1, Zenon DEF ManagerInv, ManagerType, SessionRecords, ListInv, ToBeLinked, InHand, ServerAt
<1>4. WaitInv'
    BY <1>1, Zenon DEF ManagerInv, ManagerType, SessionRecords, WaitInv, ServerAt, IsSignaled,
                SessionSignaled, IsClosed
<1>5. EndsInv'
    BY <1>1 DEF ManagerInv, ManagerType, SessionRecords, EndsInv, IsClosed
<1>6. HandInv'
    BY <1>1, Zenon DEF ManagerInv, ManagerType, SessionRecords, HandInv, InHand, ServerAt, IsClosed
<1>. QED
    BY <1>1, <1>2, <1>3, <1>4, <1>5, <1>6 DEF ManagerInv, ManagerType

(* KSession::OnClientClosed finds the session open or closed.              *)
LEMMA ClientClosingPreserves ==
    ASSUME ManagerInv, ClientClosing, Elsewhere
    PROVE  ManagerInv'
<1>1. PICK c \in {"closing", "closed"} :
          /\ session' = [session EXCEPT !.client = c] /\ UNCHANGED <<server, registered>>
          /\ session.client = "open" /\ (c = "closed" => IsClosed(session))
    BY DEF ClientClosing, Elsewhere, IsClosed
<1>2. session' \in SessionRecords
    BY <1>1 DEF ManagerInv, ManagerType, SessionRecords
<1>3. ListInv'
    BY <1>1, Zenon DEF ManagerInv, ManagerType, SessionRecords, ListInv, ToBeLinked, InHand, ServerAt
<1>4. WaitInv'
    BY <1>1, Zenon DEF ManagerInv, ManagerType, SessionRecords, WaitInv, ServerAt, IsSignaled,
       SessionSignaled,
                IsClosed
<1>5. EndsInv'
    BY <1>1 DEF ManagerInv, ManagerType, SessionRecords, EndsInv, IsClosed
<1>6. HandInv'
    BY <1>1 DEF ManagerInv, ManagerType, SessionRecords, HandInv, InHand, ServerAt, IsClosed
<1>. QED
    BY <1>1, <1>2, <1>3, <1>4, <1>5, <1>6 DEF ManagerInv, ManagerType

(* The notification of the closing reaches the manager if it waits.        *)
LEMMA OnClientClosedPreserves ==
    ASSUME ManagerInv, OnClientClosed(SessionLocked), UNCHANGED registered,
           server' = NotifyAvailable(server, session', "session")
    PROVE  ManagerInv'
<1>1. /\ session' = [session EXCEPT !.client = "closed", !.list = <<>>]
      /\ session.client = "notifying" /\ "session" \in Holders /\ server \in ServerRecords
    BY DEF OnClientClosed, Holders, ManagerInv, ManagerType
<1>2. IsClosed(session) /\ IsClosed(session')
    BY <1>1 DEF ManagerInv, ManagerType, SessionRecords, EndsInv, IsClosed
<1>3. <<>> \in Seq(Threads)
    OBVIOUS
<1>4. session' \in SessionRecords
    BY <1>1, <1>3, Zenon DEF ManagerInv, ManagerType, SessionRecords
<1>5. PICK w \in Holders \cup {NoHolder} :
          /\ server' = [server EXCEPT !.woken = w]
          /\ w # server.woken => /\ server.pc = "waiting" /\ server.woken = NoHolder /\ w = "session"
                                 /\ "session" \in Range(server.multiWait)
          /\ server.pc = "waiting" /\ server.woken = NoHolder /\ "session" \in Range(server.multiWait)
                => w = "session"
    <2>1. IsSignaled(server, session', "session")
        BY <1>2, Zenon DEF IsSignaled, SessionSignaled
    <2>. QED
        BY <1>1, <2>1, NotifyFacts
<1>6. server' \in ServerRecords
    BY <1>1, <1>5 DEF ServerRecords
<1>7. ListInv'
    <2>1. /\ server'.pc = server.pc /\ server'.multiWait = server.multiWait
          /\ server'.deferredList = server.deferredList /\ server'.deferred = server.deferred
          /\ session'.server = session.server /\ session'.pending = session.pending
        BY <1>1, <1>5, Zenon DEF ManagerInv, ManagerType, ServerRecords, SessionRecords
    <2>. QED
        BY <2>1, Zenon DEF ManagerInv, ListInv, ToBeLinked, InHand, ServerAt
<1>8. WaitInv'
    <2>1. /\ server'.woken = w /\ server'.pc = server.pc /\ server'.multiWait = server.multiWait
          /\ server'.deferred = server.deferred /\ server'.deferral = server.deferral
          /\ server'.wakeup = server.wakeup /\ session'.pending = session.pending
        BY <1>1, <1>5, Zenon DEF ServerRecords, ManagerInv, ManagerType, SessionRecords
    <2>2. IsSignaled(server', session', "session")
        BY <1>2, Zenon DEF IsSignaled, SessionSignaled
    <2>3. \A h \in Range(server.multiWait) \ {"session"} :
              IsSignaled(server', session', h) <=> IsSignaled(server, session, h)
        BY <2>1, Zenon DEF IsSignaled
    <2>4. WaitInv
        BY Zenon DEF ManagerInv
    <2>5. server.pc = "waiting" /\ server'.woken = NoHolder => "session" \notin Range(server.multiWait)
        BY <1>5, <2>1, Zenon DEF NoHolder
    <2>6. registered' /\ (server'.deferred \/ server.pc = "defer") => server'.deferral \/ server.pc = "deferral"
        BY <2>1, <2>4, Zenon DEF WaitInv, ServerAt
    <2>. QED
        BY <1>1, <1>5, <2>1, <2>2, <2>3, <2>4, <2>5, <2>6, NotifiedWaitInv
<1>9. EndsInv'
    BY <1>1, Zenon DEF ManagerInv, ManagerType, SessionRecords, EndsInv, IsClosed
<1>10. HandInv'
    BY <1>1, <1>2, <1>5, ZenonT(30) DEF ManagerInv, ManagerType, ServerRecords, SessionRecords,
       HandInv, InHand, ServerAt
<1>. QED
    BY <1>4, <1>6, <1>7, <1>8, <1>9, <1>10 DEF ManagerInv, ManagerType

(* A session that is being destroyed is not waited for.                    *)
LEMMA DestroyedNotLinked ==
    ASSUME ManagerInv, session.server # "open", server.pc = "waiting"
    PROVE  "session" \notin Range(server.multiWait)
BY Zenon DEF ManagerInv, ListInv, ToBeLinked, ServerAt, Holders

(* KSession::OnServerClosed finds the session open or closed.              *)
LEMMA ServerClosingPreserves ==
    ASSUME ManagerInv, ServerClosing, Elsewhere
    PROVE  ManagerInv'
<1>1. PICK c \in {"closing", "cleanup"} :
          /\ session' = [session EXCEPT !.server = c] /\ UNCHANGED <<server, registered>>
          /\ session.server = "destroyed" /\ (c = "cleanup" => IsClosed(session))
    BY DEF ServerClosing, Elsewhere, IsClosed
<1>2. session' \in SessionRecords
    BY <1>1 DEF ManagerInv, ManagerType, SessionRecords
<1>3. ListInv'
    BY <1>1, Zenon DEF ManagerInv, ManagerType, SessionRecords, ListInv, ToBeLinked, InHand, ServerAt
<1>4. WaitInv'
    BY <1>1, Zenon DEF ManagerInv, ManagerType, SessionRecords, WaitInv, ServerAt, IsSignaled,
       SessionSignaled,
                IsClosed
<1>5. EndsInv'
    BY <1>1, Zenon DEF ManagerInv, ManagerType, SessionRecords, EndsInv, IsClosed
<1>6. HandInv'
    BY <1>1, Zenon DEF ManagerInv, ManagerType, SessionRecords, HandInv, InHand, ServerAt, IsClosed
<1>. QED
    BY <1>1, <1>2, <1>3, <1>4, <1>5, <1>6 DEF ManagerInv, ManagerType

(* The session is closed; its holder is linked no more.                    *)
LEMMA ServerClosedPreserves ==
    ASSUME ManagerInv, ServerClosed, Elsewhere
    PROVE  ManagerInv'
<1>1. /\ session' = [session EXCEPT !.server = "cleanup", !.state = "ServerClosed"]
      /\ session.server = "closing" /\ UNCHANGED <<server, registered>>
    BY DEF ServerClosed, Elsewhere
<1>2. session' \in SessionRecords
    BY <1>1, Zenon DEF ManagerInv, ManagerType, SessionRecords
<1>3. ListInv'
    BY <1>1, Zenon DEF ManagerInv, ManagerType, SessionRecords, ListInv, ToBeLinked, InHand, ServerAt
<1>4. WaitInv'
    BY <1>1, DestroyedNotLinked, ZenonT(30)
       DEF ManagerInv, ManagerType, SessionRecords, WaitInv, ServerAt, IsSignaled, SessionSignaled,
           IsClosed
<1>5. EndsInv'
    BY <1>1, Zenon DEF ManagerInv, ManagerType, SessionRecords, EndsInv, IsClosed
<1>6. HandInv'
    BY <1>1, Zenon DEF ManagerInv, ManagerType, SessionRecords, HandInv, InHand, ServerAt, IsClosed
<1>. QED
    BY <1>1, <1>2, <1>3, <1>4, <1>5, <1>6 DEF ManagerInv, ManagerType

-----------------------------------------------------------------------------
(* The steps of others.                                                    *)

(* A connection is notified to the port.                                   *)
LEMMA ConnectToPortPreserves ==
    ASSUME ManagerInv, NEW t \in Threads, ConnectToPort(t)
    PROVE  ManagerInv'
<1>1. /\ session' = [session EXCEPT !.client = "open", !.server = "open", !.pending = TRUE]
      /\ session.client = "none" /\ "port" \in Holders /\ server \in ServerRecords
      /\ server' = NotifyAvailable(server, session', "port") /\ UNCHANGED registered
    BY DEF ConnectToPort, Connect, Holders, ManagerInv, ManagerType
<1>2. session.server = "none" /\ ~IsClosed(session) /\ ~session.pending
    BY <1>1 DEF ManagerInv, EndsInv
<1>3. session' \in SessionRecords
    BY <1>1, Zenon DEF ManagerInv, ManagerType, SessionRecords
<1>4. /\ session'.client = "open" /\ session'.server = "open" /\ session'.pending
      /\ session'.state = session.state
    BY <1>1, <1>2 DEF ManagerInv, ManagerType, SessionRecords
<1>5. PICK w \in Holders \cup {NoHolder} :
          /\ server' = [server EXCEPT !.woken = w]
          /\ w # server.woken => /\ server.pc = "waiting" /\ server.woken = NoHolder /\ w = "port"
                                 /\ "port" \in Range(server.multiWait)
          /\ server.pc = "waiting" /\ server.woken = NoHolder /\ "port" \in Range(server.multiWait)
                => w = "port"
    <2>1. IsSignaled(server, session', "port")
        BY <1>4, Zenon DEF IsSignaled
    <2>2. PICK w \in Holders \cup {NoHolder} :
              /\ NotifyAvailable(server, session', "port") = [server EXCEPT !.woken = w]
              /\ w # server.woken => /\ server.pc = "waiting" /\ server.woken = NoHolder /\ w = "port"
                                     /\ "port" \in Range(server.multiWait)
                                     /\ IsSignaled(server, session', "port")
              /\ server.pc = "waiting" /\ server.woken = NoHolder /\ "port" \in Range(server.multiWait)
                 /\ IsSignaled(server, session', "port") => w = "port"
        BY <1>1, NotifyFacts
    <2>. QED
        BY <1>1, <2>1, <2>2, Zenon
<1>6. server' \in ServerRecords
    BY <1>1, <1>5 DEF ServerRecords
<1>7. ListInv'
    BY <1>2, <1>4, <1>5, Zenon DEF ManagerInv, ManagerType, ServerRecords, ListInv, ToBeLinked,
       InHand, ServerAt
<1>8. WaitInv'
    <2>1. /\ server'.woken = w /\ server'.pc = server.pc /\ server'.multiWait = server.multiWait
          /\ server'.deferred = server.deferred /\ server'.deferral = server.deferral
          /\ server'.wakeup = server.wakeup
        BY <1>1, <1>5 DEF ServerRecords
    <2>2. IsSignaled(server', session', "port")
        BY <1>4, Zenon DEF IsSignaled
    <2>3. server.pc = "waiting" => "session" \notin Range(server.multiWait)
        BY <1>2, DestroyedNotLinked, Zenon
    <2>4. \A h \in Range(server.multiWait) \ {"port"} : server.pc = "waiting" =>
              (IsSignaled(server', session', h) <=> IsSignaled(server, session, h))
        BY <2>1, <2>3, Zenon DEF IsSignaled
    <2>5. WaitInv
        BY DEF ManagerInv
    <2>6. server.pc = "waiting" /\ server'.woken = NoHolder => "port" \notin Range(server.multiWait)
        BY <1>5, <2>1 DEF NoHolder
    <2>7. registered' /\ (server'.deferred \/ server.pc = "defer") => server'.deferral \/ server.pc = "deferral"
        BY <1>1, <2>1, <2>5 DEF WaitInv, ServerAt
    <2>. QED
        BY <1>1, <1>5, <2>1, <2>2, <2>3, <2>4, <2>5, <2>6, <2>7, NotifiedWaitInv, ZenonT(20)
<1>9. EndsInv'
    BY <1>2, <1>4, Zenon DEF EndsInv, IsClosed
<1>10. HandInv'
    BY <1>2, <1>4, <1>5, ZenonT(20) DEF ManagerInv, ManagerType, ServerRecords, HandInv, InHand,
       ServerAt, IsClosed
<1>. QED
    BY <1>1, <1>3, <1>6, <1>7, <1>8, <1>9, <1>10 DEF ManagerInv, ManagerType

(* A request is notified if it is the first of the list; a second one      *)
(* cannot make the session signaled.                                       *)
LEMMA RequestPreserves ==
    ASSUME ManagerInv, NEW t \in Threads, Request(t)
    PROVE  ManagerInv'
<1>1. /\ server \in ServerRecords /\ session \in SessionRecords /\ session.list \in Seq(Threads)
      /\ "session" \in Holders /\ UNCHANGED registered
    BY Zenon DEF Request, Holders, ManagerInv, ManagerType, SessionRecords
<1>2. PICK l \in Seq(Threads) :
          /\ session' = [session EXCEPT !.list = l]
          /\ l = session.list \/ (l # <<>> /\ ~IsClosed(session))
    <2>1. CASE IsClosed(session) \/ IsTerminationRequested(t)
        <3>1. session' = session /\ session = [session EXCEPT !.list = session.list]
            BY <1>1, <2>1 DEF Request, OnRequest, sessionVars, SessionRecords
        <3>. QED
            BY <1>1, <3>1
    <2>2. CASE ~(IsClosed(session) \/ IsTerminationRequested(t))
        <3>1. session' = [session EXCEPT !.list = Append(session.list, t)]
            BY <2>2 DEF Request, OnRequest
        <3>2. Append(session.list, t) \in Seq(Threads) /\ Append(session.list, t) # <<>>
            BY <1>1, SMTT(20), Z3T(20)
        <3>. QED
            BY <2>2, <3>1, <3>2, Zenon
    <2>. QED
        BY <2>1, <2>2
<1>3. session' \in SessionRecords
    BY <1>1, <1>2, Zenon DEF SessionRecords
<1>4. /\ session'.list = l /\ session'.current = session.current /\ session'.state = session.state
      /\ session'.client = session.client /\ session'.server = session.server
      /\ session'.pending = session.pending
    BY <1>1, <1>2 DEF SessionRecords
<1>5. PICK w \in Holders \cup {NoHolder} :
          /\ server' = [server EXCEPT !.woken = w]
          /\ w # server.woken => /\ server.pc = "waiting" /\ server.woken = NoHolder /\ w = "session"
                                 /\ "session" \in Range(server.multiWait)
                                 /\ IsSignaled(server, session', "session")
          /\ server.pc = "waiting" /\ server.woken = NoHolder /\ "session" \in Range(server.multiWait)
             /\ session.list = <<>> /\ IsSignaled(server, session', "session") => w = "session"
    <2>1. CASE session.list = <<>>
        <3>1. server' = NotifyAvailable(server, session', "session")
            BY <2>1, Zenon DEF Request
        <3>2. server \in ServerRecords /\ "session" \in Holders
            BY <1>1, Zenon DEF Holders
        <3>3. PICK w \in Holders \cup {NoHolder} :
                  /\ NotifyAvailable(server, session', "session") = [server EXCEPT !.woken = w]
                  /\ w # server.woken => /\ server.pc = "waiting" /\ server.woken = NoHolder
                                         /\ w = "session" /\ "session" \in Range(server.multiWait)
                                         /\ IsSignaled(server, session', "session")
                  /\ server.pc = "waiting" /\ server.woken = NoHolder /\ "session" \in Range(server.multiWait)
                     /\ IsSignaled(server, session', "session") => w = "session"
            BY <3>2, NotifyFacts
        <3>. QED
            BY <3>1, <3>3, Zenon
    <2>2. CASE session.list # <<>>
        <3>1. server' = server /\ server = [server EXCEPT !.woken = server.woken]
              /\ server.woken \in Holders \cup {NoHolder}
            BY <1>1, <2>2 DEF Request, ServerRecords
        <3>. QED
            BY <2>2, <3>1, Zenon
    <2>. QED
        BY <2>1, <2>2, Zenon
<1>6. server' \in ServerRecords
    BY <1>1, <1>5, Zenon DEF ServerRecords
<1>7. ListInv'
    BY <1>1, <1>4, <1>5 DEF ManagerInv, ServerRecords, ListInv, ToBeLinked, InHand, ServerAt
<1>8. WaitInv'
    <2>1. /\ server'.woken = w /\ server'.pc = server.pc /\ server'.multiWait = server.multiWait
          /\ server'.deferred = server.deferred /\ server'.deferral = server.deferral
          /\ server'.wakeup = server.wakeup
        BY <1>1, <1>5, Zenon DEF ServerRecords
    <2>2. IsSignaled(server', session', "session") <=> IsSignaled(server, session', "session")
        BY Zenon DEF IsSignaled
    <2>3. \A h \in Range(server.multiWait) \ {"session"} :
              IsSignaled(server', session', h) <=> IsSignaled(server, session, h)
        BY <1>4, <2>1, Zenon DEF IsSignaled
    <2>4. IsSignaled(server, session, "session") => IsSignaled(server, session', "session")
        BY <1>2, <1>4 DEF IsSignaled, SessionSignaled, IsClosed
    <2>5. IsSignaled(server, session', "session") => session.list = <<>> \/ IsSignaled(server, session, "session")
        BY <1>2, <1>4 DEF IsSignaled, SessionSignaled, IsClosed
    <2>6. WaitInv
        BY DEF ManagerInv
    <2>7. server.pc = "waiting" /\ server'.woken = NoHolder /\ "session" \in Range(server.multiWait)
             /\ IsSignaled(server', session', "session") => session'.client = "notifying"
        BY <1>4, <1>5, <2>1, <2>2, <2>5, <2>6, ZenonT(20) DEF NoHolder, WaitInv, ServerAt
    <2>8. registered' /\ (server'.deferred \/ server.pc = "defer") => server'.deferral \/ server.pc = "deferral"
        BY <1>1, <2>1, <2>6, Zenon DEF WaitInv, ServerAt
    <2>. QED
        BY <1>1, <1>5, <2>1, <2>2, <2>3, <2>4, <2>6, <2>7, <2>8, NotifiedWaitInv, ZenonT(20)
<1>9. EndsInv'
    BY <1>2, <1>4, Zenon DEF ManagerInv, EndsInv, IsClosed
<1>10. HandInv'
    BY <1>1, <1>2, <1>4, <1>5, ZenonT(30) DEF ManagerInv, ServerRecords, HandInv, InHand, ServerAt,
       IsClosed
<1>. QED
    BY <1>1, <1>3, <1>6, <1>7, <1>8, <1>9, <1>10, ZenonT(20) DEF ManagerInv, ManagerType

(* RegisterService signals the deferral event, which is notified.          *)
LEMMA RegisterServicePreserves ==
    ASSUME ManagerInv, RegisterService
    PROVE  ManagerInv'
<1>1. /\ server \in ServerRecords /\ session \in SessionRecords /\ "deferral" \in Holders /\ WaitInv
      /\ server' = SignalDeferral(server) /\ registered' /\ registered' \in BOOLEAN /\ UNCHANGED session
    BY Zenon DEF RegisterService, Holders, ManagerInv, ManagerType, sessionVars
<1>2. PICK w \in Holders \cup {NoHolder} :
          /\ SignalDeferral(server) = [server EXCEPT !.deferral = TRUE, !.woken = w]
          /\ w # server.woken => /\ server.pc = "waiting" /\ server.woken = NoHolder /\ w = "deferral"
                                 /\ "deferral" \in Range(server.multiWait)
          /\ server.pc = "waiting" /\ server.woken = NoHolder /\ "deferral" \in Range(server.multiWait)
             /\ ~server.deferral => w = "deferral"
    BY <1>1, SignalDeferralFacts, Zenon
<1>3. /\ server'.woken = w /\ server'.pc = server.pc /\ server'.multiWait = server.multiWait
      /\ server'.deferredList = server.deferredList /\ server'.replying = server.replying
      /\ server'.deferred = server.deferred /\ server'.deferral /\ server'.wakeup = server.wakeup
    BY <1>1, <1>2 DEF ServerRecords
<1>4. server' \in ServerRecords
    BY <1>1, <1>2, Zenon DEF ServerRecords
<1>5. ListInv'
    BY <1>1, <1>3, ZenonT(30) DEF ManagerInv, ListInv, ToBeLinked, InHand, ServerAt
<1>6. WaitInv'
    <2>1. IsSignaled(server', session', "deferral")
        BY <1>3, Zenon DEF IsSignaled
    <2>2. \A h \in Range(server.multiWait) \ {"deferral"} :
              IsSignaled(server', session', h) <=> IsSignaled(server, session, h)
        BY <1>1, <1>3, Zenon DEF IsSignaled
    <2>3. server.pc = "waiting" /\ server'.woken = NoHolder => "deferral" \notin Range(server.multiWait)
        BY <1>1, <1>2, <1>3, Zenon DEF NoHolder, WaitInv, ServerAt, IsSignaled
    <2>. QED
        BY <1>1, <1>2, <1>3, <2>1, <2>2, <2>3, NotifiedWaitInv
<1>7. EndsInv'
    BY <1>1, Zenon DEF ManagerInv, EndsInv
<1>8. HandInv'
    BY <1>1, <1>3, Zenon DEF ManagerInv, HandInv, InHand, ServerAt
<1>. QED
    BY <1>1, <1>4, <1>5, <1>6, <1>7, <1>8, Zenon DEF ManagerInv, ManagerType

(* ~ServerManager signals the wake-up event, which is notified.            *)
LEMMA WakeUpServerPreserves ==
    ASSUME ManagerInv, WakeUpServer
    PROVE  ManagerInv'
<1>1. /\ server \in ServerRecords /\ session \in SessionRecords /\ "wakeup" \in Holders /\ WaitInv
      /\ server' = SignalWakeup(server) /\ UNCHANGED <<session, registered>> /\ registered \in BOOLEAN
    BY Zenon DEF WakeUpServer, Holders, ManagerInv, ManagerType, sessionVars
<1>2. PICK w \in Holders \cup {NoHolder} :
          /\ SignalWakeup(server) = [server EXCEPT !.wakeup = TRUE, !.woken = w]
          /\ w # server.woken => /\ server.pc = "waiting" /\ server.woken = NoHolder /\ w = "wakeup"
                                 /\ "wakeup" \in Range(server.multiWait)
          /\ server.pc = "waiting" /\ server.woken = NoHolder /\ "wakeup" \in Range(server.multiWait)
             /\ ~server.wakeup => w = "wakeup"
    BY <1>1, SignalWakeupFacts, Zenon
<1>3. /\ server'.woken = w /\ server'.pc = server.pc /\ server'.multiWait = server.multiWait
      /\ server'.deferredList = server.deferredList /\ server'.replying = server.replying
      /\ server'.deferred = server.deferred /\ server'.deferral = server.deferral /\ server'.wakeup
    BY <1>1, <1>2 DEF ServerRecords
<1>4. server' \in ServerRecords
    BY <1>1, <1>2, ZenonT(20) DEF ServerRecords
<1>5. ListInv'
    BY <1>1, <1>3, ZenonT(30) DEF ManagerInv, ListInv, ToBeLinked, InHand, ServerAt
<1>6. WaitInv'
    <2>1. IsSignaled(server', session', "wakeup")
        BY <1>3, Zenon DEF IsSignaled
    <2>2. \A h \in Range(server.multiWait) \ {"wakeup"} :
              IsSignaled(server', session', h) <=> IsSignaled(server, session, h)
        BY <1>1, <1>3, Zenon DEF IsSignaled
    <2>3. server.pc = "waiting" /\ server'.woken = NoHolder => "wakeup" \notin Range(server.multiWait)
        BY <1>1, <1>2, <1>3, Zenon DEF NoHolder, WaitInv, ServerAt, IsSignaled
    <2>4. registered' /\ (server'.deferred \/ server.pc = "defer") => server'.deferral \/ server.pc = "deferral"
        BY <1>1, <1>3, Zenon DEF WaitInv, ServerAt
    <2>. QED
        BY <1>1, <1>2, <1>3, <2>1, <2>2, <2>3, <2>4, NotifiedWaitInv, Zenon
<1>7. EndsInv'
    BY <1>1, Zenon DEF ManagerInv, EndsInv
<1>8. HandInv'
    BY <1>1, <1>3, Zenon DEF ManagerInv, HandInv, InHand, ServerAt
<1>. QED
    BY <1>1, <1>4, <1>5, <1>6, <1>7, <1>8, ZenonT(20) DEF ManagerInv, ManagerType

(* SuspendEmulation asks the manager to stop, or does not.                 *)
LEMMA SuspendEmulationPreserves ==
    ASSUME ManagerInv, NEW from, NEW pc, NEW suspended, SuspendEmulation(from, pc, suspended)
    PROVE  ManagerInv'
<1>1. (pc = "stop") \in BOOLEAN
    OBVIOUS
<1>2. PICK stop \in BOOLEAN : /\ server' = [server EXCEPT !.stop = stop]
                              /\ UNCHANGED <<session, registered>>
    BY <1>1, Zenon DEF SuspendEmulation, sessionVars
<1>3. /\ server \in ServerRecords /\ session \in SessionRecords /\ registered \in BOOLEAN
      /\ ListInv /\ WaitInv /\ EndsInv /\ HandInv
    BY DEF ManagerInv, ManagerType
<1>4. server' \in ServerRecords
    BY <1>2, <1>3 DEF ServerRecords
<1>5. /\ server'.woken = server.woken /\ server'.pc = server.pc /\ server'.multiWait = server.multiWait
      /\ server'.deferredList = server.deferredList /\ server'.replying = server.replying
      /\ server'.deferred = server.deferred /\ server'.deferral = server.deferral
      /\ server'.wakeup = server.wakeup
    BY <1>2, <1>3 DEF ServerRecords
<1>6. ListInv'
    BY <1>2, <1>3, <1>5 DEF ListInv, ToBeLinked, InHand, ServerAt
<1>7. WaitInv'
    BY <1>2, <1>3, <1>5 DEF WaitInv, ServerAt, IsSignaled
<1>8. EndsInv'
    BY <1>2, <1>3 DEF EndsInv
<1>9. HandInv'
    BY <1>2, <1>3, <1>5 DEF HandInv, InHand, ServerAt
<1>. QED
    BY <1>2, <1>3, <1>4, <1>6, <1>7, <1>8, <1>9, ZenonT(20) DEF ManagerInv, ManagerType

(* The host destroys the session when the manager has stopped.             *)
LEMMA CleanUpSessionsPreserves ==
    ASSUME ManagerInv, CleanUpSessions
    PROVE  ManagerInv'
<1>1. PICK s \in {session.server, "destroyed"} :
          /\ session' = [session EXCEPT !.server = s] /\ UNCHANGED <<server, registered>>
          /\ server.pc = "stopped" /\ (s # session.server => session.server = "open")
    BY DEF CleanUpSessions, ServerAt, ManagerInv, ManagerType, SessionRecords
<1>2. session' \in SessionRecords
    BY <1>1, Zenon DEF ManagerInv, ManagerType, SessionRecords
<1>3. ListInv'
    BY <1>1 DEF ManagerInv, ListInv, ServerAt
<1>4. WaitInv'
    BY <1>1 DEF ManagerInv, WaitInv, ServerAt
<1>5. EndsInv'
    BY <1>1, Zenon DEF ManagerInv, ManagerType, SessionRecords, EndsInv, IsClosed
<1>6. HandInv'
    BY <1>1, Zenon DEF ManagerInv, HandInv, InHand, ServerAt
<1>. QED
    BY <1>1, <1>2, <1>3, <1>4, <1>5, <1>6 DEF ManagerInv, ManagerType

(* The rest of the system does not touch the manager and the session.      *)
LEMMA ElsewherePreserves ==
    ASSUME ManagerInv, UNCHANGED <<server, session, registered>>
    PROVE  ManagerInv'
BY ZenonT(20) DEF ManagerInv, ManagerType, ListInv, ToBeLinked, InHand, WaitInv, EndsInv, HandInv,
   ServerAt, IsClosed

-----------------------------------------------------------------------------
(* The manager's invariant.                                                *)

(* The manager begins with its three holders in the deferred list.         *)
LEMMA InitManagerInv ==
    ASSUME Init
    PROVE  ManagerInv
<1>1. server = [pc |-> "link", multiWait |-> <<>>, deferredList |-> <<"wakeup", "deferral", "port">>,
                woken |-> NoHolder, wakeup |-> TRUE, deferral |-> FALSE, deferred |-> FALSE,
                retry |-> FALSE, replying |-> Null, closing |-> FALSE, stop |-> FALSE]
    BY Zenon DEF Init
<1>2. <<"wakeup", "deferral", "port">> \in Seq(Holders) /\ <<>> \in Seq(Holders) /\ <<>> \in Seq(Threads)
    BY SMTT(20), Z3T(20) DEF Holders
<1>3. server \in ServerRecords
    BY <1>1, <1>2, Zenon DEF ServerRecords
<1>4. ManagerType
    BY <1>2, <1>3, Zenon DEF Init, SessionInit, ManagerType, SessionRecords
<1>5. IsInjective(<<"wakeup", "deferral", "port">>)
      /\ Range(<<"wakeup", "deferral", "port">>) = {"wakeup", "deferral", "port"}
    BY SMTT(20), Z3T(20) DEF IsInjective, Range
<1>6. IsInjective(<<>>) /\ Range(<<>>) = {}
    BY EmptyFacts, Zenon
<1>7. ListInv
    BY <1>1, <1>5, <1>6, SMTT(20), Z3T(20) DEF ListInv, ToBeLinked, InHand, ServerAt, Holders, Init,
       SessionInit
<1>8. WaitInv
    <2>1. server.woken = NoHolder /\ server.pc = "link" /\ ~server.deferred
        BY <1>1, Zenon
    <2>. QED
        BY <2>1, Zenon DEF WaitInv, ServerAt
<1>9. EndsInv
    BY Zenon DEF EndsInv, Init, SessionInit, IsClosed
<1>10. HandInv
    BY <1>1, SMTT(20), Z3T(20) DEF HandInv, InHand, ServerAt, Init, SessionInit
<1>. QED
    BY <1>4, <1>7, <1>8, <1>9, <1>10 DEF ManagerInv

(* Every step of the manager's thread keeps its invariant.                 *)
LEMMA ServerStepManagerInv ==
    ASSUME ManagerInv, ServerStep
    PROVE  ManagerInv'
BY LinkDeferredPreserves, WaitAnyPreserves, WokenPreserves, ClearWakeupPreserves, OnPortEventPreserves,
   OnSessionEventPreserves, HandlerReturnsPreserves, HandlerDefersPreserves, KeepDeferredPreserves,
   HandlerTerminatesPreserves, HandlerTerminatedPreserves, SendReplyPreserves, ReplyEndsPreserves,
   DestroyedPreserves, OnDeferralEventPreserves, Zenon
   DEF ServerStep

(* Every step of the host keeps the manager's invariant.                   *)
LEMMA HostStepManagerInv ==
    ASSUME ManagerInv, HostStep
    PROVE  ManagerInv'
<1>1. CASE \E from, pc, suspended : SuspendEmulation(from, pc, suspended)
    BY <1>1, SuspendEmulationPreserves
<1>2. CASE WakeUpServer \/ CleanUpSessions
    BY <1>2, WakeUpServerPreserves, CleanUpSessionsPreserves, Zenon
<1>3. CASE TerminateAllProcesses \/ HostDown
    BY <1>3, ElsewherePreserves, Zenon DEF TerminateAllProcesses, HostDown, sessionVars
<1>. QED
    BY <1>1, <1>2, <1>3, Zenon DEF HostStep, HostGoesOn

(* Every step of a thread of the process keeps the manager's invariant.    *)
LEMMA CallManagerInv ==
    ASSUME ManagerInv, NEW t \in Threads, Call(t) \/ KernelStep(t) \/ ExitThread(t)
    PROVE  ManagerInv'
<1>1. CASE UNCHANGED sessionVars /\ Elsewhere
    BY <1>1, ElsewherePreserves, Zenon DEF sessionVars, Elsewhere
<1>2. CASE SendSyncRequest(t) /\ Elsewhere
    BY <1>2, ElsewherePreserves, Zenon DEF SendSyncRequest, sessionVars, Elsewhere
<1>3. CASE Return(t) /\ Elsewhere
    BY <1>3, ElsewherePreserves, Zenon DEF Return, sessionVars, Elsewhere
<1>4. CASE ConnectToPort(t) \/ Request(t)
    BY <1>4, ConnectToPortPreserves, RequestPreserves, Zenon
<1>. QED
    BY <1>1, <1>2, <1>3, <1>4, Zenon DEF Call, KernelStep, ExitThread

(* Every step keeps the manager's invariant.                               *)
LEMMA NextManagerInv ==
    ASSUME ManagerInv, [Next]_vars
    PROVE  ManagerInv'
<1>1. CASE UNCHANGED sessionVars /\ Elsewhere
    BY <1>1, ElsewherePreserves DEF sessionVars, Elsewhere
<1>2. CASE \E t \in Threads : Call(t) \/ KernelStep(t) \/ ExitThread(t)
    BY <1>2, CallManagerInv, Zenon
<1>3. CASE DestroyClient
    BY <1>3, ClientClosingPreserves, ClientClosedPreserves, OnClientClosedPreserves,
       Zenon DEF DestroyClient
<1>4. CASE DestroyServer
    BY <1>4, ServerClosingPreserves, ServerClosedPreserves, CleanupRequestPreserves,
       Zenon DEF DestroyServer
<1>5. CASE ServerStep \/ RegisterService \/ HostStep
    BY <1>5, ServerStepManagerInv, RegisterServicePreserves, HostStepManagerInv, Zenon
<1>6. CASE UNCHANGED vars
    BY <1>6, ElsewherePreserves, Zenon DEF vars, sessionVars
<1>. QED
    BY <1>1, <1>2, <1>3, <1>4, <1>5, <1>6, Zenon DEF Next, WorkerStep, TerminateStep

-----------------------------------------------------------------------------
INSTANCE FiniteSetTheorems

(* An injective sequence has each of its elements at one place.            *)
LEMMA Places ==
    ASSUME NEW s, IsInjective(s), NEW h
    PROVE  Cardinality({i \in DOMAIN s : s[i] = h}) = One(h \in Range(s))
<1>1. CASE h \in Range(s)
    <2>1. PICK k \in DOMAIN s : s[k] = h
        BY <1>1, Zenon DEF Range
    <2>2. {i \in DOMAIN s : s[i] = h} = {k}
        BY <2>1, Zenon DEF IsInjective
    <2>. QED
        BY <1>1, <2>2, FS_Singleton, ZenonT(20) DEF One
<1>2. CASE h \notin Range(s)
    <2>1. {i \in DOMAIN s : s[i] = h} = {}
        BY <1>2, Zenon DEF Range
    <2>. QED
        BY <1>2, <2>1, FS_EmptySet, Zenon DEF One
<1>. QED
    BY <1>1, <1>2, Zenon

(* Finite sets are counted so.                                             *)
LEMMA CountingHolds == Counting
<1>1. IsFiniteSet(Threads)
    BY ProcessAssumption, Zenon
<1>2. SUFFICES ASSUME NEW S \in SUBSET Threads
               PROVE  /\ Cardinality(S) \in Nat /\ (Cardinality(S) = 0 <=> S = {})
                      /\ \A t \in Threads \ S : Cardinality(S \cup {t}) = Cardinality(S) + 1
                      /\ \A t \in S : Cardinality(S \ {t}) = Cardinality(S) - 1
    BY Zenon DEF Counting
<1>3. IsFiniteSet(S)
    BY <1>1, FS_Subset, ZenonT(20)
<1>4. Cardinality(S) \in Nat
    BY <1>3, FS_CardinalityType, Zenon
<1>5. Cardinality(S) = 0 <=> S = {}
    BY <1>3, FS_EmptySet, Zenon
<1>6. ASSUME NEW t \in Threads \ S
      PROVE  Cardinality(S \cup {t}) = Cardinality(S) + 1
    BY <1>3, FS_AddElement, Zenon
<1>7. ASSUME NEW t \in S
      PROVE  Cardinality(S \ {t}) = Cardinality(S) - 1
    BY <1>3, FS_RemoveElement, Zenon
<1>. QED
    BY <1>4, <1>5, <1>6, <1>7, ZenonT(30)

(* The two invariants hold together.                                       *)
THEOREM ServerInvariant == Spec => [](ManagerInv /\ ProcessInv)
<1>1. Init => ManagerInv /\ ProcessInv
    BY InitManagerInv, InitProcessInv, CountingHolds, Zenon
<1>2. ManagerInv /\ ProcessInv /\ [Next]_vars => ManagerInv' /\ ProcessInv'
    BY NextManagerInv, NextProcessInv, Zenon
<1>. QED
    BY <1>1, <1>2, PTL DEF Spec

(* The manager does not sleep over what it should see: with any number of  *)
(* threads, whatever they, the worker, the terminator and the host do      *)
(* while its thread unlinks, serves and links its holders, each is linked  *)
(* once or served, none that is signaled is slept over, and no deferred    *)
(* request is forgotten once its service is registered.                    *)
THEOREM ServerNothingMissed == Spec => []NothingMissed
<1>1. ASSUME ManagerInv PROVE NothingMissed
    <2>. DEFINE linked == server.multiWait \o server.deferredList
    <2>1. /\ server.multiWait \in Seq(Holders) /\ server.deferredList \in Seq(Holders)
          /\ IsInjective(server.multiWait) /\ IsInjective(server.deferredList)
          /\ Range(server.multiWait) \cap Range(server.deferredList) = {}
        BY <1>1, ZenonT(30) DEF ManagerInv, ManagerType, ServerRecords, ListInv
    <2>2. IsInjective(linked) /\ Range(linked) = Range(server.multiWait) \cup Range(server.deferredList)
        BY <2>1, ConcatFacts, SMTT(20), Z3T(20)
    <2>3. ASSUME ~ServerAt("stopped"), NEW h \in Holders
          PROVE  Cardinality({i \in DOMAIN linked : linked[i] = h}) = One(ToBeLinked(h))
        <3>1. ToBeLinked(h) <=> h \in Range(linked)
            BY <1>1, <2>2, <2>3, Zenon DEF ManagerInv, ListInv
        <3>2. Cardinality({i \in DOMAIN linked : linked[i] = h}) = One(h \in Range(linked))
            BY <2>2, Places, Zenon
        <3>. QED
            BY <3>1, <3>2, Zenon DEF One
    <2>4. ASSUME NEW h \in Holders
          PROVE  One(ToBeLinked(h)) = CASE h = "wakeup" -> 1
                    [] h \in {"port", "deferral"} -> One(~ServerAt(h))
                    [] OTHER -> One(session.server = "open" /\ ~session.pending
                                    /\ ~server.deferred /\ ~InHand)
        BY DEF Holders, ToBeLinked, One
    <2>5. ~ServerAt("stopped") => \A h \in Holders :
              Cardinality({i \in DOMAIN linked : linked[i] = h}) =
                  CASE h = "wakeup" -> 1
                    [] h \in {"port", "deferral"} -> One(~ServerAt(h))
                    [] OTHER -> One(session.server = "open" /\ ~session.pending
                                    /\ ~server.deferred /\ ~InHand)
        BY <2>3, <2>4, Zenon
    <2>. QED
        BY <1>1, <2>5, ZenonT(20) DEF NothingMissed, ManagerInv, WaitInv, InHand
<1>. QED
    BY <1>1, ServerInvariant, PTL

(* Every object has exactly the references of those who hold one: with any *)
(* number of threads, a thread is never destroyed under those that create, *)
(* start or terminate it or under its request, nor the client session      *)
(* under a sender, and neither outlives the last of them, whoever of the   *)
(* threads, the worker, the server and the terminator closes last.  The    *)
(* pointer to the thread that HLERequestContext keeps without a reference  *)
(* is not covered.                                                         *)
THEOREM ServerReferencesExact == Spec => []ReferencesExact
<1>1. ASSUME ManagerInv, ProcessInv PROVE ReferencesExact
    <2>1. running \in 0..Cardinality(Threads)
        <3>1. Runners \subseteq Threads /\ IsFiniteSet(Threads)
            BY ProcessAssumption, Zenon DEF Runners
        <3>2. /\ Cardinality(Runners) \in Nat /\ Cardinality(Threads) \in Nat
              /\ Cardinality(Runners) <= Cardinality(Threads)
            BY <3>1, FS_Subset, FS_CardinalityType, ZenonT(20)
        <3>3. running = Cardinality(Runners)
            BY <1>1, Zenon DEF ProcessInv, RunningInv
        <3>. QED
            BY <3>2, <3>3, SMTT(20), Z3T(20)
    <2>2. \A t \in Threads : /\ thread[t].state \in {"None", "Initialized", "Runnable", "Waiting", "Terminated"}
                              /\ thread[t].suspended \in {"no", "yes", "never"}
                              /\ request[t].refs \in 0..2
        BY <1>1, ProcessFacts, ZenonT(20) DEF ThreadRecords
    <2>3. /\ process \in {"Created", "Running", "Terminating", "Terminated"} /\ refs \in [Objects -> Nat]
          /\ table.entries \cup table.closing \subseteq Objects /\ tasks \in Seq(Threads)
          /\ term.by \in Threads \cup {Server, Host, Null}
          /\ destroying \in Threads \cup {Server, Host, Null}
        BY <1>1, ProcessFacts, ZenonT(20)
    <2>4. /\ session.list \in Seq(Threads) /\ session.current \in Threads \cup {Null}
          /\ server.woken \in Holders \cup {NoHolder} /\ registered \in BOOLEAN
        BY <1>1, ZenonT(20) DEF ManagerInv, ManagerType, SessionRecords, ServerRecords
    <2>5. TypeOK
        BY <2>1, <2>2, <2>3, <2>4, ZenonT(20) DEF TypeOK
    <2>. QED
        BY <1>1, <2>5, ProcessFacts, ZenonT(20) DEF ReferencesExact, RefsInv, Held, ClientHeld,
           Users, Senders, Handled, Runs
<1>. QED
    BY <1>1, ServerInvariant, PTL

(* A thread that waits for a reply has its request in exactly one place    *)
(* from which it will be ended, and what the manager's thread asserts of   *)
(* the session and of its port holds when it runs.                         *)
THEOREM ServerRequestTracked == Spec => []RequestTracked
<1>1. ASSUME ManagerInv, ProcessInv PROVE RequestTracked
    <2>1. ASSUME NEW t \in Threads, thread[t].pc = "waiting"
          PROVE  /\ Cardinality({i \in DOMAIN session.list : session.list[i] = t})
                    + One(session.current = t) + One(server.replying = t) = 1
                 /\ session.server # "closed"
        <3>1. InSession(t) /\ IsInjective(session.list)
            BY <1>1, <2>1, ProcessFacts, Zenon DEF RequestInv, RequestOf
        <3>2. /\ session.current \notin Range(session.list) /\ server.replying \notin Range(session.list)
              /\ session.current # Null => session.current # server.replying
            BY <1>1, ProcessFacts, Zenon DEF RequestInv
        <3>3. Cardinality({i \in DOMAIN session.list : session.list[i] = t}) = One(t \in Range(session.list))
            BY <3>1, Places, Zenon
        <3>4. One(t \in Range(session.list)) + One(session.current = t) + One(server.replying = t) = 1
            BY <3>1, <3>2, ThreadsApart, SMTT(20), Z3T(20) DEF InSession, One
        <3>5. session.server # "closed"
            <4>1. CASE t \in Range(session.list)
                BY <1>1, <4>1, EmptyFacts, ZenonT(20) DEF ManagerInv, EndsInv
            <4>2. CASE t = session.current
                BY <1>1, <4>2, ThreadsApart, ZenonT(20) DEF ManagerInv, EndsInv
            <4>3. CASE t = server.replying
                BY <1>1, <4>3, ThreadsApart, ZenonT(20) DEF ManagerInv, HandInv, InHand, ServerAt
            <4>. QED
                BY <3>1, <4>1, <4>2, <4>3, ZenonT(20) DEF InSession
        <3>. QED
            BY <3>3, <3>4, <3>5, Zenon
    <2>. QED
        BY <1>1, <2>1, ZenonT(20) DEF RequestTracked, ManagerInv, HandInv
<1>. QED
    BY <1>1, ServerInvariant, PTL

(* KProcess::Terminate leaves no thread but its own, and no handle, even   *)
(* if threads are created while it goes through the list; and nobody asks  *)
(* the thread that terminates the process to terminate.                    *)
THEOREM ServerTerminationComplete == Spec => []TerminationComplete
<1>1. ASSUME ProcessInv PROVE TerminationComplete
    <2>1. ASSUME process = "Terminated"
          PROVE  /\ \A t \in ThreadList \ {term.by} : thread[t].state = "Terminated"
                 /\ table.entries \cup table.closing = {}
        BY <1>1, <2>1, ProcessFacts, Zenon DEF TermInv, TableInv, ThreadList
    <2>2. term.by \in Threads => ~thread[term.by].requested
        BY <1>1, ProcessFacts, Zenon DEF TermInv
    <2>. QED
        BY <2>1, <2>2, Zenon DEF TerminationComplete
<1>. QED
    BY <1>1, ServerInvariant, PTL
===============================================================================
