----------------------------- MODULE WhatsAppProofs -----------------------------
(***************************************************************************)
(* Proofs about WhatsAppBridge and WhatsAppMessages, for any number of     *)
(* session objects, requests, attempts, events and scenarios:              *)
(*                                                                         *)
(*   TypesHold          the types                                          *)
(*   SocketStaysOne     one socket to a session (OneSocket)                *)
(*   CredentialsStay    nothing but the phone, the owner or an overlap of  *)
(*                      starts ends a paired session (CredentialsKept)     *)
(*   DeliveriesStay     deliveries within the attempts (DeliveriesCounted) *)
(*                                                                         *)
(* OneSocket is not inductive.  Whatever may become a socket of its own    *)
(* accord (a call of startSession, a reconnect timer, a logout that may    *)
(* break, a socket whose logout failed) must be the only one of its kind,  *)
(* and must find the map's entry empty when it gets there: Alone.          *)
(***************************************************************************)
EXTENDS WhatsAppMessages, TLAPS, FiniteSetTheorems

-----------------------------------------------------------------------------
\* A socket that the map does not know: its logout failed.
Astray(s) == Live(s) /\ s # current

\* Objects that are over but not forgotten: a logout in progress, a timer set, or astray.
Pending(s) == session[s].link = "leaving" \/ session[s].retry \/ Astray(s)

\* A timer belongs to a closed object.
TimersOfClosed == \A s \in Socks : session[s].retry =>
  session[s].link = "closed" /\ session[s].tries < MaxReconnectAttempts

\* A code is shown for an object without credentials.
CodesUnpaired == \A s \in Socks : session[s].qrs > 0 => ~session[s].creds

\* A call of startSession in flight has a number of tries.
StartsCounted == \A k \in Starters : Starting(k) => starts[k].tries \in 0..MaxReconnectAttempts

Bookkeeping == TimersOfClosed /\ CodesUnpaired /\ StartsCounted

\* What may still become a socket is alone.
LiveIsCurrent == \A s \in Socks : Live(s) => s = current \/ lost = "logout"
StartIsAlone ==
  \A k \in Starters : Starting(k) =>
    /\ current = NoSock
    /\ \A j \in Starters : Starting(j) => j = k
    /\ \A s \in Socks : ~Pending(s)
PendingIsAlone ==
  \A s \in Socks : Pending(s) =>
    /\ \A t \in Socks : Pending(t) => t = s
    /\ s # current \/ session[s].link = "leaving" =>
         removal # "idle" /\ files = "none" /\ current = NoSock
Alone == LiveIsCurrent /\ StartIsAlone /\ PendingIsAlone

\* Paired credentials are known to every socket that opens, unless they are being deleted.
CredentialsRead ==
  files = "paired" =>
    /\ \A s \in Socks : session[s].link = "opening" => session[s].creds
    /\ \A k \in Starters : Starting(k) => starts[k].creds

BridgeInv == Bookkeeping /\ (raced \/ (Alone /\ CredentialsRead))

-----------------------------------------------------------------------------
(* The reply. *)

\* Calls of the bridge that may still deliver.
OpenCalls == {n \in Attempts : calls[n] # "none"}
\* The outbox has counted an attempt that the bridge has not heard of.
Unheard == IF box = "posting" /\ calls[reply.attempts] = "none" THEN 1 ELSE 0

BeforeReply ==
  message # "done" => reply = NoReply /\ delivered = 0 /\ OpenCalls = {} /\ box = "idle"
TaskHasMessage == task.at # "idle" => message = "processing"
EachCounted == delivered + Cardinality(OpenCalls) + Unheard <= reply.attempts
SentIsDelivered == box = "sent" \/ reply.status = "sent" => delivered > 0
PostingHasAttempt == box # "idle" => reply.attempts \in Attempts

MessageInv ==
  BeforeReply /\ TaskHasMessage /\ EachCounted /\ SentIsDelivered /\ PostingHasAttempt

-----------------------------------------------------------------------------
(* What the operators on session objects do. *)

LEMMA FreeIsSession == Free \in Session /\ Free.link = "closed" /\ ~Free.retry
                       /\ Free.qrs = 0 /\ Free.tries = 0
  BY BridgeConstants DEF Free, Session

LEMMA NotStartingIsStart == NotStarting \in Start
  BY BridgeConstants DEF NotStarting, Start

LEMMA SweptKeeps ==
  ASSUME NEW objects \in [Socks -> Session], NEW entry
  PROVE  /\ Swept(objects, entry) \in [Socks -> Session]
         /\ \A s \in Socks : Swept(objects, entry)[s] \in {objects[s], Free}
  BY FreeIsSession DEF Swept

LEMMA BecomesDoes ==
  ASSUME SessionTypeOK, NEW s \in Socks, NEW change \in Session, NEW entry, NEW status,
         Becomes(s, change, entry, status)
  PROVE  /\ session' \in [Socks -> Session]
         /\ \A t \in Socks : session'[t] \in {IF t = s THEN change ELSE session[t], Free}
         /\ current' = entry
         /\ reports' = reports \cup {status}
  <1>1. [session EXCEPT ![s] = change] \in [Socks -> Session]
    BY DEF SessionTypeOK
  <1>2. QED BY <1>1, SweptKeeps DEF Becomes, SessionTypeOK

\* The object after its socket was closed for good, or to be started again.
Disconnected(s) == [session[s] EXCEPT !.link = "closed", !.qrs = 0, !.retry = TRUE]

LEMMA DisconnectedIs ==
  ASSUME SessionTypeOK, NEW s \in Socks
  PROVE  /\ Disconnected(s) \in Session
         /\ Disconnected(s).link = "closed" /\ Disconnected(s).retry /\ Disconnected(s).qrs = 0
         /\ Disconnected(s).tries = session[s].tries /\ Disconnected(s).creds = session[s].creds
  <1>1. session[s] \in Session
    BY DEF SessionTypeOK
  <1> DEFINE one == [session[s] EXCEPT !.link = "closed"]
             two == [one EXCEPT !.qrs = 0]
             three == [two EXCEPT !.retry = TRUE]
  <1>2. /\ one \in Session /\ one.link = "closed"
        /\ one.tries = session[s].tries /\ one.creds = session[s].creds
    BY <1>1 DEF Session
  <1> HIDE DEF one
  <1>3. /\ two \in Session /\ two.link = "closed" /\ two.qrs = 0
        /\ two.tries = session[s].tries /\ two.creds = session[s].creds
    BY <1>2, BridgeConstants DEF Session
  <1> HIDE DEF two
  <1>4. /\ three \in Session /\ three.link = "closed" /\ three.qrs = 0 /\ three.retry
        /\ three.tries = session[s].tries /\ three.creds = session[s].creds
    BY <1>3 DEF Session
  <1>5. Disconnected(s) = three
    BY DEF Disconnected, one, two
  <1>6. QED BY <1>4, <1>5

LEMMA ClosedDoes ==
  ASSUME SessionTypeOK, NEW s \in Socks, NEW loggedOut \in BOOLEAN, Closed(s, loggedOut)
  PROVE  /\ session' \in [Socks -> Session]
         /\ reports' = reports \cup {"over"}
         /\ \/ /\ ~loggedOut /\ session[s].tries < MaxReconnectAttempts
               /\ \A t \in Socks : session'[t] \in {IF t = s THEN Disconnected(s) ELSE session[t], Free}
               /\ current' = current /\ files' = files
            \/ /\ \A t \in Socks : session'[t] \in {IF t = s THEN Free ELSE session[t], Free}
               /\ current' = NoSock
               /\ files' = IF loggedOut THEN "none" ELSE files
  <1>1. CASE ~loggedOut /\ session[s].tries < MaxReconnectAttempts
    <2>1. Becomes(s, Disconnected(s), current, "over") /\ files' = files
      BY <1>1 DEF Closed, Disconnected
    <2>2. QED BY <1>1, <2>1, BecomesDoes, DisconnectedIs
  <1>2. CASE ~(~loggedOut /\ session[s].tries < MaxReconnectAttempts)
    <2>1. /\ Becomes(s, Free, NoSock, "over")
          /\ files' = IF loggedOut THEN "none" ELSE files
      BY <1>2 DEF Closed
    <2>2. QED BY <2>1, BecomesDoes, FreeIsSession
  <1>3. QED BY <1>1, <1>2

LEMMA ExpiredDoes ==
  ASSUME SessionTypeOK, NEW s \in Socks, Expired(s)
  PROVE  /\ session' \in [Socks -> Session]
         /\ \A t \in Socks : session'[t] \in {IF t = s THEN Free ELSE session[t], Free}
         /\ current' = NoSock
         /\ files' = "none"
         /\ reports' = reports \cup {"over"}
  BY BecomesDoes, FreeIsSession DEF Expired

\* The call that begins.
NewStart(n) == [tries |-> n, creds |-> files = "paired"]

LEMMA BeginDoes ==
  ASSUME SessionTypeOK, NEW k \in Starters, Begin(k, 0)
  PROVE  /\ session' \in [Socks -> Session]
         /\ \A t \in Socks : \/ session'[t] = Free
                             \/ session'[t] = session[t] /\ t # current
                             \/ t = current /\ session'[t] = [session[t] EXCEPT !.retry = FALSE]
         /\ current' = NoSock
         /\ ~Starting(k)
         /\ starts' = [starts EXCEPT ![k] = NewStart(0)]
         /\ files' = IF files = "none" THEN "empty" ELSE files
  <1> DEFINE objects == [s \in Socks |-> IF s = current THEN [session[s] EXCEPT !.retry = FALSE]
                                         ELSE session[s]]
  <1>1. objects \in [Socks -> Session]
    BY DEF SessionTypeOK, Session
  <1>2. session' = Swept(objects, NoSock)
    BY DEF Begin
  <1>3. /\ session' \in [Socks -> Session]
        /\ \A t \in Socks : session'[t] \in {objects[t], Free}
    BY <1>1, <1>2, SweptKeeps
  <1>4. QED BY <1>3 DEF Begin, NewStart

LEMMA RetryDoes ==
  ASSUME SessionTypeOK, NEW s \in Socks, Retry(s)
  PROVE  /\ session[s].retry
         /\ session' \in [Socks -> Session]
         /\ \A t \in Socks : session'[t] \in
              {IF t = s THEN [session[s] EXCEPT !.retry = FALSE] ELSE session[t], Free}
         /\ current' = NoSock
         /\ starts' = [starts EXCEPT !["retry"] = NewStart(session[s].tries + 1)]
         /\ files' = IF files = "none" THEN "empty" ELSE files
         /\ ~Starting("retry")
         /\ raced' = (raced \/ SomeStart)
         /\ UNCHANGED <<reports, rowVars, lost, events, scenario>>
  <1> DEFINE objects == [session EXCEPT ![s].retry = FALSE]
  <1>1. objects \in [Socks -> Session]
    BY DEF SessionTypeOK, Session
  <1>2. session' = Swept(objects, NoSock)
    BY DEF Retry
  <1>3. /\ session' \in [Socks -> Session]
        /\ \A t \in Socks : session'[t] \in {objects[t], Free}
    BY <1>1, <1>2, SweptKeeps
  <1>4. QED BY <1>3 DEF Retry, NewStart, SessionTypeOK

\* The object that startSession makes.
NewSession(k) == [tries |-> starts[k].tries, qrs |-> 0, creds |-> starts[k].creds,
                  retry |-> FALSE, link |-> "opening"]

LEMMA EnterDoes ==
  ASSUME SessionTypeOK, StartsCounted, NEW k \in Starters, Enter(k)
  PROVE  \E s \in Socks :
           /\ session' \in [Socks -> Session]
           /\ \A t \in Socks : session'[t] \in {IF t = s THEN NewSession(k) ELSE session[t], Free}
           /\ current' = s
  <1>1. PICK s \in Socks :
          /\ current' = s
          /\ session' = Swept([session EXCEPT ![s] = NewSession(k)], s)
    BY DEF Enter, NewSession
  <1>2. NewSession(k) \in Session
    BY BridgeConstants DEF StartsCounted, Enter, NewSession, Session, SessionTypeOK, Start
  <1>3. [session EXCEPT ![s] = NewSession(k)] \in [Socks -> Session]
    BY <1>2 DEF SessionTypeOK
  <1>4. QED BY <1>1, <1>3, SweptKeeps DEF SessionTypeOK

\* The logout leaves the other objects alone, and the entry's object a socket that leaves,
\* or that goes on because the logout failed.
LEMMA LogoutDoes ==
  ASSUME SessionTypeOK, Logout
  PROVE  /\ session' \in [Socks -> Session]
         /\ \A t \in Socks : t # current => session'[t] = session[t]
         /\ current # NoSock =>
              \/ session'[current] = Free
              \/ /\ session[current].link # "closed"
                 /\ session'[current].qrs = 0
                 /\ session'[current].retry = session[current].retry
                 /\ \/ session'[current].link = "leaving"
                    \/ session'[current].link = session[current].link /\ lost' = "logout"
         /\ lost' \in {lost, "logout"}
  <1>1. current # NoSock => current \in Socks /\ session[current] \in Session
    BY DEF SessionTypeOK
  <1>2. ASSUME NEW link \in {"opening", "paired", "open", "leaving"},
               current # NoSock, session[current].link # "closed"
        PROVE  /\ Left(current, link) \in Session
               /\ Left(current, link).qrs = 0 /\ Left(current, link).link = link
               /\ Left(current, link).retry = session[current].retry
    <2> DEFINE one == [session[current] EXCEPT !.link = link]
               two == [one EXCEPT !.qrs = 0]
    <2>1. one \in Session /\ one.link = link /\ one.retry = session[current].retry
      BY <1>1, <1>2 DEF Session
    <2> HIDE DEF one
    <2>2. two \in Session /\ two.link = link /\ two.qrs = 0 /\ two.retry = session[current].retry
      BY <2>1, BridgeConstants DEF Session
    <2>3. Left(current, link) = two
      BY <1>2 DEF Left, one
    <2>4. QED BY <2>2, <2>3
  <1>3. ASSUME NEW object \in Session, current # NoSock,
               session' = [session EXCEPT ![current] = object]
        PROVE  /\ session' \in [Socks -> Session]
               /\ \A t \in Socks : t # current => session'[t] = session[t]
               /\ session'[current] = object
    BY <1>1, <1>3 DEF SessionTypeOK
  <1>4. CASE session' = session /\ current = NoSock /\ UNCHANGED lost
    BY <1>4 DEF SessionTypeOK
  <1>5. CASE /\ current # NoSock /\ session[current].link = "closed"
             /\ session' = [session EXCEPT ![current] = Left(current, "leaving")]
             /\ UNCHANGED lost
    <2>1. Left(current, "leaving") = Free
      BY <1>5 DEF Left
    <2>2. QED BY <1>3, <1>5, <2>1, FreeIsSession
  <1>6. CASE /\ current # NoSock /\ session[current].link # "closed"
             /\ session' = [session EXCEPT ![current] = Left(current, "leaving")]
             /\ UNCHANGED lost
    BY <1>2, <1>3, <1>6
  <1>7. CASE /\ current # NoSock /\ session[current].link # "closed"
             /\ session' = [session EXCEPT ![current] = Left(current, session[current].link)]
             /\ lost' = "logout"
    <2>1. session[current].link \in {"opening", "paired", "open", "leaving"}
      BY <1>1, <1>7 DEF Session
    <2>2. QED BY <1>2, <1>3, <1>7, <2>1
  <1>8. QED BY <1>4, <1>5, <1>6, <1>7, <1>1 DEF Logout

LEMMA BridgeRestartsDoes ==
  ASSUME BridgeRestarts
  PROVE  /\ session' = [s \in Socks |-> Free]
         /\ current' = NoSock
         /\ \A k \in Starters : starts'[k] \in
              {NotStarting, IF k = "restore" THEN NewStart(0) ELSE NotStarting}
         /\ starts' \in [Starters -> {NotStarting, NewStart(0)}]
         /\ reports' \in {{}, reports}
         /\ row' \in {row, "error"}
         /\ click' \in {click, "idle"}
         /\ UNCHANGED <<files, removal, poll, page, clicked, raced, lost, scenario>>
         /\ Spend("restart")
  BY DEF BridgeRestarts, NewStart

-----------------------------------------------------------------------------
(* Types. *)

LEMMA BridgeStart == Init => SessionTypeOK /\ BridgeInv
  <1> SUFFICES ASSUME Init PROVE SessionTypeOK /\ BridgeInv
    OBVIOUS
  <1>1. SessionTypeOK
    <2>1. session \in [Socks -> Session]
      BY FreeIsSession DEF Init, SessionInit
    <2>2. starts \in [Starters -> Start]
      BY NotStartingIsStart DEF Init, SessionInit
    <2>3. events \in 0..MaxEvents
      BY BridgeConstants DEF Init, SessionInit
    <2>4. row \in RowStatus /\ poll \in Poll
      BY DEF Init, SessionInit, RowStatus, Reported, NoPoll, Poll
    <2>5. QED BY <2>1, <2>2, <2>3, <2>4 DEF Init, SessionInit, SessionTypeOK
  <1>2. Bookkeeping
    BY FreeIsSession DEF Init, SessionInit, Bookkeeping, TimersOfClosed, CodesUnpaired,
       StartsCounted, Starting
  <1>3. Alone /\ CredentialsRead
    BY FreeIsSession DEF Init, SessionInit, Alone, LiveIsCurrent, StartIsAlone, PendingIsAlone,
       CredentialsRead, Live, Astray, Pending, Starting
  <1>4. QED BY <1>1, <1>2, <1>3 DEF BridgeInv

\* The variables of a session step that are not the session itself.
LEMMA NewStartIsStart == \A n \in 0..MaxReconnectAttempts : NewStart(n) \in Start
  BY DEF NewStart, Start

LEMMA EventsBounded == SessionTypeOK => \A e : Spend(e) => events' \in 0..MaxEvents
  BY BridgeConstants DEF SessionTypeOK, Spend

\* Every step keeps the types of the session's variables.
LEMMA SessionTypesKept ==
  ASSUME SessionTypeOK, Bookkeeping, SessionStep
  PROVE  SessionTypeOK'
  <1> USE DEF RowStatus, Reported
  <1>1. ASSUME NEW k \in Starters, Enter(k) PROVE SessionTypeOK'
    <2>1. session' \in [Socks -> Session] /\ current' \in Socks
      BY <1>1, EnterDoes DEF Bookkeeping
    <2>2. starts' \in [Starters -> Start] /\ reports' \subseteq Reported
      BY <1>1, NotStartingIsStart DEF Enter, SessionTypeOK
    <2>3. click' \in {"idle", "posting", "calling"} /\ page' \in {"idle", "due", "asking"}
      BY <1>1 DEF Enter, Success, SessionTypeOK
    <2>4. QED BY <1>1, <2>1, <2>2, <2>3 DEF Enter, SessionTypeOK
  <1>2. ASSUME NEW s \in Socks, Open(s) PROVE SessionTypeOK'
    <2>1. [session[s] EXCEPT !.link = "open"] \in Session
      BY DEF SessionTypeOK, Session
    <2>2. Becomes(s, [session[s] EXCEPT !.link = "open"], current, "connected")
      BY <1>2 DEF Open
    <2>3. session' \in [Socks -> Session] /\ current' = current /\ reports' = reports \cup {"connected"}
      BY <2>1, <2>2, BecomesDoes
    <2>4. QED BY <1>2, <2>3 DEF Open, SessionTypeOK, rowVars
  <1>3. ASSUME NEW s \in Socks, NEW l \in BOOLEAN, Closed(s, l),
               UNCHANGED <<starts, rowVars, raced, lost, scenario>>, events' \in 0..MaxEvents
        PROVE  SessionTypeOK'
    <2>1. /\ session' \in [Socks -> Session]
          /\ current' \in Socks \cup {NoSock}
          /\ files' \in {"none", "empty", "paired"}
          /\ reports' \subseteq Reported
      BY <1>3, ClosedDoes DEF SessionTypeOK
    <2>2. QED BY <1>3, <2>1 DEF SessionTypeOK, rowVars
  <1>4. ASSUME NEW s \in Socks, ServerCloses(s) PROVE SessionTypeOK'
    BY <1>3, <1>4 DEF ServerCloses, SessionTypeOK
  <1>5. ASSUME NEW s \in Socks, ConnectionLost(s) PROVE SessionTypeOK'
    BY <1>3, <1>5, EventsBounded DEF ConnectionLost
  <1>6. ASSUME NEW s \in Socks, LoggedOut(s) PROVE SessionTypeOK'
    BY <1>3, <1>6, EventsBounded DEF LoggedOut
  <1>7. ASSUME NEW s \in Socks, Retry(s) PROVE SessionTypeOK'
    <2>1. session[s].tries + 1 \in 0..MaxReconnectAttempts
      BY <1>7, BridgeConstants DEF Retry, Bookkeeping, TimersOfClosed, SessionTypeOK, Session
    <2>2. starts' \in [Starters -> Start]
      <3>1. NewStart(session[s].tries + 1) \in Start
        BY <2>1, NewStartIsStart
      <3>2. starts' = [starts EXCEPT !["retry"] = NewStart(session[s].tries + 1)]
        BY <1>7, RetryDoes
      <3>3. QED BY <3>1, <3>2 DEF SessionTypeOK
    <2>3. session' \in [Socks -> Session]
      BY <1>7, RetryDoes
    <2>4. QED BY <1>7, <2>2, <2>3 DEF Retry, SessionTypeOK, rowVars
  <1>8. CASE ConnectExisting
    BY <1>8 DEF ConnectExisting, Success, SessionTypeOK, bridgeVars
  <1>9. CASE Connect
    <2>1. /\ session' \in [Socks -> Session]
          /\ current' = NoSock
          /\ starts' = [starts EXCEPT !["connect"] = NewStart(0)]
          /\ files' = IF files = "none" THEN "empty" ELSE files
      BY <1>9, BeginDoes DEF Connect, Starters
    <2>2. starts' \in [Starters -> Start]
      <3>1. NewStart(0) \in Start
        BY NewStartIsStart, BridgeConstants
      <3>2. QED BY <2>1, <3>1 DEF SessionTypeOK
    <2>3. QED BY <1>9, <2>1, <2>2 DEF Connect, SessionTypeOK
  <1>10. CASE RemoveRow
    BY <1>10 DEF RemoveRow, SessionTypeOK, bridgeVars
  <1>11. ASSUME NEW status \in Reported, Report(status) PROVE SessionTypeOK'
    BY <1>11, EventsBounded DEF Report, SessionTypeOK
  <1>12. CASE SessionStatus
    <2>1. CASE PollRead
      BY <2>1, EventsBounded DEF PollRead, Poll, SessionTypeOK, bridgeVars
    <2>2. CASE PollAsk
      <3>1. Shown \in {"starting", "over", "connected"}
        BY DEF Shown
      <3>2. poll' \in Poll
        BY <2>2, <3>1 DEF PollAsk, Poll, NoPoll
      <3>3. page' \in {"idle", "due", "asking"}
        BY <2>2 DEF PollAsk, Show, SessionTypeOK
      <3>4. QED BY <2>2, <3>2, <3>3 DEF PollAsk, SessionTypeOK, bridgeVars
    <2>3. CASE PollFails
      BY <2>3, EventsBounded DEF PollFails, Show, Poll, NoPoll, SessionTypeOK, bridgeVars
    <2>4. CASE PollWrite
      BY <2>4 DEF PollWrite, Show, Poll, NoPoll, SessionTypeOK, bridgeVars
    <2>5. QED BY <1>12, <2>1, <2>2, <2>3, <2>4 DEF SessionStatus
  <1>13. ASSUME NEW s \in Socks, Qr(s) PROVE SessionTypeOK'
    <2>1. CASE session[s].qrs + 1 > MaxQrAttempts
      BY <1>13, <2>1, ExpiredDoes DEF Qr, SessionTypeOK, rowVars
    <2>2. CASE ~(session[s].qrs + 1 > MaxQrAttempts)
      <3>1. [session[s] EXCEPT !.qrs = @ + 1] \in Session
        BY <2>2, BridgeConstants DEF SessionTypeOK, Session
      <3>2. Becomes(s, [session[s] EXCEPT !.qrs = @ + 1], current, "starting")
        BY <1>13, <2>2 DEF Qr
      <3>3. session' \in [Socks -> Session] /\ current' = current /\ reports' = reports \cup {"starting"}
        BY <3>1, <3>2, BecomesDoes
      <3>4. QED BY <1>13, <2>2, <3>3 DEF Qr, SessionTypeOK, rowVars
    <2>3. QED BY <2>1, <2>2
  <1>14. ASSUME NEW s \in Socks, ExpireQr(s) PROVE SessionTypeOK'
    BY <1>14, ExpiredDoes DEF ExpireQr, SessionTypeOK, rowVars
  <1>15. ASSUME NEW s \in Socks, Pair(s) PROVE SessionTypeOK'
    <2>1. session' \in [Socks -> Session]
      BY <1>15 DEF Pair, SessionTypeOK, Session
    <2>2. QED BY <1>15, <2>1 DEF Pair, SessionTypeOK, rowVars
  <1>16. ASSUME NEW k \in Starters, StartFails(k) PROVE SessionTypeOK'
    BY <1>16, EventsBounded, NotStartingIsStart DEF StartFails, SessionTypeOK
  <1>17. CASE Click
    BY <1>17, EventsBounded DEF Click, SessionTypeOK, bridgeVars
  <1>18. CASE ConnectFails
    BY <1>18, EventsBounded DEF ConnectFails, SessionTypeOK, bridgeVars
  <1>19. CASE Remove
    <2>1. CASE DeleteSession
      <3>1. session' \in [Socks -> Session] /\ lost' \in {"nothing", "call", "logout"}
        BY <2>1, LogoutDoes DEF DeleteSession, SessionTypeOK
      <3>2. QED BY <1>19, <2>1, <3>1, EventsBounded DEF Remove, DeleteSession, SessionTypeOK
    <2>2. CASE lost' = "call" /\ UNCHANGED <<bridgeVars, raced>>
      BY <1>19, <2>2, EventsBounded DEF Remove, SessionTypeOK, bridgeVars
    <2>3. QED BY <1>19, <2>1, <2>2 DEF Remove
  <1>20. QED
    BY <1>1, <1>2, <1>4, <1>5, <1>6, <1>7, <1>8, <1>9, <1>10, <1>11, <1>12, <1>13, <1>14, <1>15,
       <1>16, <1>17, <1>18, <1>19 DEF SessionStep, Serve, Scan

-----------------------------------------------------------------------------
(* BridgeInv, one action at a time. *)

LEMMA FreeIsNothing ==
  \A s \in Socks : session'[s] = Free =>
    /\ ~Live(s)' /\ ~Pending(s)' /\ ~session'[s].retry /\ session'[s].qrs = 0
    /\ session'[s].link # "opening"
  BY FreeIsSession DEF Free, Live, Astray, Pending

\* A socket can only be astray once the integration was deleted.
LEMMA Found ==
  ASSUME Alone, current # NoSock \/ removal = "idle" \/ files # "none"
  PROVE  \A s \in Socks : Live(s) => s = current
  BY DEF Alone, PendingIsAlone, Pending, Astray

\* An object with a socket is the only one that matters, and nothing is starting.
LEMMA OnlyOne ==
  ASSUME Alone, NEW s \in Socks, session[s].link # "closed", SessionTypeOK
  PROVE  /\ \A t \in Socks : t # s => ~Live(t) /\ ~Pending(t)
         /\ \A k \in Starters : ~Starting(k)
         /\ s # current => removal # "idle" /\ files = "none" /\ current = NoSock
  <1>1. Live(s) \/ session[s].link = "leaving"
    BY DEF Live, SessionTypeOK, Session
  <1>2. CASE s = current /\ Live(s)
    <2>1. current # NoSock
      BY <1>2, BridgeConstants
    <2>2. QED BY <1>2, <2>1, Found DEF Alone, StartIsAlone, PendingIsAlone
  <1>3. CASE session[s].link = "leaving" \/ Astray(s)
    <2>1. Pending(s) /\ removal # "idle" /\ files = "none" /\ current = NoSock
      BY <1>3 DEF Pending, Astray, Alone, PendingIsAlone
    <2>2. \A t \in Socks : Live(t) => Pending(t)
      BY <2>1, BridgeConstants DEF Pending, Astray
    <2>3. QED BY <2>1, <2>2 DEF Alone, StartIsAlone, PendingIsAlone
  <1>4. QED BY <1>1, <1>2, <1>3 DEF Astray

\* What leaves objects, entry, starts and files alone.
LEMMA IdleKeeps ==
  ASSUME BridgeInv, UNCHANGED <<session, current, starts, files, raced>>,
         removal' = removal \/ removal' # "idle", lost' = lost \/ removal = "idle"
  PROVE  BridgeInv'
  <1>1. Bookkeeping'
    BY DEF BridgeInv, Bookkeeping, TimersOfClosed, CodesUnpaired, StartsCounted, Starting
  <1>2. ASSUME Alone PROVE Alone'
    <2>1. /\ \A s \in Socks : (Live(s)' <=> Live(s)) /\ (Pending(s)' <=> Pending(s))
          /\ \A k \in Starters : Starting(k)' <=> Starting(k)
      BY DEF Live, Pending, Astray, Starting
    <2>2. LiveIsCurrent'
      BY <1>2, <2>1, Found DEF Alone, LiveIsCurrent
    <2>3. QED BY <1>2, <2>1, <2>2 DEF Alone, StartIsAlone, PendingIsAlone
  <1>3. CredentialsRead => CredentialsRead'
    BY DEF CredentialsRead, Starting
  <1>4. QED BY <1>1, <1>2, <1>3 DEF BridgeInv

LEMMA EnterKeeps ==
  ASSUME SessionTypeOK, BridgeInv, NEW k \in Starters, Enter(k)
  PROVE  BridgeInv'
  <1>1. PICK s \in Socks :
          /\ session' \in [Socks -> Session]
          /\ \A t \in Socks : session'[t] \in {IF t = s THEN NewSession(k) ELSE session[t], Free}
          /\ current' = s
    BY EnterDoes DEF BridgeInv, Bookkeeping
  <1>2. /\ Starting(k)
        /\ starts' = [starts EXCEPT ![k] = NotStarting]
        /\ UNCHANGED <<files, removal, raced>>
    BY DEF Enter, rowVars
  <1>3. \A j \in Starters : Starting(j)' => j # k /\ Starting(j) /\ starts'[j] = starts[j]
    BY <1>2 DEF Starting, SessionTypeOK
  <1>4. /\ NewSession(k).link = "opening" /\ ~NewSession(k).retry
        /\ NewSession(k).qrs = 0 /\ NewSession(k).creds = starts[k].creds
    BY DEF NewSession
  <1> DEFINE Same(t) == t # s /\ session'[t] = session[t]
  <1>5. \A t \in Socks : Same(t) \/ session'[t] = Free \/ (t = s /\ session'[t] = NewSession(k))
    BY <1>1
  <1>6. Bookkeeping'
    <2>1. TimersOfClosed'
      BY <1>4, <1>5, FreeIsNothing DEF BridgeInv, Bookkeeping, TimersOfClosed
    <2>2. CodesUnpaired'
      BY <1>4, <1>5, FreeIsNothing DEF BridgeInv, Bookkeeping, CodesUnpaired
    <2>3. StartsCounted'
      BY <1>3 DEF BridgeInv, Bookkeeping, StartsCounted
    <2>4. QED BY <2>1, <2>2, <2>3 DEF Bookkeeping
  <1>7. ASSUME Alone, CredentialsRead PROVE Alone' /\ CredentialsRead'
    <2>1. \A t \in Socks : t # s => ~Live(t)' /\ ~Pending(t)'
      <3> SUFFICES ASSUME NEW t \in Socks, t # s PROVE ~Live(t)' /\ ~Pending(t)'
        OBVIOUS
      <3>1. ~Live(t) /\ ~Pending(t)
        BY <1>2, <1>7, BridgeConstants DEF Alone, StartIsAlone, Pending, Astray
      <3>2. CASE Same(t)
        BY <3>1, <3>2 DEF Live, Pending, Astray
      <3>3. CASE session'[t] = Free
        BY <3>3, FreeIsNothing
      <3>4. QED BY <1>5, <3>2, <3>3
    <2>2. ~Pending(s)'
      BY <1>1, <1>4, <1>5, FreeIsNothing DEF Pending, Astray
    <2>3. \A j \in Starters : ~Starting(j)'
      BY <1>2, <1>3, <1>7 DEF Alone, StartIsAlone
    <2>4. Alone'
      BY <1>1, <2>1, <2>2, <2>3 DEF Alone, LiveIsCurrent, StartIsAlone, PendingIsAlone
    <2>5. CredentialsRead'
      <3> SUFFICES ASSUME files = "paired" PROVE \A t \in Socks : session'[t].link = "opening" => session'[t].creds
        BY <1>2, <2>3 DEF CredentialsRead
      <3>1. starts[k].creds
        BY <1>2, <1>7 DEF CredentialsRead
      <3>2. QED BY <1>4, <1>5, <1>7, <3>1, FreeIsNothing DEF CredentialsRead
    <2>6. QED BY <2>4, <2>5
  <1>8. QED BY <1>2, <1>6, <1>7 DEF BridgeInv

\* A step that changes one object, to `change`, and neither entry nor starts nor files.
LEMMA ChangeKeeps ==
  ASSUME SessionTypeOK, BridgeInv, NEW s \in Socks, NEW change,
         \A t \in Socks : session'[t] \in {IF t = s THEN change ELSE session[t], Free},
         UNCHANGED <<current, starts, files, removal, raced, lost>>,
         change.link \in {"opening", "paired", "open"}, Live(s),
         ~change.retry, change.qrs > 0 => ~change.creds,
         change.creds = session[s].creds,
         change.link = "opening" => session[s].link = "opening"
  PROVE  BridgeInv'
  <1> DEFINE Same(t) == t # s /\ session'[t] = session[t]
  <1>5. \A t \in Socks : Same(t) \/ session'[t] = Free \/ (t = s /\ session'[t] = change)
    OBVIOUS
  <1>6. Bookkeeping'
    <2>1. TimersOfClosed'
      BY <1>5, FreeIsNothing DEF BridgeInv, Bookkeeping, TimersOfClosed
    <2>2. CodesUnpaired'
      BY <1>5, FreeIsNothing DEF BridgeInv, Bookkeeping, CodesUnpaired
    <2>3. StartsCounted'
      BY DEF BridgeInv, Bookkeeping, StartsCounted, Starting
    <2>4. QED BY <2>1, <2>2, <2>3 DEF Bookkeeping
  <1>7. ASSUME Alone, CredentialsRead PROVE Alone' /\ CredentialsRead'
    <2>1. \A t \in Socks :
            /\ Live(t)' => Live(t)
            /\ Pending(t)' => Pending(t)
            /\ session'[t].link = "leaving" => session[t].link = "leaving"
      BY <1>5, FreeIsNothing, FreeIsSession DEF Live, Pending, Astray
    <2>2. Alone'
      BY <1>7, <2>1 DEF Alone, LiveIsCurrent, StartIsAlone, PendingIsAlone, Starting
    <2>3. CredentialsRead'
      BY <1>5, <1>7, FreeIsNothing DEF CredentialsRead, Starting
    <2>4. QED BY <2>2, <2>3
  <1>8. QED BY <1>6, <1>7 DEF BridgeInv

LEMMA OpenKeeps ==
  ASSUME SessionTypeOK, BridgeInv, NEW s \in Socks, Open(s)
  PROVE  BridgeInv'
  <1> DEFINE change == [session[s] EXCEPT !.link = "open"]
  <1>1. session[s] \in Session /\ session[s].link = "opening" /\ ~session[s].retry
    BY DEF Open, SessionTypeOK, BridgeInv, Bookkeeping, TimersOfClosed
  <1>2. /\ change \in Session /\ change.link = "open" /\ ~change.retry
        /\ change.qrs = session[s].qrs /\ change.creds = session[s].creds
    BY <1>1 DEF Session
  <1>3. Becomes(s, change, current, "connected") /\ UNCHANGED <<starts, files, removal, raced, lost>>
    BY DEF Open, rowVars
  <1> HIDE DEF change
  <1>4. /\ \A t \in Socks : session'[t] \in {IF t = s THEN change ELSE session[t], Free}
        /\ current' = current
    BY <1>2, <1>3, BecomesDoes
  <1>5. Live(s) /\ (change.qrs > 0 => ~change.creds)
    BY <1>1, <1>2 DEF Live, BridgeInv, Bookkeeping, CodesUnpaired
  <1>6. QED BY <1>1, <1>2, <1>3, <1>4, <1>5, ChangeKeeps

\* A QR code is given up: the socket goes, and nothing else was there.
LEMMA GiveUpKeeps ==
  ASSUME SessionTypeOK, BridgeInv, NEW s \in Socks,
         session[s].link = "opening", ~session[s].creds,
         Expired(s), UNCHANGED <<starts, removal, raced>>
  PROVE  BridgeInv'
  <1>1. /\ session' \in [Socks -> Session]
        /\ \A t \in Socks : session'[t] \in {session[t], Free}
        /\ session'[s] = Free
        /\ current' = NoSock /\ files' = "none"
    BY ExpiredDoes
  <1>2. Bookkeeping'
    <2>1. TimersOfClosed'
      BY <1>1, FreeIsNothing DEF BridgeInv, Bookkeeping, TimersOfClosed
    <2>2. CodesUnpaired'
      BY <1>1, FreeIsNothing DEF BridgeInv, Bookkeeping, CodesUnpaired
    <2>3. StartsCounted'
      BY DEF BridgeInv, Bookkeeping, StartsCounted, Starting
    <2>4. QED BY <2>1, <2>2, <2>3 DEF Bookkeeping
  <1>3. ASSUME Alone PROVE Alone'
    <2>1. \A t \in Socks : ~Live(t)' /\ ~Pending(t)'
      BY <1>1, <1>3, OnlyOne, FreeIsNothing DEF Live, Pending, Astray
    <2>2. \A k \in Starters : ~Starting(k)'
      BY <1>3, OnlyOne DEF Starting
    <2>3. QED BY <2>1, <2>2 DEF Alone, LiveIsCurrent, StartIsAlone, PendingIsAlone
  <1>4. QED BY <1>1, <1>2, <1>3 DEF BridgeInv, CredentialsRead

LEMMA QrKeeps ==
  ASSUME SessionTypeOK, BridgeInv, NEW s \in Socks, Qr(s)
  PROVE  BridgeInv'
  <1>1. session[s] \in Session /\ session[s].link = "opening" /\ ~session[s].creds
    BY DEF Qr, SessionTypeOK
  <1>2. UNCHANGED <<starts, removal, raced, lost>>
    BY DEF Qr, rowVars
  <1>3. CASE session[s].qrs + 1 > MaxQrAttempts
    BY <1>1, <1>2, <1>3, GiveUpKeeps DEF Qr
  <1>4. CASE ~(session[s].qrs + 1 > MaxQrAttempts)
    <2> DEFINE change == [session[s] EXCEPT !.qrs = @ + 1]
    <2>1. /\ change \in Session /\ change.link = "opening" /\ change.retry = session[s].retry
          /\ ~change.creds
      BY <1>1, <1>4, BridgeConstants DEF Session
    <2>2. Becomes(s, change, current, "starting") /\ files' = files
      BY <1>4 DEF Qr
    <2> HIDE DEF change
    <2>3. /\ \A t \in Socks : session'[t] \in {IF t = s THEN change ELSE session[t], Free}
          /\ current' = current
      BY <2>1, <2>2, BecomesDoes
    <2>4. Live(s) /\ ~session[s].retry
      BY <1>1 DEF Live, BridgeInv, Bookkeeping, TimersOfClosed
    <2>5. change.creds = session[s].creds
      BY <1>1, <2>1 DEF Session
    <2>6. QED BY <1>1, <1>2, <2>1, <2>2, <2>3, <2>4, <2>5, ChangeKeeps
  <1>5. QED BY <1>3, <1>4

LEMMA ExpireQrKeeps ==
  ASSUME SessionTypeOK, BridgeInv, NEW s \in Socks, ExpireQr(s)
  PROVE  BridgeInv'
  <1>1. session[s].link = "opening" /\ ~session[s].creds
    BY DEF ExpireQr, QrReady, BridgeInv, Bookkeeping, CodesUnpaired
  <1>2. QED BY <1>1, GiveUpKeeps DEF ExpireQr, rowVars

LEMMA PairKeeps ==
  ASSUME SessionTypeOK, BridgeInv, NEW s \in Socks, Pair(s)
  PROVE  BridgeInv'
  <1>1. /\ session[s].link = "opening" /\ ~session[s].creds /\ ~session[s].retry
        /\ session' = [session EXCEPT ![s].link = "paired"]
        /\ files' = IF files = "none" THEN files ELSE "paired"
        /\ removal = "idle"
        /\ UNCHANGED <<current, starts, removal, raced>>
    BY DEF Pair, QrReady, rowVars, BridgeInv, Bookkeeping, CodesUnpaired, TimersOfClosed
  <1>2. /\ \A t \in Socks : t # s => session'[t] = session[t]
        /\ session'[s].link = "paired" /\ ~session'[s].creds /\ ~session'[s].retry
    BY <1>1 DEF SessionTypeOK, Session
  <1>3. Bookkeeping'
    <2>1. TimersOfClosed'
      BY <1>2 DEF BridgeInv, Bookkeeping, TimersOfClosed
    <2>2. CodesUnpaired'
      BY <1>2 DEF BridgeInv, Bookkeeping, CodesUnpaired
    <2>3. StartsCounted'
      BY <1>1 DEF BridgeInv, Bookkeeping, StartsCounted, Starting
    <2>4. QED BY <2>1, <2>2, <2>3 DEF Bookkeeping
  <1>4. ASSUME Alone PROVE Alone' /\ CredentialsRead'
    <2>1. s = current /\ current # NoSock
      BY <1>1, <1>4, Found, BridgeConstants DEF Live
    <2>2. \A t \in Socks : t # s => ~Live(t) /\ ~Pending(t)
      BY <1>1, <1>4, OnlyOne
    <2>3. \A t \in Socks : (t # s => ~Live(t)') /\ ~Pending(t)'
      BY <1>1, <1>2, <2>1, <2>2 DEF Live, Pending, Astray
    <2>4. \A k \in Starters : ~Starting(k)'
      BY <1>1, <1>4, OnlyOne DEF Starting
    <2>5. Alone'
      BY <1>1, <2>1, <2>3, <2>4 DEF Alone, LiveIsCurrent, StartIsAlone, PendingIsAlone
    <2>6. CredentialsRead'
      BY <1>2, <2>3, <2>4 DEF CredentialsRead, Live
    <2>7. QED BY <2>5, <2>6
  <1>5. QED BY <1>1, <1>3, <1>4 DEF BridgeInv

LEMMA ClosedKeeps ==
  ASSUME SessionTypeOK, BridgeInv, NEW s \in Socks, NEW l \in BOOLEAN, Closed(s, l),
         session[s].link # "closed", UNCHANGED <<starts, removal, raced>>
  PROVE  BridgeInv'
  <1>0. StartsCounted'
    BY DEF BridgeInv, Bookkeeping, StartsCounted, Starting
  <1>1. CASE /\ session[s].tries < MaxReconnectAttempts
             /\ \A t \in Socks : session'[t] \in {IF t = s THEN Disconnected(s) ELSE session[t], Free}
             /\ current' = current /\ files' = files
    <2> DEFINE Same(t) == t # s /\ session'[t] = session[t]
    <2>1. \A t \in Socks : Same(t) \/ session'[t] = Free \/ (t = s /\ session'[t] = Disconnected(s))
      BY <1>1
    <2>2. /\ Disconnected(s).link = "closed" /\ Disconnected(s).qrs = 0
          /\ Disconnected(s).tries = session[s].tries
      BY DisconnectedIs
    <2>3. TimersOfClosed' /\ CodesUnpaired'
      BY <1>1, <2>1, <2>2, FreeIsNothing DEF BridgeInv, Bookkeeping, TimersOfClosed, CodesUnpaired
    <2>4. ASSUME Alone PROVE Alone' /\ CredentialsRead'
      <3>1. \A t \in Socks : ~Live(t)' /\ (t # s => ~Pending(t)')
        BY <2>1, <2>2, <2>4, OnlyOne, FreeIsNothing DEF Live, Pending, Astray
      <3>2. \A k \in Starters : ~Starting(k)'
        BY <2>4, OnlyOne DEF Starting
      <3>3. session'[s].link # "leaving"
        BY <2>1, <2>2, FreeIsSession
      <3>4. s # current => removal # "idle" /\ files = "none" /\ current = NoSock
        BY <2>4, OnlyOne
      <3>5. Alone'
        BY <1>1, <3>1, <3>2, <3>3, <3>4 DEF Alone, LiveIsCurrent, StartIsAlone, PendingIsAlone
      <3>6. QED BY <3>1, <3>2, <3>5 DEF CredentialsRead, Live
    <2>5. QED BY <1>0, <2>3, <2>4 DEF BridgeInv, Bookkeeping
  <1>2. CASE /\ \A t \in Socks : session'[t] \in {IF t = s THEN Free ELSE session[t], Free}
             /\ current' = NoSock
    <2>1. \A t \in Socks : (t # s /\ session'[t] = session[t]) \/ session'[t] = Free
      BY <1>2
    <2>2. TimersOfClosed' /\ CodesUnpaired'
      BY <2>1, FreeIsNothing DEF BridgeInv, Bookkeeping, TimersOfClosed, CodesUnpaired
    <2>3. ASSUME Alone PROVE Alone' /\ CredentialsRead'
      <3>1. \A t \in Socks : ~Live(t)' /\ ~Pending(t)'
        BY <2>1, <2>3, OnlyOne, FreeIsNothing DEF Live, Pending, Astray
      <3>2. \A k \in Starters : ~Starting(k)'
        BY <2>3, OnlyOne DEF Starting
      <3>3. QED BY <3>1, <3>2 DEF Alone, LiveIsCurrent, StartIsAlone, PendingIsAlone,
                CredentialsRead, Live
    <2>4. QED BY <1>0, <2>2, <2>3 DEF BridgeInv, Bookkeeping
  <1>3. QED BY <1>1, <1>2, ClosedDoes

\* A call begins when nothing is pending any more but what it takes away.
LEMMA StartKeeps ==
  ASSUME SessionTypeOK, BridgeInv, NEW k \in Starters, NEW n \in 0..MaxReconnectAttempts,
         session' \in [Socks -> Session],
         \A t \in Socks : \/ session'[t] \in {session[t], Free}
                          \/ session'[t] = [session[t] EXCEPT !.retry = FALSE],
         current' = NoSock,
         starts' = [starts EXCEPT ![k] = NewStart(n)],
         files' = IF files = "none" THEN "empty" ELSE files,
         raced \/ SomeStart => raced',
         ~raced' /\ Alone => \A t \in Socks : ~Live(t) /\ ~Pending(t)'
  PROVE  BridgeInv'
  <1>1. \A t \in Socks : \/ session'[t] = Free
                         \/ /\ session'[t].link = session[t].link
                            /\ session'[t].creds = session[t].creds
                            /\ session'[t].qrs = session[t].qrs
                            /\ session'[t].tries = session[t].tries
                            /\ session'[t].retry => session[t].retry
    <2> TAKE t \in Socks
    <2>1. session[t] \in Session
      BY DEF SessionTypeOK
    <2>2. QED BY <2>1 DEF Session
  <1>2. TimersOfClosed' /\ CodesUnpaired'
    BY <1>1, FreeIsNothing DEF BridgeInv, Bookkeeping, TimersOfClosed, CodesUnpaired
  <1>3. \A j \in Starters : j # k => (Starting(j)' <=> Starting(j)) /\ starts'[j] = starts[j]
    BY DEF Starting, SessionTypeOK
  <1>4. starts'[k] = NewStart(n)
    BY DEF SessionTypeOK
  <1>5. NewStart(n).tries = n /\ NewStart(n).creds = (files = "paired")
    BY DEF NewStart
  <1>6. StartsCounted'
    BY <1>3, <1>4, <1>5 DEF BridgeInv, Bookkeeping, StartsCounted
  <1>7. ASSUME Alone, ~raced' PROVE Alone' /\ CredentialsRead'
    <2>1. \A t \in Socks : ~Live(t)' /\ ~Pending(t)'
      BY <1>1, <1>7, FreeIsNothing DEF Live
    <2>2. \A j \in Starters : Starting(j)' => j = k
      BY <1>3, <1>7 DEF SomeStart
    <2>3. Alone'
      BY <2>1, <2>2 DEF Alone, LiveIsCurrent, StartIsAlone, PendingIsAlone
    <2>4. CredentialsRead'
      BY <1>4, <1>5, <2>1, <2>2 DEF CredentialsRead, Live
    <2>5. QED BY <2>3, <2>4
  <1>8. QED BY <1>2, <1>6, <1>7 DEF BridgeInv, Bookkeeping

LEMMA RetryKeeps ==
  ASSUME SessionTypeOK, BridgeInv, NEW s \in Socks, Retry(s)
  PROVE  BridgeInv'
  <1>1. session[s].retry /\ session[s].link = "closed" /\ session[s].tries < MaxReconnectAttempts
    BY DEF Retry, BridgeInv, Bookkeeping, TimersOfClosed
  <1>2. session[s].tries + 1 \in 0..MaxReconnectAttempts
    BY <1>1, BridgeConstants DEF SessionTypeOK, Session
  <1>3. /\ session' \in [Socks -> Session]
        /\ \A t \in Socks : session'[t] \in
              {IF t = s THEN [session[s] EXCEPT !.retry = FALSE] ELSE session[t], Free}
    BY RetryDoes
  <1>4. \A t \in Socks : \/ session'[t] \in {session[t], Free}
                         \/ session'[t] = [session[t] EXCEPT !.retry = FALSE]
    BY <1>3
  <1>5. ASSUME Alone PROVE \A t \in Socks : ~Live(t) /\ ~Pending(t)'
    <2>1. Pending(s) /\ ~Live(s)
      BY <1>1 DEF Pending, Live
    <2>2. \A t \in Socks : ~Live(t)
      BY <1>5, <2>1, BridgeConstants DEF Alone, PendingIsAlone, Pending, Astray
    <2>3. \A t \in Socks : t # s => ~Pending(t)'
      <3> TAKE t \in Socks
      <3> HAVE t # s
      <3>1. ~Pending(t)
        BY <1>5, <2>1 DEF Alone, PendingIsAlone
      <3>2. session'[t] = session[t] \/ session'[t] = Free
        BY <1>3
      <3>3. QED BY <2>2, <3>1, <3>2, FreeIsNothing DEF Pending, Astray, Live
    <2>4. ~Pending(s)'
      <3>1. session[s] \in Session
        BY DEF SessionTypeOK
      <3>2. CASE session'[s] = [session[s] EXCEPT !.retry = FALSE]
        BY <1>1, <3>1, <3>2 DEF Session, Pending, Astray, Live
      <3>3. CASE session'[s] = Free
        BY <3>3, FreeIsNothing
      <3>4. QED BY <1>3, <3>2, <3>3
    <2>5. QED BY <2>2, <2>3, <2>4
  <1>6. /\ current' = NoSock
        /\ starts' = [starts EXCEPT !["retry"] = NewStart(session[s].tries + 1)]
        /\ files' = IF files = "none" THEN "empty" ELSE files
        /\ raced' = (raced \/ SomeStart)
    BY RetryDoes
  <1>7. "retry" \in Starters
    BY DEF Starters
  <1>8. raced \/ SomeStart => raced'
    BY <1>6
  <1>9. QED BY <1>2, <1>3, <1>4, <1>5, <1>6, <1>7, <1>8, StartKeeps

\* connect and a send begin when the map's entry is empty or over.
LEMMA BeginKeeps ==
  ASSUME SessionTypeOK, BridgeInv, NEW k \in Starters, Begin(k, 0),
         raced \/ SomeStart => raced',
         ~Usable, ~raced' => removal = "idle" \/ files # "none" \/ current # NoSock
  PROVE  BridgeInv'
  <1>1. /\ session' \in [Socks -> Session]
        /\ \A t \in Socks : \/ session'[t] = Free
                            \/ session'[t] = session[t] /\ t # current
                            \/ t = current /\ session'[t] = [session[t] EXCEPT !.retry = FALSE]
        /\ current' = NoSock
        /\ starts' = [starts EXCEPT ![k] = NewStart(0)]
        /\ files' = IF files = "none" THEN "empty" ELSE files
    BY BeginDoes
  <1>2. ASSUME Alone, ~raced' PROVE \A t \in Socks : ~Live(t) /\ ~Pending(t)'
    <2>1. \A t \in Socks : ~Live(t)
      BY <1>2, Found, BridgeConstants DEF Usable, Live
    <2>2. \A t \in Socks : Pending(t) => t = current
      BY <1>2 DEF Alone, PendingIsAlone
    <2>3. ASSUME NEW t \in Socks PROVE ~Pending(t)'
      <3>1. CASE session'[t] = Free
        BY <3>1, FreeIsNothing
      <3>2. CASE session'[t] = session[t] /\ t # current
        BY <2>1, <2>2, <3>2 DEF Pending, Astray, Live
      <3>3. CASE t = current /\ session'[t] = [session[t] EXCEPT !.retry = FALSE]
        <4>1. session[t] \in Session /\ current # NoSock
          BY <3>3, BridgeConstants DEF SessionTypeOK
        <4>2. session[t].link = "closed"
          BY <3>3, <4>1 DEF Usable
        <4>3. QED BY <3>3, <4>1, <4>2 DEF Pending, Astray, Live, Session
      <3>4. QED BY <1>1, <3>1, <3>2, <3>3
    <2>4. QED BY <2>1, <2>3
  <1>3. 0 \in 0..MaxReconnectAttempts
    BY BridgeConstants
  <1>4. \A t \in Socks : \/ session'[t] \in {session[t], Free}
                         \/ session'[t] = [session[t] EXCEPT !.retry = FALSE]
    BY <1>1
  <1>5. QED BY <1>1, <1>2, <1>3, <1>4, StartKeeps

LEMMA StartFailsKeeps ==
  ASSUME SessionTypeOK, BridgeInv, NEW k \in Starters, StartFails(k)
  PROVE  BridgeInv'
  <1>1. /\ starts' = [starts EXCEPT ![k] = NotStarting]
        /\ UNCHANGED <<session, current, files, removal, raced, lost>>
    BY DEF StartFails
  <1>2. \A j \in Starters : Starting(j)' => Starting(j) /\ starts'[j] = starts[j]
    BY <1>1 DEF Starting, SessionTypeOK
  <1>3. Bookkeeping'
    BY <1>1, <1>2 DEF BridgeInv, Bookkeeping, TimersOfClosed, CodesUnpaired, StartsCounted
  <1>4. Alone => Alone'
    BY <1>1, <1>2 DEF Alone, LiveIsCurrent, StartIsAlone, PendingIsAlone, Live, Pending, Astray
  <1>5. CredentialsRead => CredentialsRead'
    BY <1>1, <1>2 DEF CredentialsRead
  <1>6. QED BY <1>1, <1>3, <1>4, <1>5 DEF BridgeInv

LEMMA DeleteSessionKeeps ==
  ASSUME SessionTypeOK, BridgeInv, removal = "idle", removal' = "told", DeleteSession
  PROVE  BridgeInv'
  <1>1. /\ current' = NoSock /\ files' = "none" /\ starts' = starts
        /\ raced' = (raced \/ SomeStart)
    BY DEF DeleteSession
  <1>2. \A t \in Socks : t # current => session'[t] = session[t]
    BY LogoutDoes DEF DeleteSession
  <1>3. ASSUME current # NoSock
        PROVE  \/ session'[current] = Free
               \/ /\ session[current].link # "closed"
                  /\ session'[current].qrs = 0
                  /\ session'[current].retry = session[current].retry
                  /\ \/ session'[current].link = "leaving"
                     \/ session'[current].link = session[current].link /\ lost' = "logout"
    BY <1>3, LogoutDoes DEF DeleteSession
  <1>4. ASSUME NEW t \in Socks PROVE t = current => t # NoSock
    BY BridgeConstants
  <1>5. Bookkeeping'
    <2>1. ASSUME NEW t \in Socks, session'[t].retry
          PROVE  session'[t].link = "closed" /\ session'[t].tries < MaxReconnectAttempts
      <3>1. t # current
        BY <1>3, <1>4, <2>1, FreeIsNothing DEF BridgeInv, Bookkeeping, TimersOfClosed
      <3>2. QED BY <1>2, <2>1, <3>1 DEF BridgeInv, Bookkeeping, TimersOfClosed
    <2>2. ASSUME NEW t \in Socks, session'[t].qrs > 0 PROVE ~session'[t].creds
      <3>1. t # current
        BY <1>3, <1>4, <2>2, FreeIsNothing
      <3>2. QED BY <1>2, <2>2, <3>1 DEF BridgeInv, Bookkeeping, CodesUnpaired
    <2>3. StartsCounted'
      BY <1>1 DEF BridgeInv, Bookkeeping, StartsCounted, Starting
    <2>4. QED BY <2>1, <2>2, <2>3 DEF Bookkeeping, TimersOfClosed, CodesUnpaired
  <1>6. ASSUME Alone, ~raced' PROVE Alone'
    <2>1. \A k \in Starters : ~Starting(k)'
      BY <1>1, <1>6 DEF SomeStart, Starting
    <2>2. \A t \in Socks : Pending(t) => t = current
      BY <1>6 DEF Alone, PendingIsAlone
    <2>3. \A t \in Socks : Live(t)' => t = current /\ lost' = "logout"
      <3> SUFFICES ASSUME NEW t \in Socks, Live(t)' PROVE t = current /\ lost' = "logout"
        OBVIOUS
      <3>1. t = current
        BY <1>2, <1>6, Found DEF Live
      <3>2. QED BY <1>3, <1>4, <3>1, FreeIsNothing DEF Live
    <2>4. \A t \in Socks : Pending(t)' => t = current
      BY <1>2, <2>2, <2>3 DEF Pending, Astray
    <2>5. QED BY <1>1, <2>1, <2>3, <2>4 DEF Alone, LiveIsCurrent, StartIsAlone, PendingIsAlone
  <1>7. QED BY <1>1, <1>5, <1>6 DEF BridgeInv, CredentialsRead

LEMMA BridgeRestartsKeeps ==
  ASSUME SessionTypeOK, BridgeInv, BridgeRestarts
  PROVE  BridgeInv'
  <1>1. /\ session' = [s \in Socks |-> Free]
        /\ current' = NoSock
        /\ \A k \in Starters : starts'[k] \in
              {NotStarting, IF k = "restore" THEN NewStart(0) ELSE NotStarting}
        /\ UNCHANGED <<files, removal, raced>>
    BY BridgeRestartsDoes
  <1>2. \A s \in Socks : ~Live(s)' /\ ~Pending(s)' /\ session'[s].qrs = 0 /\ ~session'[s].retry
                         /\ session'[s].link # "opening"
    BY <1>1, FreeIsNothing
  <1>3. \A k \in Starters : Starting(k)' => k = "restore" /\ starts'[k] = NewStart(0)
    BY <1>1 DEF Starting
  <1>4. NewStart(0).tries = 0 /\ NewStart(0).creds = (files = "paired")
    BY DEF NewStart
  <1>5. Bookkeeping'
    BY <1>2, <1>3, <1>4, BridgeConstants DEF Bookkeeping, TimersOfClosed, CodesUnpaired, StartsCounted
  <1>6. Alone'
    BY <1>1, <1>2, <1>3 DEF Alone, LiveIsCurrent, StartIsAlone, PendingIsAlone
  <1>7. CredentialsRead'
    BY <1>1, <1>2, <1>3, <1>4 DEF CredentialsRead
  <1>8. QED BY <1>5, <1>6, <1>7 DEF BridgeInv

LEMMA SessionStepKeeps ==
  ASSUME SessionTypeOK, BridgeInv, SessionStep
  PROVE  BridgeInv'
  <1>1. ASSUME NEW s \in Socks, ServerCloses(s) PROVE BridgeInv'
    <2>1. PICK l \in BOOLEAN : Closed(s, l)
      BY <1>1 DEF ServerCloses
    <2>2. session[s].link # "closed" /\ UNCHANGED <<starts, removal, raced>>
      BY <1>1 DEF ServerCloses, rowVars
    <2>3. QED BY <2>1, <2>2, ClosedKeeps
  <1>2. ASSUME NEW s \in Socks, ConnectionLost(s) PROVE BridgeInv'
    <2>1. Closed(s, FALSE)
      BY <1>2 DEF ConnectionLost
    <2>2. session[s].link # "closed" /\ UNCHANGED <<starts, removal, raced>>
      BY <1>2 DEF ConnectionLost, rowVars
    <2>3. QED BY <2>1, <2>2, ClosedKeeps
  <1>3. ASSUME NEW s \in Socks, LoggedOut(s) PROVE BridgeInv'
    <2>1. Closed(s, TRUE)
      BY <1>3 DEF LoggedOut
    <2>2. session[s].link # "closed" /\ UNCHANGED <<starts, removal, raced>>
      BY <1>3 DEF LoggedOut, Live, rowVars
    <2>3. QED BY <2>1, <2>2, ClosedKeeps
  <1>4. CASE Connect
    <2>1. /\ Begin("connect", 0)
          /\ ~Usable
          /\ raced \/ SomeStart => raced'
          /\ ~raced' => removal = "idle"
      BY <1>4 DEF Connect
    <2>2. "connect" \in Starters
      BY DEF Starters
    <2>3. QED BY <2>1, <2>2, BeginKeeps
  <1>5. CASE ConnectExisting
    BY <1>5, IdleKeeps DEF ConnectExisting, bridgeVars
  <1>6. CASE RemoveRow
    BY <1>6, IdleKeeps DEF RemoveRow, bridgeVars
  <1>7. ASSUME NEW status \in Reported, Report(status) PROVE BridgeInv'
    BY <1>7, IdleKeeps DEF Report
  <1>8. CASE SessionStatus
    BY <1>8, IdleKeeps DEF SessionStatus, PollRead, PollAsk, PollFails, PollWrite, bridgeVars
  <1>9. CASE Click
    BY <1>9, IdleKeeps DEF Click, bridgeVars
  <1>10. CASE ConnectFails
    BY <1>10, IdleKeeps DEF ConnectFails, bridgeVars
  <1>11. CASE Remove
    <2>1. CASE DeleteSession
      BY <1>11, <2>1, DeleteSessionKeeps DEF Remove
    <2>2. CASE UNCHANGED <<bridgeVars, raced>>
      BY <1>11, <2>2, IdleKeeps DEF Remove, bridgeVars
    <2>3. QED BY <1>11, <2>1, <2>2 DEF Remove
  <1>12. QED
    BY <1>1, <1>2, <1>3, <1>4, <1>5, <1>6, <1>7, <1>8, <1>9, <1>10, <1>11,
       EnterKeeps, OpenKeeps, RetryKeeps, QrKeeps, ExpireQrKeeps, PairKeeps, StartFailsKeeps
    DEF SessionStep, Serve, Scan

-----------------------------------------------------------------------------
(* The steps of the message. *)

\* Types of the variables of WhatsAppMessages.
MessageTypeOK ==
  /\ handed \in 0..2
  /\ hook \in [Requests -> [at : {"free", "read", "stored"}, known : BOOLEAN]]
  /\ known \in BOOLEAN
  /\ message \in {"none", "queued", "processing", "done"}
  /\ job \in BOOLEAN
  /\ task \in [at : {"idle", "claimed", "answering"}, seen : RowStatus]
  /\ reply \in [status : {"none", "pending", "sending", "sent", "failed"},
                attempts : 0..MaxAttempts]
  /\ box \in {"idle", "posting", "sent", "refused"}
  /\ calls \in [Attempts -> {"none", "waiting", "sending"}]
  /\ delivered \in Nat
  /\ mishaps \subseteq {"broker", "killed"}

LEMMA TypeOKIs == TypeOK <=> SessionTypeOK /\ MessageTypeOK
  BY DEF TypeOK, MessageTypeOK

\* Steps that only spend an event, or write the status of the row.
LEMMA SpendKeeps ==
  ASSUME SessionTypeOK, BridgeInv, UNCHANGED <<bridgeVars, click, removal, poll, page, clicked, raced, lost, scenario>>,
         row' \in RowStatus, events' \in 0..MaxEvents
  PROVE  SessionTypeOK' /\ BridgeInv'
  <1>1. SessionTypeOK'
    BY DEF SessionTypeOK, bridgeVars
  <1>2. QED BY <1>1, IdleKeeps DEF bridgeVars

LEMMA PostTypes ==
  ASSUME SessionTypeOK, BridgeInv, Post
  PROVE  SessionTypeOK' /\ BridgeInv'
  <1>1. CASE UNCHANGED sessionVars
    BY <1>1, SpendKeeps DEF sessionVars, rowVars, SessionTypeOK
  <1>2. CASE /\ IF current = NoSock THEN files # "none" ELSE session[current].link = "closed"
             /\ Begin("send", 0)
             /\ raced' = (raced \/ SomeStart)
             /\ UNCHANGED <<reports, rowVars, lost, events, scenario>>
    <2>1. "send" \in Starters
      BY DEF Starters
    <2>2. BridgeInv'
      BY <1>2, <2>1, BeginKeeps DEF Usable
    <2>3. /\ session' \in [Socks -> Session]
          /\ current' = NoSock
          /\ starts' = [starts EXCEPT !["send"] = NewStart(0)]
          /\ files' = IF files = "none" THEN "empty" ELSE files
      BY <1>2, <2>1, BeginDoes
    <2>4. NewStart(0) \in Start
      BY NewStartIsStart, BridgeConstants
    <2>5. starts' \in [Starters -> Start]
      BY <2>3, <2>4 DEF SessionTypeOK
    <2>6. QED BY <1>2, <2>2, <2>3, <2>5 DEF SessionTypeOK, rowVars
  <1>3. QED BY <1>1, <1>2 DEF Post

LEMMA RestartTypes ==
  ASSUME SessionTypeOK, BridgeInv, BridgeRestarts
  PROVE  SessionTypeOK' /\ BridgeInv'
  <1>1. NewStart(0) \in Start /\ NotStarting \in Start
    BY NewStartIsStart, NotStartingIsStart, BridgeConstants
  <1>2. session' \in [Socks -> Session] /\ starts' \in [Starters -> Start]
    BY <1>1, BridgeRestartsDoes, FreeIsSession
  <1>3. events' \in 0..MaxEvents
    BY BridgeRestartsDoes, EventsBounded
  <1>4. /\ current' = NoSock
        /\ reports' \in {{}, reports} /\ row' \in {row, "error"} /\ click' \in {click, "idle"}
        /\ UNCHANGED <<files, removal, poll, page, clicked, raced, lost, scenario>>
    BY BridgeRestartsDoes
  <1>5. row' \in RowStatus /\ reports' \subseteq Reported /\ click' \in {"idle", "posting", "calling"}
    BY <1>4 DEF SessionTypeOK, RowStatus, Reported
  <1>6. SessionTypeOK'
    BY <1>2, <1>3, <1>4, <1>5 DEF SessionTypeOK
  <1>7. QED BY <1>6, BridgeRestartsKeeps

\* Every step of the message keeps what holds of the session.
LEMMA SessionPartKept ==
  ASSUME SessionTypeOK, MessageTypeOK, BridgeInv, [Next]_vars
  PROVE  SessionTypeOK' /\ BridgeInv'
  <1>1. CASE SessionStep
    BY <1>1, SessionTypesKept, SessionStepKeeps DEF BridgeInv
  <1>2. CASE RestartWithCalls
    BY <1>2, RestartTypes DEF RestartWithCalls
  <1>3. CASE Post
    BY <1>3, PostTypes
  <1>4. CASE UNCHANGED sessionVars
    BY <1>4, SpendKeeps DEF sessionVars, rowVars, SessionTypeOK
  <1>5. CASE Finish
    BY <1>5, SpendKeeps DEF Finish, SessionTypeOK, RowStatus, Reported
  <1>6. ASSUME NEW q \in Requests, Forward(q) \/ Enqueue(q) PROVE SessionTypeOK' /\ BridgeInv'
    BY <1>6, SpendKeeps, EventsBounded DEF Forward, Enqueue, rowVars, SessionTypeOK
  <1>7. CASE ForwardFails \/ WorkerDies \/ PostFails \/ BoxDies
    BY <1>7, SpendKeeps, EventsBounded DEF ForwardFails, WorkerDies, PostFails, BoxDies, rowVars, SessionTypeOK
  <1>8. QED
    BY <1>1, <1>2, <1>3, <1>4, <1>5, <1>6, <1>7
    DEF Next, vars, Handle, Refuse, Store, Work, Claim, Skip, Load, Gone, Deliver, ClaimReply, Record,
        Bridge, Wait, Send

-----------------------------------------------------------------------------
(* What the message's own variables do. *)

LEMMA MessageStart == Init => MessageTypeOK /\ MessageInv
  <1> SUFFICES ASSUME Init PROVE MessageTypeOK /\ MessageInv
    OBVIOUS
  <1>1. MessageTypeOK
    <2>1. hook \in [Requests -> [at : {"free", "read", "stored"}, known : BOOLEAN]]
      BY DEF Init, FreeRequest
    <2>2. /\ task \in [at : {"idle", "claimed", "answering"}, seen : RowStatus]
          /\ reply \in [status : {"none", "pending", "sending", "sent", "failed"},
                         attempts : 0..MaxAttempts]
      BY MessageConstants DEF Init, IdleTask, NoReply, RowStatus, Reported
    <2>3. calls \in [Attempts -> {"none", "waiting", "sending"}]
      BY DEF Init
    <2>4. /\ handed \in 0..2 /\ known \in BOOLEAN /\ job \in BOOLEAN /\ delivered \in Nat
          /\ message \in {"none", "queued", "processing", "done"}
          /\ box \in {"idle", "posting", "sent", "refused"}
          /\ mishaps \subseteq {"broker", "killed"}
      <3>1. known \in BOOLEAN /\ job \in BOOLEAN
        BY Zenon DEF Init
      <3>2. handed = 0 /\ message = "none" /\ box = "idle" /\ delivered = 0 /\ mishaps = {}
        BY Zenon DEF Init
      <3>3. QED BY <3>1, <3>2
    <2>5. QED BY <2>1, <2>2, <2>3, <2>4 DEF MessageTypeOK
  <1>2. OpenCalls = {} /\ Unheard = 0
    BY DEF Init, OpenCalls, Unheard
  <1>3. EachCounted
    BY <1>2, FS_EmptySet DEF Init, NoReply, EachCounted
  <1>4. QED
    BY <1>1, <1>2, <1>3
    DEF Init, IdleTask, NoReply, MessageInv, BeforeReply, TaskHasMessage, SentIsDelivered, PostingHasAttempt

LEMMA CallsAreCounted ==
  ASSUME MessageTypeOK
  PROVE  /\ IsFiniteSet(OpenCalls) /\ Cardinality(OpenCalls) \in Nat
         /\ Unheard \in {0, 1}
  <1>1. IsFiniteSet(Attempts)
    BY FS_Interval, MessageConstants DEF Attempts
  <1>2. OpenCalls \subseteq Attempts
    BY DEF OpenCalls
  <1>3. IsFiniteSet(OpenCalls)
    BY <1>1, <1>2, FS_Subset
  <1>4. QED BY <1>3, FS_CardinalityType DEF Unheard

\* The status of a call changes: one call more, one less, or as many.
LEMMA CallChanges ==
  ASSUME MessageTypeOK, NEW n \in Attempts, NEW c \in {"none", "waiting", "sending"},
         calls' = [calls EXCEPT ![n] = c]
  PROVE  /\ calls' \in [Attempts -> {"none", "waiting", "sending"}]
         /\ calls[n] = "none" /\ c # "none" => Cardinality(OpenCalls') = Cardinality(OpenCalls) + 1
         /\ calls[n] # "none" /\ c = "none" => Cardinality(OpenCalls') = Cardinality(OpenCalls) - 1
         /\ calls[n] # "none" /\ c # "none" => OpenCalls' = OpenCalls
  <1>1. /\ calls' \in [Attempts -> {"none", "waiting", "sending"}]
        /\ calls'[n] = c
        /\ \A m \in Attempts : m # n => calls'[m] = calls[m]
    BY DEF MessageTypeOK
  <1>2. ASSUME calls[n] = "none", c # "none"
        PROVE  Cardinality(OpenCalls') = Cardinality(OpenCalls) + 1
    <2>1. OpenCalls' = OpenCalls \cup {n} /\ n \notin OpenCalls
      BY <1>1, <1>2 DEF OpenCalls
    <2>2. QED BY <2>1, CallsAreCounted, FS_AddElement
  <1>3. ASSUME calls[n] # "none", c = "none"
        PROVE  Cardinality(OpenCalls') = Cardinality(OpenCalls) - 1
    <2>1. OpenCalls' = OpenCalls \ {n} /\ n \in OpenCalls
      BY <1>1, <1>3 DEF OpenCalls
    <2>2. QED BY <2>1, CallsAreCounted, FS_RemoveElement
  <1>4. ASSUME calls[n] # "none", c # "none" PROVE OpenCalls' = OpenCalls
    BY <1>1, <1>4 DEF OpenCalls
  <1>5. QED BY <1>1, <1>2, <1>3, <1>4

\* A step that leaves reply, outbox and calls alone.
LEMMA RestOfMessage ==
  ASSUME MessageInv, UNCHANGED <<reply, box, calls, delivered>>,
         message' # "done" => message # "done", TaskHasMessage'
  PROVE  MessageInv'
  <1>1. OpenCalls' = OpenCalls /\ Unheard' = Unheard
    BY DEF OpenCalls, Unheard
  <1>2. QED
    BY <1>1 DEF MessageInv, BeforeReply, EachCounted, SentIsDelivered, PostingHasAttempt

LEMMA WebhookKeeps ==
  ASSUME MessageTypeOK, MessageInv, NEW q \in Requests, Forward(q) \/ Handle(q)
  PROVE  MessageTypeOK' /\ MessageInv'
  <1>1. CASE Forward(q)
    <2>1. MessageTypeOK'
      BY <1>1 DEF Forward, MessageTypeOK, FreeRequest
    <2>2. QED BY <1>1, <2>1, RestOfMessage DEF Forward, MessageInv, TaskHasMessage
  <1>2. CASE Refuse(q)
    <2>1. MessageTypeOK'
      BY <1>2 DEF Refuse, MessageTypeOK, FreeRequest
    <2>2. QED BY <1>2, <2>1, RestOfMessage DEF Refuse, MessageInv, TaskHasMessage
  <1>3. CASE Store(q)
    <2>1. MessageTypeOK'
      <3>1. hook' = [hook EXCEPT ![q].at = "stored"] \/ hook' = [hook EXCEPT ![q] = FreeRequest]
        BY <1>3 DEF Store
      <3>2. hook' \in [Requests -> [at : {"free", "read", "stored"}, known : BOOLEAN]]
        <4>1. hook \in [Requests -> [at : {"free", "read", "stored"}, known : BOOLEAN]]
          BY DEF MessageTypeOK
        <4>2. CASE hook' = [hook EXCEPT ![q].at = "stored"]
          BY <4>1, <4>2
        <4>3. CASE hook' = [hook EXCEPT ![q] = FreeRequest]
          BY <4>1, <4>3 DEF FreeRequest
        <4>4. QED BY <3>1, <4>2, <4>3
      <3>3. QED BY <1>3, <3>2 DEF Store, MessageTypeOK
    <2>2. TaskHasMessage' /\ (message' # "done" => message # "done")
      BY <1>3 DEF Store, MessageInv, TaskHasMessage
    <2>3. QED BY <1>3, <2>1, <2>2, RestOfMessage DEF Store
  <1>4. CASE Enqueue(q)
    <2>1. MessageTypeOK'
      BY <1>4 DEF Enqueue, MessageTypeOK, FreeRequest
    <2>2. QED BY <1>4, <2>1, RestOfMessage DEF Enqueue, MessageInv, TaskHasMessage
  <1>5. QED BY <1>1, <1>2, <1>3, <1>4 DEF Handle

LEMMA FinishKeeps ==
  ASSUME MessageTypeOK, MessageInv, Finish
  PROVE  MessageTypeOK' /\ MessageInv'
  <1>1. MessageTypeOK'
    BY MessageConstants DEF Finish, MessageTypeOK, IdleTask, RowStatus, Reported
  <1>2. reply = NoReply /\ delivered = 0 /\ OpenCalls = {} /\ box = "idle"
    BY DEF Finish, MessageInv, TaskHasMessage, BeforeReply
  <1>3. /\ delivered' = 0 /\ OpenCalls' = {} /\ box' = "idle" /\ message' = "done"
        /\ reply' = [status |-> "pending", attempts |-> 0] /\ task' = IdleTask
    BY <1>2 DEF Finish, OpenCalls
  <1>4. EachCounted'
    BY <1>3, FS_EmptySet DEF EachCounted, Unheard
  <1>5. QED
    BY <1>1, <1>3, <1>4
    DEF MessageInv, BeforeReply, TaskHasMessage, SentIsDelivered, PostingHasAttempt, IdleTask

LEMMA WorkerKeeps ==
  ASSUME MessageTypeOK, MessageInv, row \in RowStatus, Work \/ WorkerDies
  PROVE  MessageTypeOK' /\ MessageInv'
  <1>1. CASE Claim
    <2>1. MessageTypeOK'
      BY <1>1 DEF Claim, MessageTypeOK, RowStatus, Reported
    <2>2. TaskHasMessage' /\ message # "done"
      BY <1>1 DEF Claim, TaskHasMessage
    <2>3. QED BY <1>1, <2>1, <2>2, RestOfMessage DEF Claim
  <1>2. CASE Skip
    <2>1. MessageTypeOK'
      BY <1>2 DEF Skip, MessageTypeOK
    <2>2. QED BY <1>2, <2>1, RestOfMessage DEF Skip, MessageInv, TaskHasMessage
  <1>3. CASE Load
    <2>1. MessageTypeOK'
      BY <1>3 DEF Load, MessageTypeOK
    <2>2. TaskHasMessage'
      BY <1>3 DEF Load, MessageInv, TaskHasMessage
    <2>3. QED BY <1>3, <2>1, <2>2, RestOfMessage DEF Load
  <1>4. CASE Gone \/ WorkerDies
    <2>1. MessageTypeOK'
      <3>1. task' = IdleTask /\ mishaps' \in {mishaps, mishaps \cup {"killed"}} /\ job' \in {job, TRUE}
            /\ UNCHANGED <<handed, hook, known, message, reply, box, calls, delivered>>
        BY <1>4 DEF Gone, WorkerDies
      <3>2. IdleTask \in [at : {"idle", "claimed", "answering"}, seen : RowStatus]
        BY DEF IdleTask, RowStatus, Reported
      <3>3. QED BY <3>1, <3>2 DEF MessageTypeOK
    <2>2. TaskHasMessage'
      BY <1>4 DEF Gone, WorkerDies, TaskHasMessage, IdleTask
    <2>3. QED BY <1>4, <2>1, <2>2, RestOfMessage DEF Gone, WorkerDies
  <1>5. QED BY <1>1, <1>2, <1>3, <1>4, FinishKeeps DEF Work

LEMMA ClaimReplyKeeps ==
  ASSUME MessageTypeOK, MessageInv, ClaimReply
  PROVE  MessageTypeOK' /\ MessageInv'
  <1>1. /\ reply' = [status |-> "sending", attempts |-> reply.attempts + 1]
        /\ box = "idle" /\ box' = "posting"
        /\ reply.status \in {"pending", "sending"} /\ reply.attempts < MaxAttempts
        /\ UNCHANGED <<message, task, calls, delivered>>
    BY DEF ClaimReply, Due
  <1>2. reply.attempts \in 0..MaxAttempts
    BY DEF MessageTypeOK
  <1>3. reply.attempts + 1 \in Attempts
    BY <1>1, <1>2, MessageConstants DEF Attempts
  <1>4. MessageTypeOK'
    BY <1>1, <1>3, MessageConstants DEF ClaimReply, MessageTypeOK, Attempts
  <1>5. message = "done"
    BY <1>1 DEF MessageInv, BeforeReply, NoReply
  <1>6. EachCounted'
    <2>1. OpenCalls' = OpenCalls /\ Unheard = 0 /\ Unheard' \in {0, 1}
      BY <1>1 DEF OpenCalls, Unheard
    <2>2. Cardinality(OpenCalls) \in Nat /\ delivered \in Nat
      BY CallsAreCounted DEF MessageTypeOK
    <2>3. QED BY <1>1, <1>2, <2>1, <2>2 DEF EachCounted, MessageInv
  <1>7. QED
    BY <1>1, <1>3, <1>4, <1>5, <1>6
    DEF MessageInv, BeforeReply, TaskHasMessage, SentIsDelivered, PostingHasAttempt

\* What becomes of a call, and of the outbox that may wait for it.
LEMMA CallKeeps ==
  ASSUME MessageTypeOK, MessageInv, NEW n \in Attempts, NEW c \in {"none", "waiting", "sending"},
         calls' = [calls EXCEPT ![n] = c],
         \/ calls[n] = "none" /\ c # "none" /\ Unheard = 1 /\ Unheard' = 0 /\ delivered' = delivered
         \/ calls[n] # "none" /\ c # "none" /\ Unheard' = Unheard /\ delivered' = delivered
         \/ /\ calls[n] # "none" /\ c = "none" /\ Unheard' <= Unheard
            /\ delivered' \in {delivered, delivered + 1},
         box' \in {"posting", "sent", "refused", "idle"}, box' # "idle" => box # "idle",
         box' = "sent" => box = "sent" \/ delivered' = delivered + 1,
         message = "done", UNCHANGED <<handed, hook, known, message, job, task, reply, mishaps>>
  PROVE  MessageTypeOK' /\ MessageInv'
  <1>1. calls' \in [Attempts -> {"none", "waiting", "sending"}]
    BY CallChanges
  <1>2. delivered \in Nat /\ delivered' \in Nat /\ delivered <= delivered' /\ reply.attempts \in Nat
    BY DEF MessageTypeOK
  <1>3. MessageTypeOK'
    BY <1>1, <1>2 DEF MessageTypeOK
  <1>4. Unheard \in {0, 1} /\ Unheard' \in {0, 1} /\ Cardinality(OpenCalls) \in Nat
        /\ Cardinality(OpenCalls') \in Nat
    <2>1. Unheard' \in {0, 1}
      BY DEF Unheard
    <2>2. (MessageTypeOK => Cardinality(OpenCalls) \in Nat)'
      BY CallsAreCounted, PTL
    <2>3. QED BY <1>3, <2>1, <2>2, CallsAreCounted
  <1>5. EachCounted'
    <2>1. PICK d \in Nat, newD \in Nat, size \in Nat, newSize \in Nat, u \in Nat, newU \in Nat,
               bound \in Nat :
            /\ d = delivered /\ newD = delivered'
            /\ size = Cardinality(OpenCalls) /\ newSize = Cardinality(OpenCalls')
            /\ u = Unheard /\ newU = Unheard' /\ bound = reply.attempts
      BY <1>2, <1>4
    <2>2. d + size + u <= bound
      BY <2>1 DEF MessageInv, EachCounted
    <2>3. \/ newSize = size + 1 /\ u = 1 /\ newU = 0 /\ newD = d
          \/ newSize = size /\ newU = u /\ newD = d
          \/ newSize = size - 1 /\ newU <= u /\ newD \in {d, d + 1}
      BY <2>1, CallChanges
    <2>4. newD + newSize + newU <= bound
      BY <2>2, <2>3
    <2>5. delivered' + Cardinality(OpenCalls') + Unheard' <= reply'.attempts
      BY <2>1, <2>4
    <2>6. QED BY <2>5 DEF EachCounted
  <1>6. SentIsDelivered'
    BY <1>2 DEF MessageInv, SentIsDelivered
  <1>7. QED
    BY <1>3, <1>5, <1>6 DEF MessageInv, BeforeReply, TaskHasMessage, PostingHasAttempt

\* The outbox stops waiting; no call and no delivery is added.
LEMMA BoxKeeps ==
  ASSUME MessageTypeOK, MessageInv, box # "idle", box' \in {"idle", "refused"},
         UNCHANGED <<handed, hook, known, message, job, task, calls, delivered, mishaps>>,
         reply' \in [status : {"none", "pending", "sending", "sent", "failed"},
                     attempts : 0..MaxAttempts],
         reply'.attempts = reply.attempts,
         reply'.status = "sent" => reply.status = "sent" \/ box = "sent"
  PROVE  MessageTypeOK' /\ MessageInv'
  <1>1. MessageTypeOK'
    BY DEF MessageTypeOK
  <1>2. message = "done"
    BY DEF MessageInv, BeforeReply
  <1>3. OpenCalls' = OpenCalls /\ Unheard' = 0 /\ Unheard \in {0, 1}
    BY DEF OpenCalls, Unheard
  <1>4. EachCounted'
    <2>1. Cardinality(OpenCalls) \in Nat /\ delivered \in Nat /\ reply.attempts \in Nat
      BY CallsAreCounted DEF MessageTypeOK
    <2>2. QED BY <1>3, <2>1 DEF EachCounted, MessageInv
  <1>5. QED
    BY <1>1, <1>2, <1>4
    DEF MessageInv, BeforeReply, TaskHasMessage, SentIsDelivered, PostingHasAttempt

LEMMA BoxStops ==
  ASSUME MessageTypeOK, MessageInv, Record \/ PostFails \/ BoxDies
  PROVE  MessageTypeOK' /\ MessageInv'
  <1>1. /\ box # "idle" /\ box' \in {"idle", "refused"}
        /\ UNCHANGED <<handed, hook, known, message, job, task, calls, delivered, mishaps>>
    BY DEF Record, PostFails, BoxDies
  <1>2. /\ reply' \in [status : {"none", "pending", "sending", "sent", "failed"},
                       attempts : 0..MaxAttempts]
        /\ reply'.attempts = reply.attempts
        /\ reply'.status = "sent" => reply.status = "sent" \/ box = "sent"
    BY DEF Record, PostFails, BoxDies, MessageTypeOK
  <1>3. QED BY <1>1, <1>2, BoxKeeps

LEMMA PostKeeps ==
  ASSUME MessageTypeOK, MessageInv, Post
  PROVE  MessageTypeOK' /\ MessageInv'
  <1>1. /\ box = "posting" /\ calls[reply.attempts] = "none"
        /\ UNCHANGED <<handed, hook, known, message, job, task, reply, delivered, mishaps>>
    BY DEF Post
  <1>2. reply.attempts \in Attempts /\ message = "done"
    BY <1>1 DEF MessageInv, PostingHasAttempt, BeforeReply
  <1>3. ASSUME NEW c \in {"sending", "waiting"},
               calls' = [calls EXCEPT ![reply.attempts] = c], box' = box
        PROVE  MessageTypeOK' /\ MessageInv'
    <2>1. calls'[reply.attempts] = c
      BY <1>2, <1>3 DEF MessageTypeOK
    <2>2. Unheard = 1 /\ Unheard' = 0
      BY <1>1, <2>1 DEF Unheard
    <2>3. QED BY <1>1, <1>2, <1>3, <2>2, CallKeeps
  <1>4. CASE box' = "refused" /\ UNCHANGED calls
    BY <1>1, <1>4, BoxKeeps DEF MessageTypeOK
  <1>5. QED BY <1>3, <1>4 DEF Post

LEMMA BridgeCallKeeps ==
  ASSUME MessageTypeOK, MessageInv, NEW n \in Attempts, Bridge(n)
  PROVE  MessageTypeOK' /\ MessageInv'
  <1>1. /\ calls[n] # "none"
        /\ UNCHANGED <<handed, hook, known, message, job, task, reply, mishaps>>
    BY DEF Bridge, Wait, Send
  <1>2. message = "done"
    BY <1>1 DEF MessageInv, BeforeReply, OpenCalls
  <1>3. box \in {"idle", "posting", "sent", "refused"}
    BY DEF MessageTypeOK
  <1>4. CASE calls' = [calls EXCEPT ![n] = "sending"] /\ UNCHANGED box /\ delivered' = delivered
    <2>1. Unheard' = Unheard
      BY <1>1, <1>4 DEF Unheard, MessageTypeOK
    <2>2. QED BY <1>1, <1>2, <1>3, <1>4, <2>1, CallKeeps
  <1>5. ASSUME NEW result \in {"sent", "refused"}, Answer(n, result),
               delivered' \in {delivered, delivered + 1}, result = "sent" => delivered' = delivered + 1
        PROVE  MessageTypeOK' /\ MessageInv'
    <2>1. /\ calls' = [calls EXCEPT ![n] = "none"]
          /\ box' = IF box = "posting" /\ reply.attempts = n THEN result ELSE box
      BY <1>5 DEF Answer
    <2>2. Unheard' = Unheard \/ Unheard' = 0
      <3>1. CASE box = "posting" /\ reply.attempts = n
        BY <2>1, <3>1 DEF Unheard
      <3>2. CASE box = "posting" /\ reply.attempts # n
        <4>1. calls'[reply.attempts] = calls[reply.attempts]
          BY <2>1, <3>2 DEF MessageTypeOK, MessageInv, PostingHasAttempt
        <4>2. QED BY <1>1, <2>1, <3>2, <4>1 DEF Unheard
      <3>3. CASE box # "posting"
        BY <1>1, <2>1, <3>3 DEF Unheard
      <3>4. QED BY <3>1, <3>2, <3>3
    <2>3. Unheard' <= Unheard
      BY <2>2 DEF Unheard
    <2>4. /\ box' \in {"posting", "sent", "refused", "idle"}
          /\ box' # "idle" => box # "idle"
          /\ box' = "sent" => box = "sent" \/ delivered' = delivered + 1
      BY <1>3, <1>5, <2>1
    <2>5. QED BY <1>1, <1>2, <1>5, <2>1, <2>3, <2>4, CallKeeps
  <1>6. CASE Wait(n)
    BY <1>4, <1>5, <1>6 DEF Wait
  <1>7. CASE Send(n)
    BY <1>5, <1>7 DEF Send
  <1>8. QED BY <1>6, <1>7 DEF Bridge

LEMMA RestartKeeps ==
  ASSUME MessageTypeOK, MessageInv, RestartWithCalls
  PROVE  MessageTypeOK' /\ MessageInv'
  <1>1. /\ calls' = [n \in Attempts |-> "none"]
        /\ box' = IF box = "posting" THEN "refused" ELSE box
        /\ UNCHANGED <<handed, hook, known, message, job, task, reply, delivered, mishaps>>
    BY DEF RestartWithCalls
  <1>2. MessageTypeOK'
    BY <1>1 DEF MessageTypeOK
  <1>3. OpenCalls' = {} /\ Unheard' = 0 /\ Unheard \in {0, 1}
    BY <1>1 DEF OpenCalls, Unheard
  <1>4. EachCounted'
    <2>1. Cardinality(OpenCalls) \in Nat /\ delivered \in Nat /\ reply.attempts \in Nat
      BY CallsAreCounted DEF MessageTypeOK
    <2>2. Cardinality(OpenCalls') = 0
      BY <1>3, FS_EmptySet
    <2>3. QED BY <1>1, <1>3, <2>1, <2>2 DEF EachCounted, MessageInv
  <1>5. QED
    BY <1>1, <1>2, <1>3, <1>4
    DEF MessageInv, BeforeReply, TaskHasMessage, SentIsDelivered, PostingHasAttempt

\* Whose step may take the credentials of a paired session.
LEMMA FilesKept ==
  ASSUME SessionTypeOK, BridgeInv, ~raced, [Next]_vars, files = "paired", files' # "paired",
         removal' = "idle"
  PROVE  \E s \in Socks : LoggedOut(s)
  <1> SUFFICES ASSUME \A s \in Socks : ~LoggedOut(s) PROVE FALSE
    OBVIOUS
  <1>1. Alone /\ CredentialsRead /\ CodesUnpaired
    BY DEF BridgeInv, Bookkeeping
  <1>2. ASSUME NEW s \in Socks PROVE ~Qr(s) /\ ~ExpireQr(s)
    BY <1>1 DEF CredentialsRead, CodesUnpaired, Qr, ExpireQr, QrReady
  <1>3. ASSUME NEW s \in Socks, ServerCloses(s) PROVE FALSE
    <2>1. session[s].link # "leaving"
      BY <1>1 DEF Alone, PendingIsAlone, Pending
    <2>2. Closed(s, FALSE)
      BY <1>3, <2>1 DEF ServerCloses
    <2>3. QED BY <2>2, ClosedDoes
  <1>4. ASSUME NEW s \in Socks, ConnectionLost(s) PROVE FALSE
    <2>1. Closed(s, FALSE)
      BY <1>4 DEF ConnectionLost
    <2>2. QED BY <2>1, ClosedDoes
  <1>5. ~SessionStep
    BY <1>2, <1>3, <1>4
    DEF SessionStep, Serve, SessionStatus, Scan, Enter, Open, Retry, ConnectExisting, Connect, Begin, RemoveRow,
        Report, PollRead, PollAsk, PollFails, PollWrite, Pair, StartFails, Click, ConnectFails, Remove, bridgeVars
  <1>6. ~Post
    BY DEF Post, Begin, sessionVars, bridgeVars
  <1>7. QED
    BY <1>5, <1>6
    DEF Next, vars, sessionVars, bridgeVars, RestartWithCalls, BridgeRestarts, Forward, Handle, Refuse,
        Store, Enqueue, ForwardFails, Work, Claim, Skip, Load, Finish, Gone, WorkerDies, Deliver,
        ClaimReply, Record, PostFails, BoxDies, Bridge, Wait, Send

LEMMA MessagePartKept ==
  ASSUME SessionTypeOK, MessageTypeOK, MessageInv, [Next]_vars
  PROVE  MessageTypeOK' /\ MessageInv'
  <1>1. CASE UNCHANGED messageVars
    <2>1. MessageTypeOK'
      BY <1>1 DEF messageVars, MessageTypeOK
    <2>2. QED BY <1>1, <2>1, RestOfMessage DEF messageVars, MessageInv, TaskHasMessage
  <1>2. CASE ForwardFails
    <2>1. MessageTypeOK'
      BY <1>2 DEF ForwardFails, MessageTypeOK
    <2>2. QED BY <1>2, <2>1, RestOfMessage DEF ForwardFails, MessageInv, TaskHasMessage
  <1>3. row \in RowStatus
    BY DEF SessionTypeOK
  <1>4. QED
    BY <1>1, <1>2, <1>3, WebhookKeeps, WorkerKeeps, ClaimReplyKeeps, PostKeeps, BoxStops, BridgeCallKeeps,
       RestartKeeps
    DEF Next, vars, Deliver

-----------------------------------------------------------------------------
(* The theorems. *)

WhatsAppInv == SessionTypeOK /\ MessageTypeOK /\ BridgeInv /\ MessageInv

LEMMA WhatsAppInvHolds == Spec => []WhatsAppInv
  <1>1. Init => WhatsAppInv
    BY BridgeStart, MessageStart DEF WhatsAppInv
  <1>2. WhatsAppInv /\ [Next]_vars => WhatsAppInv'
    BY SessionPartKept, MessagePartKept DEF WhatsAppInv
  <1>3. QED BY <1>1, <1>2, PTL DEF Spec

\* Every variable keeps its type: the tries of a session and the attempts of a reply stay
\* within their maxima (whatsappClient.ts, models.py).
THEOREM TypesHold == Spec => []TypeOK
  <1>1. WhatsAppInv => TypeOK
    BY TypeOKIs DEF WhatsAppInv
  <1>2. QED BY <1>1, WhatsAppInvHolds, PTL

\* However many sockets are closed, codes expire, logouts fail and bridges restart, there is
\* at most one socket that is open or may become so, and it is the one in the bridge's map
\* or the one whose logout failed, unless a call of startSession overlapped another one or
\* a deletion.
THEOREM SocketStaysOne == Spec => []OneSocket
  <1>1. WhatsAppInv => OneSocket
    <2> SUFFICES ASSUME WhatsAppInv, ~raced, NEW s \in Socks, Live(s)
                 PROVE  /\ \A t \in Socks : Live(t) => t = s
                        /\ s = current \/ (lost = "logout" /\ current = NoSock)
      BY DEF OneSocket
    <2>1. Alone /\ SessionTypeOK /\ session[s].link # "closed"
      BY DEF WhatsAppInv, BridgeInv, Live
    <2>2. \A t \in Socks : Live(t) => t = s
      BY <2>1, OnlyOne
    <2>3. s = current \/ (lost = "logout" /\ current = NoSock)
      BY <2>1, OnlyOne DEF Alone, LiveIsCurrent
    <2>4. QED BY <2>2, <2>3
  <1>2. QED BY <1>1, WhatsAppInvHolds, PTL

\* The customer gets the reply no more often than delivery_attempts says, and a reply that
\* is "sent" was delivered, whatever the outbox gave up or forgot.
THEOREM DeliveriesStay == Spec => []DeliveriesCounted
  <1>1. WhatsAppInv => DeliveriesCounted
    <2> SUFFICES ASSUME WhatsAppInv PROVE DeliveriesCounted
      OBVIOUS
    <2>1. Cardinality(OpenCalls) \in Nat /\ Unheard \in {0, 1} /\ delivered \in Nat
          /\ reply.attempts \in Nat
      BY CallsAreCounted DEF WhatsAppInv, MessageTypeOK
    <2>2. QED BY <2>1 DEF WhatsAppInv, MessageInv, EachCounted, SentIsDelivered, DeliveriesCounted
  <1>2. QED BY <1>1, WhatsAppInvHolds, PTL

\* Paired credentials go only with the phone, with the owner's deletion, or after two calls
\* of startSession, or one and a deletion, overlapped: not with a connection that breaks, a
\* code that expires, a start that fails or a bridge that dies.
THEOREM CredentialsStay == Spec => CredentialsKept
  <1>1. WhatsAppInv /\ [Next]_vars =>
          [files = "paired" /\ files' # "paired" =>
             \/ raced
             \/ removal' # "idle"
             \/ \E s \in Socks : LoggedOut(s)]_sessionVars
    BY FilesKept DEF WhatsAppInv
  <1>2. QED BY <1>1, WhatsAppInvHolds, PTL DEF Spec, CredentialsKept
=============================================================================
