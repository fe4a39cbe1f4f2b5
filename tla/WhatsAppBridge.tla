--------------------------- MODULE WhatsAppBridge ---------------------------
(***************************************************************************)
(* One WhatsApp integration: the session that the Node bridge keeps for it *)
(* (whatsapp-bridge/src/whatsappClient.ts), its row in the backend's       *)
(* database, and the dashboard routes and status reports between the two.  *)
(*                                                                         *)
(* The bridge is one process; it is atomic between two awaits.  A session  *)
(* object lives as long as the map, a timer or an open socket refers to    *)
(* it.  WhatsApp's servers and the Baileys socket are external: a socket   *)
(* without credentials asks for QR codes, the server restarts a socket     *)
(* that was just paired, and any socket may be closed.                     *)
(*                                                                         *)
(* A definition X_Y just before a definition X is a faulty X: a slip the   *)
(* properties are tested against.  Nothing uses it.                        *)
(***************************************************************************)
EXTENDS Integers, FiniteSets

CONSTANTS
  Socks,                 \* slots for session objects
  NoSock,                \* no session object
  MaxReconnectAttempts,  \* maxReconnectAttempts
  MaxQrAttempts,         \* maxQrAttempts
  Scenarios,             \* sets of events that may come together (bound)
  MaxEvents              \* such events in a behaviour (bound)

Events == {"close",    \* the server or the network closes a socket
           "logout",   \* the user removes the device on the phone
           "start",    \* startSession throws
           "restart",  \* the bridge process dies and is started again
           "report",   \* a status report is lost
           "call",     \* a call of the backend to the bridge fails or times out
           "click",    \* the owner presses "connect" once more
          "look",     \* the owner has the page open, and may open it once more
           "remove",   \* the owner deletes the integration
           "write",    \* a customer writes: this and the rest in WhatsAppMessages
           "broker", "forward", "again", "crash", "abort"}

Starters == {"connect", "restore", "retry", "send"}   \* callers of startSession

ASSUME BridgeConstants ==
  /\ Socks \subseteq Nat
  /\ NoSock \notin Socks
  /\ {MaxReconnectAttempts, MaxQrAttempts} \subseteq Nat \ {0}
  /\ Scenarios \subseteq SUBSET Events
  /\ MaxEvents \in Nat

VARIABLES
  session,  \* the session objects
  current,  \* the entry of the map `sessions`
  starts,   \* the calls of startSession in flight: tries and credentials read
  files,    \* the session's directory: none, empty or with credentials
  reports,  \* status reports on their way to the backend, in any order
  row,      \* status of the whatsapp_integrations row
  click,    \* the connect request of the dashboard
  removal,  \* the delete request of the dashboard
  poll,     \* a session-status request: the status it loaded, or is about to write
  page,     \* the page's query: idle, due to ask (again), or asking
  raced,    \* a call of startSession overlapped another one or a deletion
  lost,     \* what the deletion did not reach: the bridge, or WhatsApp's server
  clicked,  \* the owner has pressed "connect"
  events,   \* events of the scenario so far
  scenario  \* the scenario of this behaviour

bridgeVars == <<session, current, starts, files, reports>>
rowVars == <<row, click, removal, poll, page, clicked>>
sessionVars == <<bridgeVars, rowVars, raced, lost, events, scenario>>

-----------------------------------------------------------------------------
\* The statuses that the backend and the page tell apart.  "starting" is initializing or
\* qr_ready; "over" is pending, disconnected or expired.
Reported == {"starting", "over", "connected", "error"}
RowStatus == Reported \cup {"active", "deleted"}

\* An object's status follows from its socket: initializing (opening, no QR code yet),
\* qr_ready (opening or paired), connected (open), disconnected (closed).
Session == [tries : 0..MaxReconnectAttempts, qrs : 0..MaxQrAttempts, creds : BOOLEAN,
            retry : BOOLEAN, link : {"opening", "paired", "open", "leaving", "closed"}]
Free == [tries |-> 0, qrs |-> 0, creds |-> FALSE, retry |-> FALSE, link |-> "closed"]

Start == [tries : -1..MaxReconnectAttempts, creds : BOOLEAN]
NotStarting == [tries |-> -1, creds |-> FALSE]
Starting(k) == starts[k] # NotStarting
SomeStart == \E k \in Starters : Starting(k)

Poll == [at : {"none", "loaded", "same", "answered"}, status : RowStatus]
NoPoll == [at |-> "none", status |-> "over"]

Spend(event) ==
  /\ event \in scenario
  /\ events < MaxEvents
  /\ events' = events + 1

\* An object nothing refers to any more is garbage.
Swept(objects, entry) ==
  [s \in Socks |->
     IF s # entry /\ objects[s].link = "closed" /\ ~objects[s].retry
     THEN Free ELSE objects[s]]

QrReady(s) == session[s].link = "opening" /\ session[s].qrs > 0
Connected == current # NoSock /\ session[current].link = "open"
Live(s) == session[s].link \in {"opening", "paired", "open"}

SessionInit ==
  /\ session = [s \in Socks |-> Free]
  /\ current = NoSock
  /\ starts = [k \in Starters |-> NotStarting]
  /\ files = "none"
  /\ reports = {}
  /\ row = "over"
  /\ click = "idle"
  /\ removal = "idle"
  /\ poll = NoPoll
  /\ page = "idle"
  /\ raced = FALSE
  /\ lost = "nothing"
  /\ clicked = FALSE
  /\ events = 0
  /\ scenario \in Scenarios

-----------------------------------------------------------------------------
(* startSession. *)

\* The check of the map: a session that is not over is returned as it is.
Usable ==
  current # NoSock /\ session[current].link # "closed"

\* Up to the first await: the old entry goes with its timers, the directory is
\* there, and the credentials in it are read.
Begin_TimerKept(k, n) ==
  /\ ~Starting(k)
  /\ starts' = [starts EXCEPT ![k] = [tries |-> n, creds |-> files = "paired"]]
  /\ files' = IF files = "none" THEN "empty" ELSE files
  /\ current' = NoSock
  /\ session' = Swept(session, NoSock)
Begin(k, n) ==
  /\ ~Starting(k)
  /\ starts' = [starts EXCEPT ![k] = [tries |-> n, creds |-> files = "paired"]]
  /\ files' = IF files = "none" THEN "empty" ELSE files
  /\ current' = NoSock
  /\ session' = Swept([s \in Socks |->
                         IF s = current THEN [session[s] EXCEPT !.retry = FALSE]
                         ELSE session[s]], NoSock)

\* The page is told that the connect request succeeded, and asks for the status anew.
Success ==
  /\ click' = "idle"
  /\ page' = "due"

\* After the last await: the new object takes the map's entry, whatever it is.
Enter(k) ==
  /\ Starting(k)
  /\ \E s \in Socks :
       /\ session[s] = Free /\ s # current
       /\ \A t \in Socks : t < s => session[t] # Free \/ t = current
       /\ current' = s
       /\ session' = Swept([session EXCEPT ![s] =
                       [tries |-> starts[k].tries, qrs |-> 0, creds |-> starts[k].creds,
                        retry |-> FALSE, link |-> "opening"]], s)
  /\ starts' = [starts EXCEPT ![k] = NotStarting]
  /\ reports' = reports \cup {"starting"}
  /\ IF k = "connect" /\ click = "calling" THEN Success ELSE UNCHANGED <<click, page>>
  /\ UNCHANGED <<files, row, removal, poll, clicked, raced, lost, events, scenario>>

\* Only the reconnect timer reports it; the others answer their caller.
StartFails(k) ==
  /\ Starting(k)
  /\ Spend("start")
  /\ starts' = [starts EXCEPT ![k] = NotStarting]
  /\ reports' = IF k = "retry" THEN reports \cup {"error"} ELSE reports
  /\ IF k = "connect" /\ click = "calling"
     THEN /\ click' = "idle"
          /\ row' = IF row = "deleted" THEN row ELSE "error"
     ELSE UNCHANGED <<click, row>>
  /\ UNCHANGED <<session, current, files, removal, poll, page, clicked, raced, lost, scenario>>

-----------------------------------------------------------------------------
(* The callbacks of a session object. *)

\* setReported: the object and a report nobody waits for.
Becomes(s, change, entry, status) ==
  /\ session' = Swept([session EXCEPT ![s] = change], entry)
  /\ current' = entry
  /\ reports' = reports \cup {status}

\* The QR code is given up: closing the socket runs its close handler first, which
\* sees "expired"; map entry and directory go, whoever they belong to.
Expired(s) ==
  /\ Becomes(s, Free, NoSock, "over")
  /\ files' = "none"

Qr(s) ==
  LET now == session[s]
  IN  /\ now.link = "opening"
      /\ ~now.creds
      /\ IF now.qrs + 1 > MaxQrAttempts
         THEN Expired(s)
         ELSE /\ Becomes(s, [now EXCEPT !.qrs = @ + 1], current, "starting")
              /\ UNCHANGED files
      /\ UNCHANGED <<starts, rowVars, raced, lost, events, scenario>>

\* The expiry timer of the QR code, long after the server has restarted a paired socket.
ExpireQr(s) ==
  /\ QrReady(s)
  /\ Expired(s)
  /\ UNCHANGED <<starts, rowVars, raced, lost, events, scenario>>

\* The owner scans the code that session-status shows: the credentials are saved if the directory is still there.
Pair(s) ==
  /\ QrReady(s)
  /\ removal = "idle"
  /\ session' = [session EXCEPT ![s].link = "paired"]
  /\ files' = IF files = "none" THEN files ELSE "paired"
  /\ UNCHANGED <<current, starts, reports, rowVars, raced, lost, events, scenario>>

Open(s) ==
  /\ session[s].link = "opening"
  /\ session[s].creds
  /\ Becomes(s, [session[s] EXCEPT !.link = "open"], current, "connected")
  /\ UNCHANGED <<starts, files, rowVars, raced, lost, events, scenario>>

\* The close handler.
Closed_AlwaysCleans(s, loggedOut) ==
  LET now == session[s]
  IN  IF ~loggedOut /\ now.tries < MaxReconnectAttempts
      THEN /\ Becomes(s, [now EXCEPT !.link = "closed", !.qrs = 0, !.retry = TRUE],
                      current, "over")
           /\ UNCHANGED files
      ELSE /\ Becomes(s, Free, NoSock, "over")
           /\ files' = "none"
Closed(s, loggedOut) ==
  LET now == session[s]
  IN  IF ~loggedOut /\ now.tries < MaxReconnectAttempts
      THEN /\ Becomes(s, [now EXCEPT !.link = "closed", !.qrs = 0, !.retry = TRUE],
                      current, "over")
           /\ UNCHANGED files
      ELSE /\ Becomes(s, Free, NoSock, "over")
           /\ files' = IF loggedOut THEN "none" ELSE files

\* The server restarts the paired socket and ends the one that logs out.
ServerCloses(s) ==
  /\ session[s].link \in {"paired", "leaving"}
  /\ Closed(s, session[s].link = "leaving")
  /\ UNCHANGED <<starts, rowVars, raced, lost, events, scenario>>

\* The connection breaks, that of a logout in progress included.
ConnectionLost(s) ==
  /\ session[s].link # "closed"
  /\ Spend("close")
  /\ Closed(s, FALSE)
  /\ UNCHANGED <<starts, rowVars, raced, lost, scenario>>

\* The device is removed on the phone.
LoggedOut(s) ==
  /\ Live(s) /\ session[s].creds
  /\ Spend("logout")
  /\ Closed(s, TRUE)
  /\ UNCHANGED <<starts, rowVars, raced, lost, scenario>>

\* The reconnect timer: it empties the map whatever is in it.
Retry(s) ==
  /\ session[s].retry
  /\ ~Starting("retry")
  /\ starts' = [starts EXCEPT !["retry"] =
                  [tries |-> session[s].tries + 1, creds |-> files = "paired"]]
  /\ files' = IF files = "none" THEN "empty" ELSE files
  /\ current' = NoSock
  /\ session' = Swept([session EXCEPT ![s].retry = FALSE], NoSock)
  /\ raced' = (raced \/ SomeStart)
  /\ UNCHANGED <<reports, rowVars, lost, events, scenario>>

\* The bridge dies, and comes back with what is on the disk.
BridgeRestarts ==
  /\ Spend("restart")
  /\ session' = [s \in Socks |-> Free]
  /\ current' = NoSock
  /\ starts' = [k \in Starters |->
                  IF k = "restore" /\ files # "none"
                  THEN [tries |-> 0, creds |-> files = "paired"] ELSE NotStarting]
  /\ reports' \in {{}, reports}
  /\ IF click = "calling"
     THEN click' = "idle" /\ row' = (IF row = "deleted" THEN row ELSE "error")
     ELSE UNCHANGED <<click, row>>
  /\ UNCHANGED <<files, removal, poll, page, clicked, raced, lost, scenario>>

-----------------------------------------------------------------------------
(* The dashboard and the status webhook.  Each database step is one transaction. *)

\* "connect" writes the status before it calls the bridge.
Click ==
  /\ row # "deleted"
  /\ click = "idle"
  /\ IF clicked THEN Spend("click") ELSE UNCHANGED events
  /\ clicked' = TRUE
  /\ row' = "starting"
  /\ click' = "posting"
  /\ UNCHANGED <<bridgeVars, removal, poll, page, raced, lost, scenario>>

ConnectExisting ==
  /\ click = "posting"
  /\ Usable
  /\ Success
  /\ UNCHANGED <<bridgeVars, row, removal, poll, clicked, raced, lost, events, scenario>>

Connect ==
  /\ click = "posting"
  /\ ~Usable
  /\ Begin("connect", 0)
  /\ raced' = (raced \/ removal # "idle" \/ SomeStart)
  /\ click' = "calling"
  /\ UNCHANGED <<reports, row, removal, poll, page, clicked, lost, events, scenario>>

\* The bridge does not answer in time; it may still do what it was asked.
ConnectFails ==
  /\ click # "idle"
  /\ Spend("call")
  /\ click' = "idle"
  /\ row' = IF row = "deleted" THEN row ELSE "error"
  /\ UNCHANGED <<bridgeVars, removal, poll, page, clicked, raced, lost, scenario>>

\* The logout of deleteSession.  It fails at once for a paired device whose socket cannot
\* send yet, or no more: that is logged, and the socket goes on with its handlers.
Device(s) == session[s].creds \/ session[s].link = "paired"
Left(s, link) ==
  IF session[s].link = "closed" THEN Free ELSE [session[s] EXCEPT !.link = link, !.qrs = 0]
Logout ==
  \/ /\ session' = IF current = NoSock THEN session
                    ELSE [session EXCEPT ![current] = Left(current, "leaving")]
     /\ UNCHANGED lost
  \/ /\ current # NoSock
     /\ session[current].link # "closed"
     /\ Device(current)
     /\ session' = [session EXCEPT ![current] = Left(current, @.link)]
     /\ lost' = "logout"

\* deleteSession: timers cleared, logout begun, entry and directory removed.
DeleteSession_KeepFiles ==
  /\ Logout
  /\ current' = NoSock
  /\ reports' = reports \cup {"over"}
  /\ raced' = (raced \/ SomeStart)
  /\ UNCHANGED <<starts, files>>
DeleteSession ==
  /\ Logout
  /\ current' = NoSock
  /\ files' = "none"
  /\ reports' = reports \cup {"over"}
  /\ raced' = (raced \/ SomeStart)
  /\ UNCHANGED starts

\* The delete request goes on whether or not the bridge could be reached.
Remove ==
  /\ removal = "idle"
  /\ removal' = "told"
  /\ Spend("remove")
  /\ \/ DeleteSession
     \/ lost' = "call" /\ UNCHANGED <<bridgeVars, raced>>
  /\ UNCHANGED <<row, click, poll, page, clicked, scenario>>

RemoveRow ==
  /\ removal = "told"
  /\ removal' = "done"
  /\ row' = "deleted"
  /\ UNCHANGED <<bridgeVars, click, poll, page, clicked, raced, lost, events, scenario>>

\* The page asks again only after an answer that says "starting".  The answer to a request
\* made before a connect is not looked at any more.
Show(status) ==
  page' = IF page # "asking" THEN page ELSE IF status = "starting" THEN "due" ELSE "idle"

\* session-status: the row is loaded, ...
PollRead ==
  /\ row # "deleted"
  /\ poll = NoPoll
  /\ "look" \in scenario
  /\ IF page = "due" THEN UNCHANGED events ELSE Spend("look")
  /\ poll' = [at |-> "loaded", status |-> row]
  /\ page' = "asking"
  /\ UNCHANGED <<bridgeVars, row, click, removal, clicked, raced, lost, scenario>>

\* ... the bridge is asked, which may not know the session ...
Shown ==
  CASE session[current].link = "open" -> "connected"
    [] session[current].link = "closed" -> "over"
    [] OTHER -> "starting"
PollAsk ==
  /\ poll.at = "loaded"
  /\ IF current = NoSock
     THEN poll' = NoPoll /\ Show(poll.status)
     ELSE /\ poll' = IF Shown = poll.status THEN [at |-> "same", status |-> "over"]
                     ELSE [at |-> "answered", status |-> Shown]
          /\ UNCHANGED page
  /\ UNCHANGED <<bridgeVars, row, click, removal, clicked, raced, lost, events, scenario>>

\* ... or not be there ...
PollFails ==
  /\ poll.at = "loaded"
  /\ Spend("call")
  /\ poll' = NoPoll
  /\ Show(poll.status)
  /\ UNCHANGED <<bridgeVars, row, click, removal, clicked, raced, lost, scenario>>

\* ... and its answer is written, unless it is the status that was loaded.
PollWrite ==
  /\ poll.at \in {"same", "answered"}
  /\ poll' = NoPoll
  /\ row' = IF row = "deleted" \/ poll.at = "same" THEN row ELSE poll.status
  /\ Show(row')
  /\ UNCHANGED <<bridgeVars, click, removal, clicked, raced, lost, events, scenario>>

\* Reports are not waited for and may arrive in any order, or be lost.
Report(status) ==
  /\ status \in reports
  /\ reports' = reports \ {status}
  /\ \/ /\ row' = IF row = "deleted" THEN row ELSE status
        /\ UNCHANGED events
     \/ Spend("report") /\ UNCHANGED row
  /\ UNCHANGED <<session, current, starts, files, click, removal, poll, page, clicked, raced, lost, scenario>>

-----------------------------------------------------------------------------
\* What a live process, a timer or WhatsApp's server gets to in the end.
Serve ==
  \/ \E k \in Starters : Enter(k)
  \/ \E s \in Socks : Open(s) \/ ServerCloses(s) \/ Retry(s)
  \/ ConnectExisting
  \/ Connect
  \/ RemoveRow
  \/ \E status \in Reported : Report(status)

SessionStatus == PollRead \/ PollAsk \/ PollFails \/ PollWrite

Scan == \E s \in Socks : Qr(s) \/ ExpireQr(s)

\* Everything but the death of the bridge, which concerns its send calls too.
SessionStep ==
  \/ Serve
  \/ SessionStatus
  \/ Scan
  \/ \E s \in Socks : Pair(s) \/ ConnectionLost(s) \/ LoggedOut(s)
  \/ \E k \in Starters : StartFails(k)
  \/ Click
  \/ ConnectFails
  \/ Remove

SessionFairness ==
  /\ \A k \in Starters : WF_sessionVars(Enter(k))
  /\ \A s \in Socks :
       /\ WF_sessionVars(Open(s))
       /\ WF_sessionVars(ServerCloses(s))
       /\ WF_sessionVars(Retry(s))
       /\ SF_sessionVars(ExpireQr(s))
       /\ WF_sessionVars(Qr(s))
  /\ WF_sessionVars(ConnectExisting \/ Connect)
  /\ WF_sessionVars(RemoveRow)
  /\ \A status \in Reported : WF_sessionVars(Report(status))
  /\ WF_sessionVars(PollAsk)
  /\ WF_sessionVars(PollWrite)

\* The owner keeps the page open while it goes on asking by itself.
PageFairness == WF_sessionVars(page = "due" /\ PollRead)

-----------------------------------------------------------------------------
SessionTypeOK ==
  /\ session \in [Socks -> Session]
  /\ current \in Socks \cup {NoSock}
  /\ starts \in [Starters -> Start]
  /\ files \in {"none", "empty", "paired"}
  /\ reports \subseteq Reported
  /\ row \in RowStatus
  /\ click \in {"idle", "posting", "calling"}
  /\ removal \in {"idle", "told", "done"}
  /\ poll \in Poll
  /\ page \in {"idle", "due", "asking"}
  /\ raced \in BOOLEAN
  /\ lost \in {"nothing", "call", "logout"}
  /\ clicked \in BOOLEAN
  /\ events \in 0..MaxEvents

\* One socket to a session: of the sockets that are open, or may become so, there is at
\* most one, through reconnects, expired codes, deletions and restarts of the bridge; it is
\* the one in the map, where a send, a status request and a deletion find it, unless its
\* logout failed.  The exception is a call of startSession that overlapped another one or
\* a deletion.
OneSocket ==
  raced \/ \A s \in Socks : Live(s) =>
             /\ \A t \in Socks : Live(t) => t = s
             /\ s = current \/ (lost = "logout" /\ current = NoSock)

\* whatsapp-integration/spec.md:63: the credentials of a paired session survive; only
\* the phone, the owner or such an overlap ends them.
CredentialsKept ==
  [][files = "paired" /\ files' # "paired" =>
       \/ raced
       \/ removal' # "idle"
       \/ \E s \in Socks : LoggedOut(s)]_sessionVars

\* A deleted integration leaves no socket and no credentials behind in the end, even if
\* the connection breaks during the logout and the session is started again.  A logout
\* that fails leaves the socket, but not the credentials; a bridge that could not be
\* reached keeps both.
DeletedGoesAway ==
  row = "deleted" ~>
    \/ raced \/ lost = "call"
    \/ files # "paired" /\ (lost = "logout" \/ \A s \in Socks : ~Live(s))

\* specs/007-whatsapp-integration/spec.md:67 and report-findings/05: the row follows the
\* session, so a connected session's row accepts messages in the end.  The code does not
\* keep this: a report that is overtaken by a later one is written after it, and the page
\* has stopped asking by then.
Accepting == {"active", "connected", "error"}
StatusFollows == Connected ~> (~Connected \/ row \in Accepting \/ row = "deleted")
=============================================================================
