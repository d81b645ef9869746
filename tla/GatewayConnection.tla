-------------------------- MODULE GatewayConnection --------------------------
(***************************************************************************)
(* The browser's connection to the gateway: the slot for one client of     *)
(* src/lib/gateway/GatewayClient.ts, the sockets of openclaw/              *)
(* GatewayBrowserClient.ts, and the calls of the hook useGatewayConnection *)
(* that connect, disconnect and retry.                                     *)
(*                                                                         *)
(* A call of the hook's connect may try twice, each time with a client of  *)
(* its own, so a client is a pair of a call and a number.  Handlers,       *)
(* timers and the continuations of awaits are one step each, with the      *)
(* React effect they trigger.                                              *)
(***************************************************************************)
EXTENDS Naturals

CONSTANTS
    MaxCalls,     \* bound on the calls of the hook's connect
    Attempts,     \* resolveInitialGatewayConnectAttemptCount: 1 or 2
    MaxRetries,   \* MAX_AUTO_RETRY_ATTEMPTS
    NoClient

Calls == 1..MaxCalls
Clients == Calls \X (1..Attempts)

ASSUME ConnectionAssumption ==
    /\ MaxCalls \in Nat /\ MaxRetries \in Nat /\ Attempts \in Nat \ {0}
    /\ NoClient \notin Clients

VARIABLES
    current,      \* this.client
    status,       \* this.status, and the hook's copy of it
    manual,       \* this.manualDisconnect
    pendingConnect, \* the client whose connect can be resolved or rejected
    socket,       \* socket[k]: unused, opening, asked, up, stopped, gone
    at,           \* at[c]: ready, flushing, connecting, pausing, checking, over
    try,          \* try[c]: the attempt c is at
    error,        \* the hook's error and code: none, retryable, fatal
    once,         \* hasConnectedOnceRef
    wasManual,    \* wasManualDisconnectRef
    auto,         \* the automatic first connect: no, armed, done
                  \* (didAutoConnect is auto # "no")
    retryAttempt, \* retryAttemptRef
    retryTimer    \* the attempt the retry timer was armed with, or NoTimer

connection == <<current, status, manual, pendingConnect, socket, at, try, error, once,
                wasManual, auto, retryAttempt, retryTimer>>
slot == <<current, status, manual, pendingConnect, socket>>

NoTimer == MaxRetries + 2
Live == {"opening", "asked", "up"}
ConnectionTypeOK ==
    /\ current \in Clients \cup {NoClient} /\ pendingConnect \in Clients \cup {NoClient}
    /\ status \in {"disconnected", "connecting", "connected"}
    /\ {manual, once, wasManual} \subseteq BOOLEAN /\ auto \in {"no", "armed", "done"}
    /\ socket \in [Clients -> Live \cup {"unused", "stopped", "gone"}]
    /\ at \in [Calls -> {"ready", "flushing", "connecting", "pausing", "checking", "over"}]
    /\ try \in [Calls -> 1..Attempts] /\ error \in {"none", "retryable", "fatal"}
    /\ retryAttempt \in 0..MaxRetries + 1 /\ retryTimer \in 0..NoTimer

ConnectionInit ==
    /\ current = NoClient /\ pendingConnect = NoClient
    /\ status = "disconnected" /\ manual = FALSE
    /\ socket = [k \in Clients |-> "unused"]
    /\ at = [c \in Calls |-> "ready"] /\ try = [c \in Calls |-> 1]
    /\ error = "none" /\ once = FALSE /\ wasManual = FALSE
    /\ auto \in {"no", "armed"}    \* armed when the settings name a good gateway
    /\ retryAttempt = 0 /\ retryTimer = NoTimer

-----------------------------------------------------------------------------
(* The retry effect: it runs again when what it depends on has changed.    *)

RetryDelay(st, err, n) ==
    /\ st = "disconnected" /\ err # "fatal" /\ n < MaxRetries
    /\ once' /\ ~wasManual' /\ auto' # "no"
StatusChanged == status' # status                      \* seeded fault
Changed == status' # status \/ error' # error
\* t: the timer as the handler itself leaves it.
RetryEffect(t) ==
    retryTimer' = IF ~Changed THEN t
                  ELSE IF RetryDelay(status', error', retryAttempt') THEN retryAttempt'
                  ELSE NoTimer

\* GatewayClient.disconnect, on a slot that is not empty.
Stopped(k) == IF socket[k] \in Live THEN "stopped" ELSE socket[k]
Drop ==
    /\ current' = NoClient /\ pendingConnect' = NoClient /\ status' = "disconnected"
    /\ socket' = IF current = NoClient THEN socket
                 ELSE [socket EXCEPT ![current] = Stopped(current)]
ClientDisconnect ==
    IF current = NoClient THEN UNCHANGED slot ELSE Drop /\ manual' = TRUE

-----------------------------------------------------------------------------
(* connect of the hook                                                     *)

Start(c, attempt) ==
    /\ at[c] = "ready" /\ \A d \in 1..(c - 1) : at[d] # "ready"
    /\ at' = [at EXCEPT ![c] = "flushing"]
    /\ error' = "none" /\ wasManual' = FALSE /\ retryAttempt' = attempt
    /\ auto' = IF auto = "armed" THEN "done" ELSE auto
    /\ UNCHANGED <<slot, try, once>>
    /\ RetryEffect(NoTimer)

UserConnects(c) == status = "disconnected" /\ Start(c, 0)
AutoConnects(c) == auto = "armed" /\ Start(c, 0)
RetryFires(c) == retryTimer # NoTimer /\ Start(c, retryTimer + 1)

\* The settings could not be written.
FlushFails(c) ==
    /\ at[c] = "flushing"
    /\ at' = [at EXCEPT ![c] = "over"]
    /\ error' = "retryable"
    /\ UNCHANGED <<slot, try, once, wasManual, auto, retryAttempt>>
    /\ RetryEffect(retryTimer)

\* The catch of the hook: the last attempt reports the error; before that the
\* client is disconnected, whichever it is, and the call tries again.
LastAttempt(c) == try[c] = Attempts
Reports(c, err) ==
    /\ LastAttempt(c)
    /\ at' = [at EXCEPT ![c] = "over"] /\ error' = err
    /\ UNCHANGED try
TriesAgain(c) ==
    /\ ~LastAttempt(c)
    /\ at' = [at EXCEPT ![c] = "pausing"] /\ try' = [try EXCEPT ![c] = @ + 1]

\* client.connect: refused while the slot is taken.
Begin(c) ==
    /\ \/ at[c] = "flushing"
       \/ at[c] = "pausing"
    /\ IF current = NoClient
       THEN /\ current' = <<c, try[c]>> /\ pendingConnect' = <<c, try[c]>>
            /\ status' = "connecting" /\ manual' = FALSE
            /\ socket' = [socket EXCEPT ![<<c, try[c]>>] = "opening"]
            /\ at' = [at EXCEPT ![c] = "connecting"]
            /\ UNCHANGED <<try, error>>
       ELSE \/ Reports(c, "retryable") /\ UNCHANGED slot
            \/ TriesAgain(c) /\ ClientDisconnect /\ error' = "none"
    /\ UNCHANGED <<once, wasManual, auto, retryAttempt>>
    /\ RetryEffect(retryTimer)

\* The connect timeout of a call: the catch stops whatever client is current,
\* which need not be the one the call has waited for.
TimesOut(c) ==
    /\ at[c] = "connecting"
    /\ Drop
    /\ \/ Reports(c, "retryable") /\ UNCHANGED manual
       \/ TriesAgain(c) /\ UNCHANGED manual /\ error' = "none"
    /\ UNCHANGED <<once, wasManual, auto, retryAttempt>>
    /\ RetryEffect(retryTimer)

\* After a hello the call checks the gateway's reload mode; then the gateway
\* is known to be good, which arms the automatic connect if it never ran.
CheckEnds(c) ==
    /\ at[c] = "checking"
    /\ at' = [at EXCEPT ![c] = "over"]
    /\ \/ error' = "retryable" /\ UNCHANGED auto
       \/ auto' = (IF auto = "no" THEN "armed" ELSE auto) /\ UNCHANGED error
    /\ UNCHANGED <<slot, try, once, wasManual, retryAttempt>>
    /\ RetryEffect(retryTimer)

-----------------------------------------------------------------------------
(* Sockets                                                                 *)

\* The socket opens and the connect request is sent.
SocketOpens(k) ==
    /\ socket[k] = "opening"
    /\ socket' = [socket EXCEPT ![k] = "asked"]
    /\ UNCHANGED <<current, status, manual, pendingConnect, at, try, error, once,
                   wasManual, auto, retryAttempt, retryTimer>>

\* onHello; a client that is not the slot's has been stopped.
Hello(k) ==
    /\ socket[k] = "asked" /\ current = k
    /\ socket' = [socket EXCEPT ![k] = "up"]
    /\ status' = "connected" /\ error' = "none" /\ once' = TRUE
    /\ pendingConnect' = NoClient
    /\ at' = IF pendingConnect = NoClient THEN at
             ELSE [at EXCEPT ![pendingConnect[1]] = "checking"]
    /\ UNCHANGED <<current, manual, try, wasManual, auto, retryAttempt>>
    /\ RetryEffect(retryTimer)

\* onClose.  For the slot's client: the waiting connect fails, the client is
\* stopped so that it does not reconnect by itself, the slot is emptied.  The
\* late close of a client stopped before is ignored.
OwnClose(k) == current = k
NeverStopped(k) == "opening"                           \* seeded fault
AfterClose(k) == IF manual THEN "opening" ELSE "gone"

SocketCloses(k, err) ==
    /\ socket[k] \in Live \cup {"stopped"}
    /\ err = "fatal" => socket[k] = "asked"
    /\ IF OwnClose(k)
       THEN /\ current' = NoClient /\ pendingConnect' = NoClient
            /\ status' = "disconnected"
            /\ socket' = [socket EXCEPT ![k] = AfterClose(k)]
            /\ IF pendingConnect = NoClient THEN error' = "none" /\ UNCHANGED <<at, try>>
               ELSE LET c == pendingConnect[1]
                    IN \/ Reports(c, err)
                       \/ TriesAgain(c) /\ error' = "none"
       ELSE /\ socket' = [socket EXCEPT ![k] = "gone"]
            /\ UNCHANGED <<current, pendingConnect, status, at, try, error>>
    /\ UNCHANGED <<manual, once, wasManual, auto, retryAttempt>>
    /\ RetryEffect(retryTimer)

-----------------------------------------------------------------------------
\* disconnect of the hook.
UserDisconnects ==
    /\ error' = "none" /\ wasManual' = TRUE
    /\ ClientDisconnect
    /\ UNCHANGED <<at, try, once, auto, retryAttempt>>
    /\ RetryEffect(retryTimer)

\* Ten seconds connected.
Stable ==
    /\ status = "connected" /\ retryAttempt # 0
    /\ retryAttempt' = 0
    /\ UNCHANGED <<slot, at, try, error, once, wasManual, auto, retryTimer>>

ConnectionNext ==
    \/ \E c \in Calls : \/ UserConnects(c)
                        \/ AutoConnects(c)
                        \/ RetryFires(c)
                        \/ FlushFails(c)
                        \/ Begin(c)
                        \/ TimesOut(c)
                        \/ CheckEnds(c)
    \/ \E k \in Clients : \/ SocketOpens(k)
                          \/ Hello(k)
    \/ \E k \in Clients, err \in {"retryable", "fatal"} : SocketCloses(k, err)
    \/ UserDisconnects
    \/ Stable

ConnectionSpec == ConnectionInit /\ [][ConnectionNext]_connection

-----------------------------------------------------------------------------
(* Properties                                                              *)

\* There is never a socket beside the slot's: whatever is abandoned has been
\* stopped and does not reconnect; and the status is that of the slot.
OneConnection ==
    /\ \A k \in Clients : socket[k] \in Live => k = current
    /\ (status = "disconnected") = (current = NoClient)
    /\ status = "connected" => socket[current] = "up"

\* The call of connect whose attempt is up never takes it down: it waits for
\* nothing any more.  What else may take it down is its own close, the user,
\* and a step of another call that is still under way: the late timeout of a
\* call that was abandoned stops whatever is current, and so does a further
\* attempt that finds the slot taken.
UnderWay(c) == at[c] \notin {"ready", "over", "checking"}
StepOf(c) == at'[c] # at[c] \/ try'[c] # try[c]
KeptUp ==
    [][status = "connected" /\ status' # "connected"
       => \/ socket'[current] = "gone"
          \/ wasManual' /\ UNCHANGED <<at, try>>
          \/ \E c \in Calls : c # current[1] /\ UnderWay(c) /\ StepOf(c)]_connection

\* The retry is never lost: a connection that was up once, is down, has not
\* been closed by the user or refused, and has attempts left, is being
\* retried or has its timer armed.
RetryArmed ==
    status = "disconnected" /\ once /\ auto = "done" /\ ~wasManual /\ error # "fatal"
        /\ retryAttempt < MaxRetries /\ (\A c \in Calls : ~UnderWay(c))
    => retryTimer # NoTimer
=============================================================================
