-------------------------- MODULE StudioClientProofs --------------------------
(***************************************************************************)
(* Proofs about the Studio's window as a client.  GatewayConnection, for   *)
(* any number of calls, attempts and retries: there is one connection, it  *)
(* is not taken down by what was abandoned, and the retry after a loss is  *)
(* never itself lost.  ExecApprovals, for any number of approvals and      *)
(* runs: one follow-up per pause, and no approval passed over.             *)
(* HistorySync, for any number of runs, requests and lost connections: no  *)
(* line of a session that was reset comes back, and merging an answer      *)
(* forgets nothing and shows nothing twice.                                *)
(***************************************************************************)
EXTENDS GatewayConnection, ExecApprovals, HistorySync, FiniteSetTheorems, TLAPS

-----------------------------------------------------------------------------
(* GatewayConnection                                                       *)

USE ConnectionAssumption

\* The retry timer holds an attempt that may be made.
ConnectionTypes ==
    ConnectionTypeOK /\ (retryTimer = NoTimer \/ retryTimer < MaxRetries)

\* A call and its attempt make a client.
LEMMA Tries ==
  ASSUME NEW c \in Calls, ConnectionTypeOK
  PROVE  <<c, try[c]>> \in Clients
BY DEF ConnectionTypeOK, Clients

\* What a failed attempt leaves of its call.
LEMMA NextTry ==
  ASSUME NEW c \in Calls, ConnectionTypeOK, Reports(c, error') \/ TriesAgain(c)
  PROVE  /\ at' \in [Calls -> {"ready", "flushing", "connecting", "pausing", "checking", "over"}]
         /\ try' \in [Calls -> 1..Attempts]
BY DEF ConnectionTypeOK, Reports, TriesAgain, LastAttempt

\* What the retry effect leaves in the timer.
LEMMA TimerType ==
  ASSUME NEW t \in 0..NoTimer, t = NoTimer \/ t < MaxRetries, RetryEffect(t),
         retryAttempt' \in 0..MaxRetries + 1
  PROVE  retryTimer' \in 0..NoTimer /\ (retryTimer' = NoTimer \/ retryTimer' < MaxRetries)
BY DEF RetryEffect, RetryDelay, NoTimer

\* What dropping the client leaves of the slot.
LEMMA Closing ==
  ASSUME ConnectionTypeOK, Drop
  PROVE  /\ socket' \in [Clients -> Live \cup {"unused", "stopped", "gone"}]
         /\ current' = NoClient /\ pendingConnect' = NoClient /\ status' = "disconnected"
BY DEF ConnectionTypeOK, Drop, Stopped, Live

\* Type correctness of every behaviour.
THEOREM ConnectionTypeCorrect == ConnectionSpec => []ConnectionTypes
<1>1. ConnectionInit => ConnectionTypes
  <2> SUFFICES ASSUME ConnectionInit PROVE ConnectionTypes
    OBVIOUS
  <2>1. retryTimer \in 0..NoTimer /\ retryAttempt \in 0..MaxRetries + 1
    BY DEF ConnectionInit, NoTimer
  <2>2. try \in [Calls -> 1..Attempts]
    BY DEF ConnectionInit
  <2> QED BY <2>1, <2>2 DEF ConnectionInit, ConnectionTypes, ConnectionTypeOK
<1>2. ConnectionTypes /\ [ConnectionNext]_connection => ConnectionTypes'
  <2> SUFFICES ASSUME ConnectionTypes, [ConnectionNext]_connection PROVE ConnectionTypes'
    OBVIOUS
  <2> DEFINE Steps == {"ready", "flushing", "connecting", "pausing", "checking", "over"}
  <2>t. /\ ConnectionTypeOK /\ retryTimer \in 0..NoTimer /\ NoTimer \in 0..NoTimer
        /\ retryTimer = NoTimer \/ retryTimer < MaxRetries
    BY DEF ConnectionTypes, ConnectionTypeOK, NoTimer
  <2>s. ASSUME NEW c \in Calls, NEW n \in 0..MaxRetries + 1, Start(c, n) PROVE ConnectionTypes'
    <3>1. retryAttempt' \in 0..MaxRetries + 1 /\ RetryEffect(NoTimer)
      BY <2>s DEF Start
    <3>2. retryTimer' \in 0..NoTimer /\ (retryTimer' = NoTimer \/ retryTimer' < MaxRetries)
      BY <2>t, <3>1, TimerType
    <3> QED BY <2>t, <2>s, <3>1, <3>2 DEF Start, slot, ConnectionTypes, ConnectionTypeOK
  <2>1. ASSUME NEW c \in Calls, UserConnects(c) \/ AutoConnects(c) \/ RetryFires(c)
        PROVE  ConnectionTypes'
    BY <2>1, <2>s, <2>t DEF UserConnects, AutoConnects, RetryFires, NoTimer
  <2>e. ASSUME RetryEffect(retryTimer), UNCHANGED retryAttempt
        PROVE  /\ retryTimer' \in 0..NoTimer /\ (retryTimer' = NoTimer \/ retryTimer' < MaxRetries)
               /\ retryAttempt' \in 0..MaxRetries + 1
    BY <2>e, <2>t, TimerType DEF ConnectionTypeOK
  <2>2. ASSUME NEW c \in Calls, FlushFails(c) PROVE ConnectionTypes'
    BY <2>2, <2>t, <2>e DEF FlushFails, slot, ConnectionTypes, ConnectionTypeOK
  <2>3. ASSUME NEW c \in Calls, Begin(c) PROVE ConnectionTypes'
    <3>1. /\ retryTimer' \in 0..NoTimer /\ (retryTimer' = NoTimer \/ retryTimer' < MaxRetries)
          /\ UNCHANGED <<once, wasManual, auto, retryAttempt>>
      BY <2>3, <2>e DEF Begin
    <3>2. CASE current = NoClient
      BY <2>3, <2>t, <3>1, <3>2, Tries DEF Begin, Live, ConnectionTypes, ConnectionTypeOK
    <3>3. CASE current # NoClient
      <4>1. at' \in [Calls -> Steps] /\ try' \in [Calls -> 1..Attempts]
            /\ error' \in {"none", "retryable", "fatal"}
        BY <2>3, <2>t, <3>3, NextTry DEF Begin, Reports
      <4>2. UNCHANGED slot \/ (Drop /\ manual' = TRUE)
        BY <2>3, <3>3 DEF Begin, ClientDisconnect
      <4> QED BY <2>t, <3>1, <4>1, <4>2, Closing DEF slot, ConnectionTypes, ConnectionTypeOK
    <3> QED BY <3>2, <3>3
  <2>4. ASSUME NEW c \in Calls, TimesOut(c) PROVE ConnectionTypes'
    <3>1. /\ retryTimer' \in 0..NoTimer /\ (retryTimer' = NoTimer \/ retryTimer' < MaxRetries)
          /\ UNCHANGED <<once, wasManual, auto, retryAttempt, manual>> /\ Drop
      BY <2>4, <2>e DEF TimesOut
    <3>2. at' \in [Calls -> Steps] /\ try' \in [Calls -> 1..Attempts]
          /\ error' \in {"none", "retryable", "fatal"}
      BY <2>4, <2>t, NextTry DEF TimesOut, Reports
    <3> QED BY <2>t, <3>1, <3>2, Closing DEF ConnectionTypes, ConnectionTypeOK
  <2>5. ASSUME NEW c \in Calls, CheckEnds(c) PROVE ConnectionTypes'
    BY <2>5, <2>t, <2>e DEF CheckEnds, slot, ConnectionTypes, ConnectionTypeOK
  <2>6. ASSUME NEW k \in Clients, SocketOpens(k) PROVE ConnectionTypes'
    BY <2>6, <2>t DEF SocketOpens, Live, ConnectionTypes, ConnectionTypeOK
  <2>7. ASSUME NEW k \in Clients, Hello(k) PROVE ConnectionTypes'
    BY <2>7, <2>t, <2>e DEF Hello, Live, ConnectionTypes, ConnectionTypeOK
  <2>8. ASSUME NEW k \in Clients, NEW err \in {"retryable", "fatal"}, SocketCloses(k, err)
        PROVE  ConnectionTypes'
    <3>1. /\ retryTimer' \in 0..NoTimer /\ (retryTimer' = NoTimer \/ retryTimer' < MaxRetries)
          /\ UNCHANGED <<once, wasManual, auto, retryAttempt, manual>>
      BY <2>8, <2>e DEF SocketCloses
    <3>2. /\ socket' \in [Clients -> Live \cup {"unused", "stopped", "gone"}]
          /\ current' \in Clients \cup {NoClient} /\ pendingConnect' \in Clients \cup {NoClient}
          /\ status' \in {"disconnected", "connecting", "connected"}
      BY <2>8, <2>t DEF SocketCloses, AfterClose, Live, ConnectionTypeOK
    <3>3. pendingConnect # NoClient => pendingConnect[1] \in Calls
      BY <2>t DEF ConnectionTypeOK, Clients
    <3>4. at' \in [Calls -> Steps] /\ try' \in [Calls -> 1..Attempts]
          /\ error' \in {"none", "retryable", "fatal"}
      <4>1. CASE UNCHANGED <<at, try>>
        BY <2>8, <2>t, <4>1 DEF SocketCloses, ConnectionTypeOK, Reports
      <4>2. CASE pendingConnect # NoClient /\ Reports(pendingConnect[1], err)
        BY <2>t, <3>3, <4>2 DEF Reports, ConnectionTypeOK
      <4>3. CASE pendingConnect # NoClient /\ TriesAgain(pendingConnect[1]) /\ error' = "none"
        BY <2>t, <3>3, <4>3, NextTry
      <4> QED BY <2>8, <4>1, <4>2, <4>3 DEF SocketCloses
    <3> QED BY <2>t, <3>1, <3>2, <3>4 DEF ConnectionTypes, ConnectionTypeOK
  <2>9. CASE UserDisconnects
    <3>1. UNCHANGED slot \/ (Drop /\ manual' = TRUE)
      BY <2>9 DEF UserDisconnects, ClientDisconnect
    <3> QED BY <2>9, <2>t, <2>e, <3>1, Closing
            DEF UserDisconnects, slot, ConnectionTypes, ConnectionTypeOK
  <2>10. CASE Stable
    BY <2>10, <2>t DEF Stable, slot, ConnectionTypes, ConnectionTypeOK
  <2>11. CASE UNCHANGED connection
    BY <2>11, <2>t DEF connection, ConnectionTypes, ConnectionTypeOK
  <2> QED BY <2>1, <2>2, <2>3, <2>4, <2>5, <2>6, <2>7, <2>8, <2>9, <2>10, <2>11 DEF ConnectionNext
<1> QED BY <1>1, <1>2, PTL DEF ConnectionSpec

-----------------------------------------------------------------------------
(* One connection                                                          *)

\* The client whose connect is awaited is the slot's, and a client in the slot
\* may reconnect: nobody has disconnected it by hand.
SlotInvariant ==
    /\ OneConnection
    /\ pendingConnect \in {NoClient, current}
    /\ current # NoClient => ~manual

\* The slot has the only live socket, whatever is connected or abandoned.
LEMMA SlotInductive == ConnectionSpec => []SlotInvariant
<1>1. ConnectionInit => SlotInvariant
  BY DEF ConnectionInit, SlotInvariant, OneConnection, Live
<1>2. ConnectionTypes /\ SlotInvariant /\ [ConnectionNext]_connection => SlotInvariant'
  <2> SUFFICES ASSUME ConnectionTypes, SlotInvariant, [ConnectionNext]_connection
               PROVE  SlotInvariant'
    OBVIOUS
  <2>t. ConnectionTypeOK
    BY DEF ConnectionTypes
  <2> USE DEF SlotInvariant, OneConnection
  <2>d. ASSUME Drop PROVE SlotInvariant'
    BY <2>d, <2>t DEF Drop, Stopped, Live, ConnectionTypeOK
  <2>1. CASE UNCHANGED slot
    BY <2>1 DEF slot
  <2>2. ASSUME NEW c \in Calls, Begin(c) PROVE SlotInvariant'
    <3>1. CASE current = NoClient
      BY <2>2, <2>t, <3>1, Tries DEF Begin, Live, ConnectionTypeOK
    <3>2. CASE current # NoClient
      BY <2>1, <2>2, <2>d, <3>2 DEF Begin, ClientDisconnect
    <3> QED BY <3>1, <3>2
  <2>3. ASSUME NEW c \in Calls, TimesOut(c) PROVE SlotInvariant'
    BY <2>3, <2>d DEF TimesOut
  <2>4. ASSUME NEW k \in Clients, SocketOpens(k) PROVE SlotInvariant'
    BY <2>4, <2>t DEF SocketOpens, Live, ConnectionTypeOK
  <2>5. ASSUME NEW k \in Clients, Hello(k) PROVE SlotInvariant'
    BY <2>5, <2>t DEF Hello, Live, ConnectionTypeOK
  <2>6. ASSUME NEW k \in Clients, NEW err \in {"retryable", "fatal"}, SocketCloses(k, err)
        PROVE  SlotInvariant'
    <3>1. CASE current = k
      BY <2>6, <2>t, <3>1 DEF SocketCloses, OwnClose, AfterClose, Live, ConnectionTypeOK
    <3>2. CASE current # k
      BY <2>6, <2>t, <3>2 DEF SocketCloses, OwnClose, Live, ConnectionTypeOK
    <3> QED BY <3>1, <3>2
  <2>7. CASE UserDisconnects
    BY <2>1, <2>7, <2>d DEF UserDisconnects, ClientDisconnect
  <2>8. UNCHANGED slot
        \/ (\E c \in Calls : Begin(c) \/ TimesOut(c))
        \/ (\E k \in Clients : SocketOpens(k) \/ Hello(k))
        \/ (\E k \in Clients, err \in {"retryable", "fatal"} : SocketCloses(k, err))
        \/ UserDisconnects
    BY DEF ConnectionNext, connection, slot, UserConnects, AutoConnects, RetryFires, Start,
           FlushFails, CheckEnds, Stable
  <2> QED BY <2>1, <2>2, <2>3, <2>4, <2>5, <2>6, <2>7, <2>8
<1> QED BY <1>1, <1>2, ConnectionTypeCorrect, PTL DEF ConnectionSpec

\* Whatever handlers, timers and continuations come late, there is one
\* connection at most: everything abandoned is stopped.
THEOREM OneSocket == ConnectionSpec => []OneConnection
<1>1. SlotInvariant => OneConnection
  BY DEF SlotInvariant
<1> QED BY <1>1, SlotInductive, PTL

\* The call whose client has the slot waits for it until the hello, and for
\* nothing afterwards.
SlotsCall ==
    current # NoClient =>
        \/ status = "connecting" /\ pendingConnect = current /\ at[current[1]] = "connecting"
        \/ status = "connected" /\ pendingConnect = NoClient /\ at[current[1]] \in {"checking", "over"}

\* A call that has the slot is not at any other step of its connect.
LEMMA SlotsCallInductive == ConnectionSpec => []SlotsCall
<1>1. ConnectionInit => SlotsCall
  BY DEF ConnectionInit, SlotsCall
<1>2. ConnectionTypes /\ SlotInvariant /\ SlotsCall /\ [ConnectionNext]_connection => SlotsCall'
  <2> SUFFICES ASSUME ConnectionTypes, SlotInvariant, SlotsCall, [ConnectionNext]_connection
               PROVE  SlotsCall'
    OBVIOUS
  <2>t. ConnectionTypeOK
    BY DEF ConnectionTypes
  <2>u. current # NoClient => current[1] \in Calls
    BY <2>t DEF ConnectionTypeOK, Clients
  <2>d. ASSUME Drop PROVE SlotsCall'
    BY <2>d DEF Drop, SlotsCall
  \* Other calls come and go beside the slot.
  <2>o. ASSUME NEW c \in Calls, UNCHANGED slot, at[c] \in {"ready", "flushing", "pausing"},
               \A d \in Calls \ {c} : at'[d] = at[d]
        PROVE  SlotsCall'
    BY <2>o, <2>u DEF SlotsCall, slot
  <2>1. ASSUME NEW c \in Calls, UserConnects(c) \/ AutoConnects(c) \/ RetryFires(c)
        PROVE  SlotsCall'
    BY <2>1, <2>o, <2>t DEF UserConnects, AutoConnects, RetryFires, Start, ConnectionTypeOK
  <2>2. ASSUME NEW c \in Calls, FlushFails(c) PROVE SlotsCall'
    BY <2>2, <2>o, <2>t DEF FlushFails, ConnectionTypeOK
  <2>3. ASSUME NEW c \in Calls, Begin(c) PROVE SlotsCall'
    <3>1. CASE current = NoClient
      <4>1. /\ current' = <<c, try[c]>> /\ pendingConnect' = current'
            /\ status' = "connecting" /\ at'[c] = "connecting"
        BY <2>3, <2>t, <3>1 DEF Begin, ConnectionTypeOK
      <4> QED BY <4>1 DEF SlotsCall
    <3>2. CASE current # NoClient
      <4>1. CASE ClientDisconnect
        BY <2>d, <3>2, <4>1 DEF ClientDisconnect
      <4>2. CASE Reports(c, "retryable") /\ UNCHANGED slot
        BY <2>3, <2>o, <2>t, <4>2 DEF Begin, Reports, ConnectionTypeOK
      <4> QED BY <2>3, <3>2, <4>1, <4>2 DEF Begin
    <3> QED BY <3>1, <3>2
  <2>4. ASSUME NEW c \in Calls, TimesOut(c) PROVE SlotsCall'
    BY <2>4, <2>d DEF TimesOut
  <2>5. ASSUME NEW c \in Calls, CheckEnds(c) PROVE SlotsCall'
    BY <2>5, <2>t, <2>u DEF CheckEnds, SlotsCall, slot, ConnectionTypeOK
  <2>6. ASSUME NEW k \in Clients, SocketOpens(k) PROVE SlotsCall'
    BY <2>6 DEF SocketOpens, SlotsCall
  <2>7. ASSUME NEW k \in Clients, Hello(k) PROVE SlotsCall'
    <3>1. status # "connected" /\ current = k
      BY <2>7 DEF Hello, SlotInvariant, OneConnection
    <3>2. pendingConnect = current /\ pendingConnect # NoClient
      BY <2>t, <3>1, ConnectionAssumption DEF SlotsCall
    <3> QED BY <2>7, <2>t, <2>u, <3>1, <3>2 DEF Hello, SlotsCall, ConnectionTypeOK
  <2>8. ASSUME NEW k \in Clients, NEW err \in {"retryable", "fatal"}, SocketCloses(k, err)
        PROVE  SlotsCall'
    BY <2>8 DEF SocketCloses, OwnClose, SlotsCall
  <2>9. CASE UserDisconnects
    BY <2>9, <2>d DEF UserDisconnects, ClientDisconnect, SlotsCall, slot
  <2>10. CASE Stable
    BY <2>10 DEF Stable, SlotsCall, slot
  <2>11. CASE UNCHANGED connection
    BY <2>11 DEF connection, SlotsCall
  <2> QED BY <2>1, <2>2, <2>3, <2>4, <2>5, <2>6, <2>7, <2>8, <2>9, <2>10, <2>11 DEF ConnectionNext
<1> QED BY <1>1, <1>2, ConnectionTypeCorrect, SlotInductive, PTL DEF ConnectionSpec

\* A connection that is up is never taken down by the call it belongs to: it
\* ends by its own close, by the user, or by a late step of another call.
THEOREM StaysUp == ConnectionSpec => KeptUp
<1>1. ASSUME ConnectionTypes, SlotInvariant, SlotsCall, [ConnectionNext]_connection,
             status = "connected", status' # "connected"
      PROVE  \/ socket'[current] = "gone"
             \/ wasManual' /\ UNCHANGED <<at, try>>
             \/ \E c \in Calls : c # current[1] /\ UnderWay(c) /\ StepOf(c)
  <2>t. ConnectionTypeOK /\ current # NoClient /\ at[current[1]] \in {"checking", "over"}
    BY <1>1 DEF ConnectionTypes, SlotInvariant, OneConnection, SlotsCall
  <2>1. UserDisconnects
        \/ (\E c \in Calls : Begin(c) \/ TimesOut(c))
        \/ (\E k \in Clients : Hello(k))
        \/ (\E k \in Clients, err \in {"retryable", "fatal"} : SocketCloses(k, err))
    BY <1>1 DEF ConnectionNext, connection, slot, UserConnects, AutoConnects, RetryFires, Start,
                FlushFails, CheckEnds, Stable, SocketOpens
  <2>2. CASE UserDisconnects
    BY <2>2 DEF UserDisconnects
  <2>3. ASSUME NEW c \in Calls, Begin(c) \/ TimesOut(c)
        PROVE  c # current[1] /\ UnderWay(c) /\ StepOf(c)
    <3>1. at[c] \in {"flushing", "pausing", "connecting"}
      BY <2>3 DEF Begin, TimesOut
    <3>2. Reports(c, "retryable") \/ TriesAgain(c)
      BY <2>3, <2>t DEF Begin, TimesOut
    <3>3. StepOf(c)
      <4>1. try[c] \in Nat /\ try[c] + 1 # try[c]
        BY <2>t DEF ConnectionTypeOK
      <4> QED BY <2>t, <3>1, <3>2, <4>1 DEF Reports, TriesAgain, StepOf, ConnectionTypeOK
    <3> QED BY <2>t, <3>1, <3>3 DEF UnderWay
  <2>4. ASSUME NEW k \in Clients, Hello(k) PROVE FALSE
    BY <1>1, <2>4 DEF Hello
  <2>5. ASSUME NEW k \in Clients, NEW err \in {"retryable", "fatal"}, SocketCloses(k, err)
        PROVE  socket'[current] = "gone"
    BY <1>1, <2>5 DEF SocketCloses, OwnClose, AfterClose, SlotInvariant, ConnectionTypes,
                      ConnectionTypeOK
  <2> QED BY <2>1, <2>2, <2>3, <2>4, <2>5
<1> QED BY <1>1, SlotInductive, SlotsCallInductive, ConnectionTypeCorrect, PTL DEF KeptUp, ConnectionSpec

-----------------------------------------------------------------------------
(* The retry                                                               *)

\* A lost connection that may be retried.
Retryable ==
    /\ status = "disconnected" /\ once /\ auto = "done" /\ ~wasManual
    /\ error # "fatal" /\ retryAttempt < MaxRetries

\* The effect that arms the timer runs when status or error change; an error
\* that stays "retryable" has armed it before, and without an error either it
\* is armed or a call is about to report.
RetryInvariant ==
    /\ Retryable /\ error = "retryable" => retryTimer # NoTimer
    /\ Retryable /\ error = "none" => retryTimer # NoTimer \/ \E c \in Calls : UnderWay(c)

\* When the effect runs, a connection that may be retried gets its timer.
LEMMA EffectArms ==
  ASSUME NEW t, ConnectionTypeOK', RetryEffect(t), Changed, Retryable'
  PROVE  retryTimer' # NoTimer
BY DEF RetryEffect, RetryDelay, Retryable, NoTimer, ConnectionTypeOK

\* The retry after a lost connection is never itself lost.
THEOREM RetryNeverLost == ConnectionSpec => []RetryArmed
<1>1. ConnectionInit => RetryInvariant
  BY DEF ConnectionInit, RetryInvariant, Retryable
<1>2. ConnectionTypes /\ ConnectionTypes' /\ SlotInvariant /\ RetryInvariant
        /\ [ConnectionNext]_connection
      => RetryInvariant'
  <2> SUFFICES ASSUME ConnectionTypes, ConnectionTypes', SlotInvariant, RetryInvariant,
                      [ConnectionNext]_connection
               PROVE  RetryInvariant'
    OBVIOUS
  <2>t. ConnectionTypeOK /\ ConnectionTypeOK'
    BY DEF ConnectionTypes
  <2>c. ASSUME NEW t, RetryEffect(t), Changed PROVE RetryInvariant'
    BY <2>t, <2>c, EffectArms DEF RetryInvariant
  <2>k. ASSUME RetryEffect(retryTimer), ~Changed PROVE UNCHANGED <<retryTimer, status, error>>
    BY <2>k DEF RetryEffect, Changed
  \* A call that ends reports an error.
  <2>r. ASSUME RetryEffect(retryTimer), error' # "none",
               UNCHANGED <<once, auto, wasManual, retryAttempt>>
        PROVE  RetryInvariant'
    BY <2>c, <2>k, <2>r, <2>t DEF RetryInvariant, Retryable, ConnectionTypeOK
  <2>1. ASSUME NEW c \in Calls, UserConnects(c) \/ AutoConnects(c) \/ RetryFires(c)
        PROVE  RetryInvariant'
    <3>1. error' = "none" /\ at'[c] = "flushing"
      BY <2>1, <2>t DEF UserConnects, AutoConnects, RetryFires, Start, ConnectionTypeOK
    <3> QED BY <3>1 DEF RetryInvariant, UnderWay
  <2>2. ASSUME NEW c \in Calls, FlushFails(c) PROVE RetryInvariant'
    BY <2>2, <2>r DEF FlushFails
  <2>3. ASSUME NEW c \in Calls, Begin(c) PROVE RetryInvariant'
    <3>1. CASE current = NoClient
      <4>1. status' = "connecting"
        BY <2>3, <3>1 DEF Begin
      <4> QED BY <4>1 DEF RetryInvariant, Retryable
    <3>2. CASE Reports(c, "retryable")
      BY <2>3, <2>r, <3>2 DEF Begin, Reports
    <3>3. CASE TriesAgain(c) /\ error' = "none"
      <4>1. at'[c] = "pausing"
        BY <2>t, <3>3 DEF TriesAgain, ConnectionTypeOK
      <4> QED BY <3>3, <4>1 DEF RetryInvariant, UnderWay
    <3> QED BY <2>3, <3>1, <3>2, <3>3 DEF Begin
  <2>4. ASSUME NEW c \in Calls, TimesOut(c) PROVE RetryInvariant'
    <3>1. CASE Reports(c, "retryable")
      BY <2>4, <2>r, <3>1 DEF TimesOut, Reports
    <3>2. CASE TriesAgain(c) /\ error' = "none"
      <4>1. at'[c] = "pausing"
        BY <2>t, <3>2 DEF TriesAgain, ConnectionTypeOK
      <4> QED BY <3>2, <4>1 DEF RetryInvariant, UnderWay
    <3> QED BY <2>4, <3>1, <3>2 DEF TimesOut
  <2>5. ASSUME NEW c \in Calls, CheckEnds(c) PROVE RetryInvariant'
    <3>1. CASE Changed
      BY <2>5, <2>c, <3>1 DEF CheckEnds
    <3>2. CASE ~Changed
      <4>1. UNCHANGED <<retryTimer, status, error, once, wasManual, retryAttempt>>
        BY <2>5, <2>k, <3>2 DEF CheckEnds
      <4>2. auto' = "done" => auto = "done"
        BY <2>5 DEF CheckEnds
      <4>3. \A d \in Calls : UnderWay(d) => UnderWay(d)'
        BY <2>5, <2>t DEF CheckEnds, UnderWay, ConnectionTypeOK
      <4> QED BY <4>1, <4>2, <4>3 DEF RetryInvariant, Retryable
    <3> QED BY <3>1, <3>2
  <2>6. ASSUME NEW k \in Clients, SocketOpens(k) PROVE RetryInvariant'
    BY <2>6 DEF SocketOpens, RetryInvariant, Retryable, UnderWay
  <2>7. ASSUME NEW k \in Clients, Hello(k) PROVE RetryInvariant'
    BY <2>7 DEF Hello, RetryInvariant, Retryable
  <2>8. ASSUME NEW k \in Clients, NEW err \in {"retryable", "fatal"}, SocketCloses(k, err)
        PROVE  RetryInvariant'
    <3>1. CASE current = k
      <4>1. status' = "disconnected"
        BY <2>8, <3>1 DEF SocketCloses, OwnClose
      <4>2. CASE pendingConnect = NoClient
        <5>1. CASE status = "disconnected"
          BY <2>t, <3>1, <5>1 DEF SlotInvariant, OneConnection, ConnectionTypeOK
        <5>2. CASE status # "disconnected"
          BY <2>8, <2>c, <4>1, <5>2 DEF SocketCloses, Changed
        <5> QED BY <5>1, <5>2
      <4>3. CASE pendingConnect # NoClient
        <5>1. status # "disconnected"
          BY <2>t, <3>1 DEF SlotInvariant, OneConnection, ConnectionTypeOK
        <5> QED BY <2>8, <2>c, <4>1, <5>1 DEF SocketCloses, Changed
      <4> QED BY <4>2, <4>3
    <3>2. CASE current # k
      <4>1. UNCHANGED <<retryTimer, status, error, once, wasManual, auto, retryAttempt, at>>
        BY <2>8, <2>k, <3>2 DEF SocketCloses, OwnClose, Changed
      <4> QED BY <4>1 DEF RetryInvariant, Retryable, UnderWay
    <3> QED BY <3>1, <3>2
  <2>9. CASE UserDisconnects
    BY <2>9 DEF UserDisconnects, RetryInvariant, Retryable
  <2>10. CASE Stable
    BY <2>10 DEF Stable, RetryInvariant, Retryable, slot
  <2>11. CASE UNCHANGED connection
    BY <2>11 DEF connection, RetryInvariant, Retryable, UnderWay
  <2> QED BY <2>1, <2>2, <2>3, <2>4, <2>5, <2>6, <2>7, <2>8, <2>9, <2>10, <2>11 DEF ConnectionNext
<1>3. ConnectionTypes /\ RetryInvariant => RetryArmed
  BY DEF RetryInvariant, RetryArmed, Retryable, ConnectionTypes, ConnectionTypeOK
<1> QED BY <1>1, <1>2, <1>3, ConnectionTypeCorrect, SlotInductive, PTL DEF ConnectionSpec

HIDE ConnectionAssumption

-----------------------------------------------------------------------------
(* ExecApprovals                                                           *)

USE ApprovalsAssumption

\* The approvals whose resume of run r has taken its first look.
ResumersOf(r) == {i \in Approvals : resolver[i] = "resuming" /\ resumes[i] = r}

\* A pause is a token: it lies in the agent's paused entry, with the resume
\* that took it from there, or has been spent on a follow-up.
Tokens(r) ==
    followUps[r] + Cardinality(ResumersOf(r)) + (IF pausedRun = r THEN 1 ELSE 0)

\* Types with numbers as large as they like; the bounds follow from the tokens.
WideTypes ==
    /\ pending \subseteq requested /\ requested \subseteq Approvals /\ allows \subseteq Approvals
    /\ agentRun \in AgentRuns \cup {NoRun} /\ pausedRun \in AgentRuns \cup {NoRun}
    /\ running \in BOOLEAN /\ runs \in 0..MaxRuns /\ aborting \subseteq AgentRuns
    /\ resolver \in [Approvals -> Flow] /\ resumes \in [Approvals -> AgentRuns \cup {NoRun}]
    /\ arrived \in [Approvals -> SUBSET Approvals]
    /\ pauses \in [AgentRuns -> Nat] /\ followUps \in [AgentRuns -> Nat]
    /\ \A i \in Approvals : resolver[i] = "resuming" => resumes[i] \in AgentRuns

ApprovalsInvariant ==
    /\ WideTypes
    /\ \A r \in AgentRuns : Tokens(r) <= pauses[r] /\ pauses[r] <= Cardinality(requested)
    /\ NoneIsPassedOver

\* The resumes of a run can be counted.
LEMMA ResumersFinite ==
  ASSUME NEW r PROVE IsFiniteSet(ResumersOf(r)) /\ Cardinality(ResumersOf(r)) \in Nat
<1>1. ResumersOf(r) \subseteq Approvals
  BY DEF ResumersOf
<1> QED BY <1>1, FS_Subset, FS_CardinalityType

\* A step that moves no token.
LEMMA TokensKept ==
  ASSUME NEW r, UNCHANGED <<followUps, pausedRun, resumes>>,
         \A i \in Approvals : resolver'[i] = "resuming" <=> resolver[i] = "resuming"
  PROVE  Tokens(r)' = Tokens(r)
<1>1. ResumersOf(r)' = ResumersOf(r)
  BY DEF ResumersOf
<1> QED BY <1>1 DEF Tokens

\* Every step keeps the shapes.
LEMMA ShapesKept ==
  ASSUME WideTypes, [ApprovalsNext]_approvals PROVE WideTypes'
<1> USE DEF WideTypes, agent, AgentRuns
<1>1. CASE UserSendsMessage
  BY <1>1 DEF UserSendsMessage, NewRun
<1>2. CASE RunOver
  BY <1>2 DEF RunOver
<1>3. ASSUME NEW i \in Approvals, NEW always \in BOOLEAN, NEW scoped \in BOOLEAN,
             ApprovalRequested(i, always, scoped)
      PROVE  WideTypes'
  <2>1. arrived' = [j \in Approvals |-> arrived[j] \cup {i}]
    BY <1>3 DEF ApprovalRequested
  <2>2. \A j \in Approvals : arrived[j] \cup {i} \in SUBSET Approvals
    OBVIOUS
  <2>3. arrived' \in [Approvals -> SUBSET Approvals]
    BY <2>1, <2>2
  <2>4. pausedRun' \in AgentRuns \cup {NoRun} /\ aborting' \subseteq AgentRuns
        /\ pauses' \in [AgentRuns -> Nat]
    <3>1. CASE always /\ scoped /\ MustPause
      <4>1. agentRun \in AgentRuns
        BY <3>1 DEF MustPause
      <4>2. pausedRun' = agentRun /\ aborting' = aborting \cup {agentRun}
            /\ pauses' = [pauses EXCEPT ![agentRun] = @ + 1]
        BY <1>3, <3>1 DEF ApprovalRequested
      <4> HIDE DEF AgentRuns
      <4> QED BY <4>1, <4>2
    <3>2. CASE ~(always /\ scoped /\ MustPause)
      BY <1>3, <3>2 DEF ApprovalRequested
    <3> QED BY <3>1, <3>2
  <2> QED BY <1>3, <2>3, <2>4 DEF ApprovalRequested
<1>4. ASSUME NEW i \in Approvals, ApprovalGone(i) PROVE WideTypes'
  BY <1>4 DEF ApprovalGone
<1>5. ASSUME NEW i \in Approvals, NEW allow \in BOOLEAN, Decide(i, allow) PROVE WideTypes'
  BY <1>5 DEF Decide, Flow
<1>6. ASSUME NEW i \in Approvals, Resolved(i) PROVE WideTypes'
  BY <1>6 DEF Resolved, Flow
<1>7. ASSUME NEW i \in Approvals, NEW unknownId \in BOOLEAN, ResolveFails(i, unknownId)
      PROVE  WideTypes'
  BY <1>7 DEF ResolveFails, Flow
<1>8. ASSUME NEW i \in Approvals, Waited(i) PROVE WideTypes'
  BY <1>8 DEF Waited, Flow
<1>9. ASSUME NEW i \in Approvals, FirstLook(i) PROVE WideTypes'
  <2>1. UNCHANGED <<runs, pending, requested, aborting, allows, pauses, followUps>>
    BY <1>9 DEF FirstLook
  <2>2. CASE pausedRun # NoRun /\ Unblocked(i) /\ ~Replaced(pausedRun)
    <3>1. /\ pausedRun \in AgentRuns /\ pausedRun' = NoRun
          /\ agentRun' = pausedRun /\ running' = TRUE
          /\ resumes' = [resumes EXCEPT ![i] = pausedRun]
          /\ arrived' = [arrived EXCEPT ![i] = {}]
          /\ resolver' = [resolver EXCEPT ![i] = "resuming"]
      BY <1>9, <2>2 DEF FirstLook, AfterFirstLook
    <3>2. resolver' \in [Approvals -> Flow]
      BY <3>1 DEF Flow
    <3>3. resumes' \in [Approvals -> AgentRuns \cup {NoRun}] /\ arrived' \in [Approvals -> SUBSET Approvals]
      BY <3>1
    <3>4. \A j \in Approvals : resolver'[j] = "resuming" => resumes'[j] \in AgentRuns
      BY <3>1
    <3> HIDE DEF AgentRuns
    <3> QED BY <2>1, <3>1, <3>2, <3>3, <3>4
  <2>3. CASE ~(pausedRun # NoRun /\ Unblocked(i) /\ ~Replaced(pausedRun))
    BY <1>9, <2>1, <2>3 DEF FirstLook, Flow
  <2> QED BY <2>2, <2>3
<1>10. ASSUME NEW i \in Approvals, SecondLook(i) PROVE WideTypes'
  <2>1. /\ resolver' = [resolver EXCEPT ![i] = "over"]
        /\ UNCHANGED <<pending, requested, pausedRun, aborting, allows, resumes, arrived, pauses>>
        /\ resumes[i] \in AgentRuns
    BY <1>10 DEF SecondLook
  <2>2. resolver' \in [Approvals -> Flow]
        /\ \A j \in Approvals : resolver'[j] = "resuming" => resumes'[j] \in AgentRuns
    BY <2>1 DEF Flow
  <2>3. agentRun' \in AgentRuns \cup {NoRun} /\ running' \in BOOLEAN /\ runs' \in 0..MaxRuns
    <3>1. CASE NewRun
      BY <3>1 DEF NewRun
    <3>2. CASE UNCHANGED agent
      BY <3>2
    <3> QED BY <1>10, <3>1, <3>2 DEF SecondLook
  <2>4. followUps' \in {followUps, [followUps EXCEPT ![resumes[i]] = @ + 1]}
    BY <1>10 DEF SecondLook
  <2>5. followUps' \in [AgentRuns -> Nat]
    <3>1. followUps \in [AgentRuns -> Nat] /\ followUps[resumes[i]] + 1 \in Nat
      BY <2>1
    <3> HIDE DEF AgentRuns, WideTypes
    <3> QED BY <2>4, <3>1
  <2> QED BY <2>1, <2>2, <2>3, <2>5
<1>11. ASSUME NEW r \in AgentRuns, NEW failed \in BOOLEAN, AbortAnswered(r, failed) PROVE WideTypes'
  BY <1>11 DEF AbortAnswered
<1>12. CASE UNCHANGED approvals
  BY <1>12 DEF approvals
<1> QED BY <1>1, <1>2, <1>3, <1>4, <1>5, <1>6, <1>7, <1>8, <1>9, <1>10, <1>11, <1>12
        DEF ApprovalsNext

\* Pauses are counted by the requests that caused them, follow-ups by pauses.
LEMMA TokensCounted ==
  ASSUME ApprovalsInvariant, WideTypes', [ApprovalsNext]_approvals, NEW r \in AgentRuns
  PROVE  Tokens(r)' <= pauses'[r] /\ pauses'[r] <= Cardinality(requested')
<1> USE DEF agent, ApprovalsInvariant
<1>t. /\ Tokens(r) <= pauses[r] /\ pauses[r] <= Cardinality(requested)
      /\ pauses[r] \in Nat /\ pauses \in [AgentRuns -> Nat]
      /\ followUps[r] \in Nat /\ followUps \in [AgentRuns -> Nat]
      /\ resolver \in [Approvals -> Flow] /\ resumes \in [Approvals -> AgentRuns \cup {NoRun}]
      /\ requested \subseteq Approvals /\ NoRun \notin AgentRuns
      /\ agentRun \in AgentRuns \cup {NoRun} /\ pausedRun \in AgentRuns \cup {NoRun}
  BY DEF WideTypes, AgentRuns
<1>c. IsFiniteSet(ResumersOf(r)) /\ Cardinality(ResumersOf(r)) \in Nat
  BY ResumersFinite
\* Most steps neither pause nor resume.
<1>k. ASSUME UNCHANGED <<followUps, pausedRun, resumes, pauses, requested>>,
             \A i \in Approvals : resolver'[i] = "resuming" <=> resolver[i] = "resuming"
      PROVE  Tokens(r)' <= pauses'[r] /\ pauses'[r] <= Cardinality(requested')
  BY <1>k, <1>t, TokensKept
<1>1. CASE UserSendsMessage
  BY <1>1, <1>k DEF UserSendsMessage
<1>2. CASE RunOver
  BY <1>2, <1>k DEF RunOver
<1>3. ASSUME NEW i \in Approvals, NEW always \in BOOLEAN, NEW scoped \in BOOLEAN,
             ApprovalRequested(i, always, scoped)
      PROVE  Tokens(r)' <= pauses'[r] /\ pauses'[r] <= Cardinality(requested')
  <2>1. i \notin requested /\ requested' = requested \cup {i}
        /\ UNCHANGED <<agentRun, resolver, resumes, followUps>>
    BY <1>3 DEF ApprovalRequested
  <2>2. Cardinality(requested') = Cardinality(requested) + 1 /\ Cardinality(requested) \in Nat
    BY <1>t, <2>1, FS_AddElement, FS_Subset, FS_CardinalityType
  <2>3. ResumersOf(r)' = ResumersOf(r)
    BY <2>1 DEF ResumersOf
  <2>4. CASE UNCHANGED <<pausedRun, pauses>>
    BY <1>t, <2>1, <2>2, <2>3, <2>4 DEF Tokens
  <2>5. CASE /\ agentRun # NoRun /\ pausedRun # agentRun /\ pausedRun' = agentRun
             /\ pauses' = [pauses EXCEPT ![agentRun] = @ + 1]
    <3>1. CASE agentRun = r
      BY <1>t, <1>c, <2>1, <2>2, <2>3, <2>5, <3>1 DEF Tokens
    <3>2. CASE agentRun # r
      BY <1>t, <1>c, <2>1, <2>2, <2>3, <2>5, <3>2 DEF Tokens
    <3> QED BY <3>1, <3>2
  <2> QED BY <1>3, <2>4, <2>5 DEF ApprovalRequested, MustPause
<1>4. ASSUME NEW i \in Approvals, ApprovalGone(i)
      PROVE  Tokens(r)' <= pauses'[r] /\ pauses'[r] <= Cardinality(requested')
  BY <1>4, <1>k DEF ApprovalGone
<1>5. ASSUME NEW i \in Approvals, NEW allow \in BOOLEAN, Decide(i, allow)
      PROVE  Tokens(r)' <= pauses'[r] /\ pauses'[r] <= Cardinality(requested')
  BY <1>5, <1>k, <1>t DEF Decide
<1>6. ASSUME NEW i \in Approvals, Resolved(i)
      PROVE  Tokens(r)' <= pauses'[r] /\ pauses'[r] <= Cardinality(requested')
  BY <1>6, <1>k, <1>t DEF Resolved
<1>7. ASSUME NEW i \in Approvals, NEW unknownId \in BOOLEAN, ResolveFails(i, unknownId)
      PROVE  Tokens(r)' <= pauses'[r] /\ pauses'[r] <= Cardinality(requested')
  BY <1>7, <1>k, <1>t DEF ResolveFails
<1>8. ASSUME NEW i \in Approvals, Waited(i)
      PROVE  Tokens(r)' <= pauses'[r] /\ pauses'[r] <= Cardinality(requested')
  BY <1>8, <1>k, <1>t DEF Waited
<1>9. ASSUME NEW i \in Approvals, FirstLook(i)
      PROVE  Tokens(r)' <= pauses'[r] /\ pauses'[r] <= Cardinality(requested')
  <2>1. resolver[i] = "loading" /\ i \notin ResumersOf(r)
        /\ UNCHANGED <<requested, pauses, followUps>>
    BY <1>9 DEF FirstLook, ResumersOf
  <2>2. CASE pausedRun # NoRun /\ Unblocked(i) /\ ~Replaced(pausedRun)
    <3>1. /\ pausedRun' = NoRun /\ resumes' = [resumes EXCEPT ![i] = pausedRun]
          /\ resolver' = [resolver EXCEPT ![i] = "resuming"]
      BY <1>9, <2>2 DEF FirstLook, AfterFirstLook
    <3>2. CASE pausedRun = r
      <4>1. ResumersOf(r)' = ResumersOf(r) \cup {i}
        BY <1>t, <3>1, <3>2 DEF ResumersOf
      <4>2. Cardinality(ResumersOf(r)') = Cardinality(ResumersOf(r)) + 1
        BY <1>c, <2>1, <4>1, FS_AddElement
      <4> QED BY <1>t, <1>c, <2>1, <2>2, <3>1, <3>2, <4>2 DEF Tokens
    <3>3. CASE pausedRun # r
      <4>1. ResumersOf(r)' = ResumersOf(r)
        BY <1>t, <2>1, <3>1, <3>3 DEF ResumersOf
      <4> QED BY <1>t, <1>c, <2>1, <3>1, <3>3, <4>1 DEF Tokens
    <3> QED BY <3>2, <3>3
  <2>3. CASE ~(pausedRun # NoRun /\ Unblocked(i) /\ ~Replaced(pausedRun))
    BY <1>9, <1>k, <1>t, <2>1, <2>3 DEF FirstLook
  <2> QED BY <2>2, <2>3
<1>10. ASSUME NEW i \in Approvals, SecondLook(i)
       PROVE  Tokens(r)' <= pauses'[r] /\ pauses'[r] <= Cardinality(requested')
  <2>1. /\ resolver[i] = "resuming" /\ resolver' = [resolver EXCEPT ![i] = "over"]
        /\ UNCHANGED <<requested, pauses, pausedRun, resumes>>
    BY <1>10 DEF SecondLook
  <2>2. followUps' \in {followUps, [followUps EXCEPT ![resumes[i]] = @ + 1]}
    BY <1>10 DEF SecondLook
  <2>3. CASE resumes[i] = r
    <3>1. i \in ResumersOf(r) /\ ResumersOf(r)' = ResumersOf(r) \ {i}
      BY <1>t, <2>1, <2>3 DEF ResumersOf
    <3>2. Cardinality(ResumersOf(r)') = Cardinality(ResumersOf(r)) - 1
      BY <1>c, <3>1, FS_RemoveElement
    <3> QED BY <1>t, <1>c, <2>1, <2>2, <2>3, <3>2 DEF Tokens
  <2>4. CASE resumes[i] # r
    <3>1. ResumersOf(r)' = ResumersOf(r)
      BY <1>t, <2>1, <2>4 DEF ResumersOf
    <3>2. followUps'[r] = followUps[r]
      BY <1>t, <2>2, <2>4
    <3> QED BY <1>t, <1>c, <2>1, <3>1, <3>2 DEF Tokens
  <2> QED BY <2>3, <2>4
<1>11. ASSUME NEW q \in AgentRuns, NEW failed \in BOOLEAN, AbortAnswered(q, failed)
       PROVE  Tokens(r)' <= pauses'[r] /\ pauses'[r] <= Cardinality(requested')
  <2>1. UNCHANGED <<followUps, resumes, pauses, requested, resolver>>
        /\ pausedRun' \in {NoRun, pausedRun}
    BY <1>11 DEF AbortAnswered
  <2>2. ResumersOf(r)' = ResumersOf(r)
    BY <2>1 DEF ResumersOf
  <2> QED BY <1>t, <1>c, <2>1, <2>2 DEF Tokens
<1>12. CASE UNCHANGED approvals
  BY <1>12, <1>k DEF approvals
<1> QED BY <1>1, <1>2, <1>3, <1>4, <1>5, <1>6, <1>7, <1>8, <1>9, <1>10, <1>11, <1>12
        DEF ApprovalsNext

\* A resume that is under way has seen every approval that waits but those
\* requested since.
LEMMA NonePassedOver ==
  ASSUME WideTypes, NoneIsPassedOver, [ApprovalsNext]_approvals PROVE NoneIsPassedOver'
<1> USE DEF WideTypes, NoneIsPassedOver, agent
<1>1. ASSUME pending' \subseteq pending, UNCHANGED arrived,
             \A i \in Approvals : resolver'[i] = "resuming" => resolver[i] = "resuming"
      PROVE  NoneIsPassedOver'
  BY <1>1
<1>2. ASSUME NEW i \in Approvals, NEW always \in BOOLEAN, NEW scoped \in BOOLEAN,
             ApprovalRequested(i, always, scoped)
      PROVE  NoneIsPassedOver'
  BY <1>2 DEF ApprovalRequested
<1>3. ASSUME NEW i \in Approvals, FirstLook(i) PROVE NoneIsPassedOver'
  <2>1. UNCHANGED pending
    BY <1>3 DEF FirstLook
  <2>2. CASE resolver' = [resolver EXCEPT ![i] = "resuming"]
             /\ arrived' = [arrived EXCEPT ![i] = {}] /\ Unblocked(i)
    <3>1. pending' \subseteq {i}
      BY <2>1, <2>2 DEF Unblocked
    <3>2. ASSUME NEW j \in Approvals, j # i, resolver'[j] = "resuming"
          PROVE  pending' \subseteq arrived'[j] \cup {j}
      BY <2>1, <2>2, <3>2
    <3> QED BY <3>1, <3>2
  <2>3. CASE resolver' = [resolver EXCEPT ![i] = "over"] /\ UNCHANGED arrived
    BY <2>1, <2>3
  <2> QED BY <1>3, <2>2, <2>3 DEF FirstLook
<1>4. CASE \E i \in Approvals : Resolved(i) \/ Waited(i) \/ SecondLook(i)
                               \/ \E b \in BOOLEAN : Decide(i, b) \/ ResolveFails(i, b)
  BY <1>1, <1>4 DEF Resolved, Waited, SecondLook, Decide, ResolveFails
<1>5. CASE UserSendsMessage \/ RunOver \/ UNCHANGED approvals
           \/ (\E i \in Approvals : ApprovalGone(i))
           \/ (\E r \in AgentRuns, failed \in BOOLEAN : AbortAnswered(r, failed))
  BY <1>1, <1>5 DEF UserSendsMessage, RunOver, approvals, ApprovalGone, AbortAnswered
<1> QED BY <1>2, <1>3, <1>4, <1>5 DEF ApprovalsNext

\* The invariant holds of every behaviour.
LEMMA Inductive == ApprovalsSpec => []ApprovalsInvariant
<1>1. ApprovalsInit => ApprovalsInvariant
  <2> SUFFICES ASSUME ApprovalsInit PROVE ApprovalsInvariant
    OBVIOUS
  <2>1. WideTypes /\ NoneIsPassedOver
    <3>1. runs \in 0..MaxRuns /\ pending \subseteq requested
      BY DEF ApprovalsInit
    <3>2. /\ resolver \in [Approvals -> Flow] /\ resumes \in [Approvals -> AgentRuns \cup {NoRun}]
          /\ arrived \in [Approvals -> SUBSET Approvals]
          /\ \A i \in Approvals : resolver[i] # "resuming"
      BY DEF ApprovalsInit, Flow
    <3>3. pauses \in [AgentRuns -> Nat] /\ followUps \in [AgentRuns -> Nat]
      BY DEF ApprovalsInit
    <3> QED BY <3>1, <3>2, <3>3 DEF ApprovalsInit, WideTypes, NoneIsPassedOver
  <2>2. ASSUME NEW r \in AgentRuns PROVE Tokens(r) <= pauses[r] /\ pauses[r] <= Cardinality(requested)
    <3>1. ResumersOf(r) = {} /\ requested = {} /\ pausedRun # r
      BY DEF ResumersOf, ApprovalsInit, AgentRuns
    <3>2. Cardinality(ResumersOf(r)) = 0 /\ Cardinality(requested) = 0
      BY <3>1, FS_EmptySet
    <3> QED BY <3>1, <3>2 DEF ApprovalsInit, Tokens
  <2> QED BY <2>1, <2>2 DEF ApprovalsInvariant
<1>2. ApprovalsInvariant /\ [ApprovalsNext]_approvals => ApprovalsInvariant'
  <2> SUFFICES ASSUME ApprovalsInvariant, [ApprovalsNext]_approvals PROVE ApprovalsInvariant'
    OBVIOUS
  <2>1. WideTypes' /\ NoneIsPassedOver'
    BY ShapesKept, NonePassedOver DEF ApprovalsInvariant
  <2> QED BY <2>1, TokensCounted DEF ApprovalsInvariant
<1> QED BY <1>1, <1>2, PTL DEF ApprovalsSpec

\* Every follow-up spends a pause of its run, however the answers to several
\* approvals interleave.
THEOREM FollowUpsArePaid == ApprovalsSpec => []OneFollowUpPerPause
<1>1. ApprovalsInvariant => OneFollowUpPerPause
  BY ResumersFinite DEF ApprovalsInvariant, OneFollowUpPerPause, Tokens, WideTypes
<1> QED BY <1>1, Inductive, PTL

\* No approval that waited at the first look of a resume is passed over.
THEOREM NoApprovalPassedOver == ApprovalsSpec => []NoneIsPassedOver
<1>1. ApprovalsInvariant => NoneIsPassedOver
  BY DEF ApprovalsInvariant
<1> QED BY <1>1, Inductive, PTL

\* Type correctness; the numbers of pauses and follow-ups of a run are bounded
\* by that of the approvals.
THEOREM ApprovalsTypeCorrect == ApprovalsSpec => []ApprovalsTypeOK
<1>1. ApprovalsInvariant => ApprovalsTypeOK
  <2> SUFFICES ASSUME ApprovalsInvariant PROVE ApprovalsTypeOK
    OBVIOUS
  <2>1. Cardinality(requested) <= Cardinality(Approvals) /\ Cardinality(Approvals) \in Nat
        /\ Cardinality(requested) \in Nat
    BY FS_Subset, FS_CardinalityType DEF ApprovalsInvariant, WideTypes
  <2>2. ASSUME NEW r \in AgentRuns
        PROVE  pauses[r] \in 0..Cardinality(Approvals) /\ followUps[r] \in 0..Cardinality(Approvals)
    BY <2>1, ResumersFinite DEF ApprovalsInvariant, Tokens, WideTypes
  <2>3. /\ pauses \in [AgentRuns -> 0..Cardinality(Approvals)]
        /\ followUps \in [AgentRuns -> 0..Cardinality(Approvals)]
    BY <2>2 DEF ApprovalsInvariant, WideTypes
  <2> QED BY <2>3 DEF ApprovalsInvariant, WideTypes, ApprovalsTypeOK
<1> QED BY <1>1, Inductive, PTL

HIDE ApprovalsAssumption

-----------------------------------------------------------------------------
(* HistorySync                                                             *)
(*                                                                         *)
(* A merge is a fold over the lines shown.  The fold is a recursive        *)
(* function on the sets of indices; one step after the other is found      *)
(* again in it by taking the least counterexample, and then an invariant   *)
(* of the steps is one of the merge.                                       *)

LEMMA LeastMember ==
  ASSUME NEW n \in Nat, NEW A \in SUBSET (1..n), A # {}
  PROVE  Min(A) \in A /\ \A j \in A : Min(A) <= j
<1> DEFINE T == {1..i : i \in A}
           R == StrictSubsetOrdering(1..n)
<1>1. IsFiniteSet(1..n)
  BY FS_Interval
<1>2. IsWellFoundedOn(R, FiniteSubsetsOf(1..n))
  BY FS_StrictSubsetOrderingWellFounded
<1>3. T \subseteq FiniteSubsetsOf(1..n) /\ T # {}
  <2>1. ASSUME NEW i \in A PROVE (1..i) \in FiniteSubsetsOf(1..n)
    <3>1. IsFiniteSet(1..i)
      BY FS_Interval
    <3>2. (1..i) \subseteq (1..n)
      OBVIOUS
    <3> QED BY <3>1, <3>2 DEF FiniteSubsetsOf
  <2> QED BY <2>1
<1>4. PICK x \in T : \A y \in T : <<y, x>> \notin R
  BY <1>2, <1>3, WFMin
<1>5. PICK i \in A : x = 1..i
  OBVIOUS
<1>6. \A j \in A : i <= j
  <2> SUFFICES ASSUME NEW j \in A, j < i PROVE FALSE
    OBVIOUS
  <2>1. (1..j) \subseteq (1..i) /\ (1..j) # (1..i)
    OBVIOUS
  <2>2. <<1..j, x>> \in R
    BY <2>1, <1>5, <1>3 DEF StrictSubsetOrdering, FiniteSubsetsOf
  <2> QED BY <2>2, <1>4
<1> QED BY <1>6 DEF Min

\* Induction up to n, for a set of numbers.
LEMMA StepByStep ==
  ASSUME NEW n \in Nat, NEW G, 0 \in G, \A k \in 0..(n - 1) : k \in G => k + 1 \in G
  PROVE  \A k \in 0..n : k \in G
<1> DEFINE bad == {k \in 1..n : k \notin G}
<1>0. bad \in SUBSET (1..n)
  OBVIOUS
<1>1. ASSUME bad # {} PROVE FALSE
  <2>1. bad \in SUBSET (1..n)
    BY <1>0
  <2> HIDE DEF bad
  <2> DEFINE m == Min(bad)
  <2>2. m \in bad /\ \A j \in bad : m <= j
    BY <1>1, <2>1, LeastMember
  <2> HIDE DEF m
  <2>3. m \in 1..n /\ m \notin G
    BY <2>2 DEF bad
  <2>4. m - 1 \in 0..(n - 1) /\ (m - 1) + 1 = m
    BY <2>3
  <2>5. m - 1 \in G
    <3>1. CASE m - 1 = 0
      BY <3>1
    <3>2. CASE m - 1 # 0
      <4>1. m - 1 \in 1..n /\ ~(m <= m - 1)
        BY <2>3, <3>2
      <4> QED BY <4>1, <2>2 DEF bad
    <3> QED BY <3>1, <3>2
  <2> QED BY <2>3, <2>4, <2>5
<1>2. ASSUME NEW k \in 0..n, k \notin G PROVE FALSE
  <2>1. k \in 1..n
    BY <1>2
  <2> QED BY <1>1, <1>2, <2>1
<1> QED BY <1>2

LEMMA GreatestMember ==
  ASSUME NEW n \in Nat, NEW A \in SUBSET (1..n), A # {}
  PROVE  Max(A) \in A /\ \A j \in A : j <= Max(A)
<1> DEFINE B == {n + 1 - i : i \in A}
<1>1. B \in SUBSET (1..n) /\ B # {}
  <2>1. ASSUME NEW i \in A PROVE n + 1 - i \in 1..n
    OBVIOUS
  <2> QED BY <2>1
<1>2. Min(B) \in B /\ \A j \in B : Min(B) <= j
  BY <1>1, LeastMember
<1>3. PICK i \in A : Min(B) = n + 1 - i
  BY <1>2
<1> HIDE DEF B
<1>4. ASSUME NEW j \in A PROVE j <= i
  <2>1. n + 1 - j \in B
    BY DEF B
  <2>2. n + 1 - i <= n + 1 - j
    BY <1>2, <1>3, <2>1
  <2>3. i \in Int /\ j \in Int
    OBVIOUS
  <2> QED BY <2>2, <2>3
<1>5. i \in A /\ \A j \in A : i >= j
  <2>1. \A j \in A : j \in Int /\ i \in Int
    OBVIOUS
  <2> QED BY <1>4, <2>1
<1>6. Max(A) \in A /\ \A j \in A : Max(A) >= j
  BY <1>5 DEF Max
<1>7. \A j \in A : Max(A) \in Int /\ j \in Int
  <2>1. A \subseteq Int
    OBVIOUS
  <2> QED BY <1>6, <2>1
<1> QED BY <1>6, <1>7

\* A fold with H, as a function on the sets of indices: the greatest is last.
IsFold(f, n, base, H) ==
    \A s \in SUBSET (1..n) :
        f[s] = IF s = {} THEN base ELSE H[<<f[s \ {Max(s)}], Max(s)>>]

LEMMA FoldExists ==
  ASSUME NEW n \in Nat, NEW A, NEW base \in A, NEW H \in [A \X (1..n) -> A]
  PROVE  \E g \in [SUBSET (1..n) -> A] : IsFold(g, n, base, H)
<1> DEFINE Fits(g, k) == \A s \in SUBSET (1..k) :
               g[s] = IF s = {} THEN base ELSE H[<<g[s \ {Max(s)}], Max(s)>>]
           G == {k \in 0..n : \E g \in [SUBSET (1..k) -> A] : Fits(g, k)}
<1>1. 0 \in G
  <2>1. [s \in SUBSET (1..0) |-> base] \in [SUBSET (1..0) -> A]
    OBVIOUS
  <2>2. Fits([s \in SUBSET (1..0) |-> base], 0)
    OBVIOUS
  <2>3. \E g \in [SUBSET (1..0) -> A] : Fits(g, 0)
    <3> HIDE DEF Fits
    <3> QED BY <2>1, <2>2
  <2>4. 0 \in 0..n
    OBVIOUS
  <2> HIDE DEF Fits
  <2> QED BY <2>3, <2>4
<1>2. ASSUME NEW k \in 0..(n - 1), k \in G PROVE k + 1 \in G
  <2>1. PICK g \in [SUBSET (1..k) -> A] : Fits(g, k)
    BY <1>2
  <2> DEFINE h == [s \in SUBSET (1..(k + 1)) |->
                     IF k + 1 \in s THEN H[<<g[s \ {k + 1}], k + 1>>] ELSE g[s]]
  <2>2. ASSUME NEW s \in SUBSET (1..(k + 1)), k + 1 \in s
        PROVE  /\ s \ {k + 1} \in SUBSET (1..k) /\ Max(s) = k + 1
               /\ h[s \ {k + 1}] = g[s \ {k + 1}]
               /\ h[s] = H[<<g[s \ {k + 1}], k + 1>>] /\ h[s] \in A
    <3>1. s \ {k + 1} \in SUBSET (1..k)
      BY <2>2
    <3>2. Max(s) = k + 1
      <4>0. k + 1 \in Nat /\ s # {}
        BY <2>2
      <4>1. Max(s) \in s /\ \A j \in s : j <= Max(s)
        BY <4>0, GreatestMember
      <4> DEFINE m == Max(s)
      <4>2. m \in s /\ k + 1 <= m
        BY <2>2, <4>1
      <4> HIDE DEF m
      <4>3. m \in 1..(k + 1)
        BY <4>2
      <4>4. m = k + 1
        BY <4>2, <4>3
      <4> QED BY <4>4 DEF m
    <3>3. h[s \ {k + 1}] = g[s \ {k + 1}]
      BY <3>1
    <3>4. h[s] = H[<<g[s \ {k + 1}], k + 1>>]
      BY <2>2
    <3>5. <<g[s \ {k + 1}], k + 1>> \in A \X (1..n)
      BY <3>1
    <3> QED BY <3>1, <3>2, <3>3, <3>4, <3>5
  <2>3. ASSUME NEW s \in SUBSET (1..(k + 1)), k + 1 \notin s
        PROVE  /\ s \in SUBSET (1..k) /\ h[s] = g[s] /\ h[s] \in A
               /\ s # {} => h[s \ {Max(s)}] = g[s \ {Max(s)}]
    <3>1. s \in SUBSET (1..k)
      BY <2>3
    <3>2. h[s] = g[s] /\ h[s] \in A
      BY <2>3, <3>1
    <3>3. ASSUME NEW x PROVE h[s \ {x}] = g[s \ {x}]
      BY <2>3, <3>1
    <3> HIDE DEF h
    <3> QED BY <3>1, <3>2, <3>3
  <2>4. h \in [SUBSET (1..(k + 1)) -> A]
    BY <2>2, <2>3
  <2> HIDE DEF h
  <2>5. Fits(h, k + 1)
    <3> SUFFICES ASSUME NEW s \in SUBSET (1..(k + 1))
                 PROVE  h[s] = IF s = {} THEN base ELSE H[<<h[s \ {Max(s)}], Max(s)>>]
      OBVIOUS
    <3>1. CASE k + 1 \in s
      BY <2>2, <3>1
    <3>2. CASE k + 1 \notin s
      <4>1. g[s] = IF s = {} THEN base ELSE H[<<g[s \ {Max(s)}], Max(s)>>]
        BY <2>1, <2>3, <3>2
      <4> QED BY <2>3, <3>2, <4>1
    <3> QED BY <3>1, <3>2
  <2>6. k + 1 \in 0..n
    OBVIOUS
  <2> HIDE DEF Fits
  <2>7. \E f \in [SUBSET (1..(k + 1)) -> A] : Fits(f, k + 1)
    BY <2>4, <2>5
  <2> QED BY <2>6, <2>7
<1> HIDE DEF G
<1>3. n \in G
  BY <1>1, <1>2, StepByStep
<1> QED BY <1>3 DEF G, IsFold

\* A recursive function on the sets of indices, as a run of steps.

\* It holds along the indices when it holds for members of A.
FoldsIn(f, A, n, base, H) ==
    \A s \in SUBSET (1..n) :
        /\ s = {} => f[s] = base
        /\ s # {} /\ f[s \ {Max(s)}] \in A => f[s] = H[<<f[s \ {Max(s)}], Max(s)>>]

StepsTo(r, n, base, H, end) ==
    /\ r[0] = base /\ r[n] = end
    /\ \A k \in 0..(n - 1) : r[k + 1] = H[<<r[k], k + 1>>]

LEMMA FoldRuns ==
  ASSUME NEW n \in Nat, NEW A, NEW base \in A, NEW H \in [A \X (1..n) -> A], NEW g,
         FoldsIn(g, A, n, base, H)
  PROVE  \E r \in [0..n -> A] : StepsTo(r, n, base, H, g[1..n])
<1> DEFINE r == [k \in 0..n |-> g[1..k]]
           G == {k \in 0..n : g[1..k] \in A}
<1>1. g[1..0] = base
  <2>1. 1..0 = {} /\ (1..0) \in SUBSET (1..n)
    OBVIOUS
  <2> QED BY <2>1 DEF FoldsIn
<1>2. ASSUME NEW k \in 0..(n - 1), g[1..k] \in A
      PROVE  /\ k + 1 \in 1..n /\ g[1..(k + 1)] = H[<<g[1..k], k + 1>>]
             /\ g[1..(k + 1)] \in A
  <2> DEFINE s == 1..(k + 1)
  <2>1. k + 1 \in Nat /\ k + 1 \in s /\ s \in SUBSET (1..(k + 1)) /\ s # {} /\ s \in SUBSET (1..n)
    OBVIOUS
  <2>2. Max(s) \in s /\ \A j \in s : j <= Max(s)
    <3> HIDE DEF s
    <3> QED BY <2>1, GreatestMember
  <2> DEFINE m == Max(s)
  <2>3. m \in s /\ k + 1 <= m
    BY <2>1, <2>2
  <2> HIDE DEF m
  <2>4. m = k + 1
    BY <2>3
  <2>5. s \ {k + 1} = 1..k
    OBVIOUS
  <2> HIDE DEF s
  <2>6. g[s \ {Max(s)}] \in A => g[s] = H[<<g[s \ {Max(s)}], Max(s)>>]
    BY <2>1 DEF FoldsIn
  <2>7. k + 1 \in 1..n
    OBVIOUS
  <2>8. g[s] = H[<<g[1..k], k + 1>>]
    BY <1>2, <2>4, <2>5, <2>6 DEF m
  <2>9. <<g[1..k], k + 1>> \in A \X (1..n)
    BY <1>2, <2>7
  <2>10. H[<<g[1..k], k + 1>>] \in A
    BY <2>9
  <2> QED BY <2>7, <2>8, <2>10 DEF s
<1>3. 0 \in G
  BY <1>1
<1>4. ASSUME NEW k \in 0..(n - 1), k \in G PROVE k + 1 \in G
  <2>1. k + 1 \in 0..n
    OBVIOUS
  <2> QED BY <1>2, <1>4, <2>1
<1> HIDE DEF G
<1>5. \A k \in 0..n : k \in G
  BY <1>3, <1>4, StepByStep
<1>6. r \in [0..n -> A]
  BY <1>5 DEF G
<1>7. \A k \in 0..(n - 1) : r[k + 1] = H[<<r[k], k + 1>>]
  <2>1. ASSUME NEW k \in 0..(n - 1) PROVE r[k + 1] = H[<<r[k], k + 1>>]
    <3>1. k \in 0..n /\ k + 1 \in 0..n
      OBVIOUS
    <3>2. g[1..k] \in A
      BY <1>5, <3>1 DEF G
    <3> QED BY <1>2, <3>1, <3>2
  <2> QED BY <2>1
<1>8. r[0] = base /\ r[n] = g[1..n]
  BY <1>1
<1> HIDE DEF r
<1> QED BY <1>6, <1>7, <1>8 DEF StepsTo

\* Where lines of L are placed next.
Spots(L) == {m \in [lines : Seq(L), next : Nat \ {0}] : m.next <= Len(m.lines) + 1}

\* t is s with l inserted at i.
Widened(t, s, i, l) ==
    /\ Len(t) = Len(s) + 1
    /\ \A j \in 1..(i - 1) : t[j] = s[j]
    /\ t[i] = l
    /\ \A j \in (i + 1)..(Len(s) + 1) : t[j] = s[j - 1]

\* A line inserted.
LEMMA Inserted ==
  ASSUME NEW L, NEW s \in Seq(L), NEW i \in 1..(Len(s) + 1), NEW l \in L
  PROVE  InsertAt(s, i, l) \in Seq(L) /\ Widened(InsertAt(s, i, l), s, i, l)
<1> DEFINE a == SubSeq(s, 1, i - 1)
           b == SubSeq(s, i, Len(s))
<1>1. a \in Seq(L) /\ Len(a) = i - 1 /\ \A j \in 1..(i - 1) : a[j] = s[j]
  OBVIOUS
<1>2. b \in Seq(L) /\ Len(b) = Len(s) - i + 1 /\ \A j \in 1..Len(b) : b[j] = s[i + j - 1]
  OBVIOUS
<1>3. InsertAt(s, i, l) = a \o <<l>> \o b
  BY DEF InsertAt
<1> HIDE DEF a, b
<1>4. a \o <<l>> \in Seq(L) /\ Len(a \o <<l>>) = i /\ (a \o <<l>>)[i] = l
      /\ \A j \in 1..(i - 1) : (a \o <<l>>)[j] = a[j]
  BY <1>1
<1> DEFINE c == a \o <<l>>
<1> HIDE DEF c
<1>5. c \in Seq(L) /\ Len(c) = i /\ c[i] = l /\ \A j \in 1..(i - 1) : c[j] = a[j]
  BY <1>4 DEF c
<1>6. InsertAt(s, i, l) = c \o b
  BY <1>3 DEF c
<1>7. c \o b \in Seq(L) /\ Len(c \o b) = Len(s) + 1
  <2>0. c \in Seq(L) /\ b \in Seq(L)
    BY <1>2, <1>5
  <2>1. c \o b \in Seq(L)
    BY <2>0
  <2>3. Len(c \o b) = Len(c) + Len(b)
    BY <2>0
  <2>2. Len(s) \in Int /\ i \in Int
    OBVIOUS
  <2> QED BY <1>2, <1>5, <2>1, <2>2, <2>3
<1>8. ASSUME NEW j \in 1..i PROVE (c \o b)[j] = c[j]
  <2>1. Len(b) \in Nat /\ Len(c) \in Nat /\ i = Len(c) /\ j \in 1..(Len(c) + Len(b)) /\ j <= Len(c)
    BY <1>2, <1>5
  <2> QED BY <1>2, <1>5, <2>1
<1>9. ASSUME NEW j \in (i + 1)..(Len(s) + 1) PROVE (c \o b)[j] = b[j - i]
  <2>1. Len(b) \in Nat /\ Len(c) \in Nat /\ i = Len(c) /\ j \in 1..(Len(c) + Len(b)) /\ ~(j <= Len(c))
    BY <1>2, <1>5
  <2>2. (c \o b)[j] = b[j - Len(c)]
    BY <1>2, <1>5, <2>1
  <2> QED BY <2>1, <2>2
<1>10. ASSUME NEW j \in (i + 1)..(Len(s) + 1) PROVE b[j - i] = s[j - 1]
  <2>1. j - i \in 1..Len(b)
    BY <1>2
  <2>2. b[j - i] = s[i + (j - i) - 1] /\ i + (j - i) - 1 = j - 1
    BY <1>2, <2>1
  <2> QED BY <2>2
<1>11. InsertAt(s, i, l) \in Seq(L)
  BY <1>6, <1>7
<1> QED BY <1>1, <1>5, <1>6, <1>7, <1>8, <1>9, <1>10, <1>11 DEF Widened

LEMMA PlacedFits ==
  ASSUME NEW L, NEW m \in Spots(L), NEW l \in L
  PROVE  /\ Placed(m, l) \in Spots(L)
         /\ \/ /\ Placed(m, l).lines = m.lines
               /\ Placed(m, l).next - 1 \in m.next..Len(m.lines)
               /\ SameText(m.lines[Placed(m, l).next - 1], l)
            \/ /\ Placed(m, l).lines = InsertAt(m.lines, m.next, l)
               /\ Placed(m, l).next = m.next + 1
<1> DEFINE copies == {i \in m.next..Len(m.lines) : SameText(m.lines[i], l)}
<1>1. m \in [lines : Seq(L), next : Nat \ {0}] /\ m.lines \in Seq(L) /\ m.next \in Nat \ {0}
      /\ m.next \in 1..(Len(m.lines) + 1) /\ Len(m.lines) \in Nat
      /\ m = [lines |-> m.lines, next |-> m.next]
  BY DEF Spots
<1>2. CASE copies # {}
  <2>1. copies \in SUBSET (1..Len(m.lines))
    BY <1>1
  <2>2. Min(copies) \in copies
    <3> HIDE DEF copies
    <3> QED BY <1>1, <1>2, <2>1, LeastMember
  <2> DEFINE k == Min(copies)
  <2>3. Placed(m, l) = [m EXCEPT !.next = k + 1]
    BY <1>2 DEF Placed
  <2>4. k \in m.next..Len(m.lines) /\ SameText(m.lines[k], l)
    BY <2>2
  <2> HIDE DEF k, copies
  <2>5. Placed(m, l).lines = m.lines /\ Placed(m, l).next = k + 1
        /\ Placed(m, l) = [lines |-> m.lines, next |-> k + 1]
    BY <2>3, <1>1
  <2>6. k + 1 \in Nat \ {0} /\ k + 1 <= Len(m.lines) + 1 /\ (k + 1) - 1 = k
    BY <2>4, <1>1
  <2> QED BY <1>1, <2>4, <2>5, <2>6 DEF Spots
<1>3. CASE copies = {}
  <2>1. Placed(m, l) = [lines |-> InsertAt(m.lines, m.next, l), next |-> m.next + 1]
    BY <1>3 DEF Placed
  <2>2. /\ InsertAt(m.lines, m.next, l) \in Seq(L)
        /\ Len(InsertAt(m.lines, m.next, l)) = Len(m.lines) + 1
    BY <1>1, Inserted DEF Widened
  <2>3. m.next + 1 \in Nat \ {0} /\ m.next + 1 <= (Len(m.lines) + 1) + 1
    BY <1>1
  <2> HIDE DEF copies
  <2> QED BY <2>1, <2>2, <2>3 DEF Spots
<1> QED BY <1>2, <1>3

\* The lines of q are placed one after the other.
Placings(r, base, q) ==
    /\ r[0] = base /\ r[Len(q)] = FoldLeft(Placed, base, q)
    /\ \A k \in 0..(Len(q) - 1) : r[k + 1] = Placed(r[k], q[k + 1])

LEMMA Placing ==
  ASSUME NEW L, NEW base \in Spots(L), NEW q \in Seq(L)
  PROVE  \E r \in [0..Len(q) -> Spots(L)] : Placings(r, base, q)
<1> DEFINE n == Len(q)
           A == Spots(L)
           H == [x \in A \X (1..n) |-> Placed(x[1], q[x[2]])]
           D == DOMAIN q
           g == CHOOSE g : g = [s \in SUBSET D |->
                    IF s = {} THEN base ELSE Placed(g[s \ {Max(s)}], q[Max(s)])]
<1>1. FoldLeft(Placed, base, q) = g[D]
  BY DEF FoldLeft, MapThenFoldSet
<1>2. n \in Nat /\ D = 1..n
  OBVIOUS
<1>3. H \in [A \X (1..n) -> A]
  <2>1. ASSUME NEW x \in A \X (1..n) PROVE Placed(x[1], q[x[2]]) \in A
    BY PlacedFits
  <2> QED BY <2>1
<1>4. \E f : f = [s \in SUBSET D |->
                    IF s = {} THEN base ELSE Placed(f[s \ {Max(s)}], q[Max(s)])]
  <2>1. PICK f \in [SUBSET (1..n) -> A] : IsFold(f, n, base, H)
    <3>1. base \in A
      OBVIOUS
    <3> HIDE DEF A, H, n
    <3> QED BY <1>2, <1>3, <3>1, FoldExists
  <2>2. ASSUME NEW s \in SUBSET D, s # {}
        PROVE  H[<<f[s \ {Max(s)}], Max(s)>>] = Placed(f[s \ {Max(s)}], q[Max(s)])
    <3>1. Max(s) \in 1..n
      <4>1. Max(s) \in s
        BY <1>2, <2>2, GreatestMember
      <4> QED BY <4>1, <1>2
    <3>2. f[s \ {Max(s)}] \in A
      BY <1>2
    <3> QED BY <3>1, <3>2
  <2>3. f = [s \in SUBSET D |->
                    IF s = {} THEN base ELSE Placed(f[s \ {Max(s)}], q[Max(s)])]
    <3> HIDE DEF H, A, n
    <3> QED BY <1>2, <2>1, <2>2 DEF IsFold
  <2> QED BY <2>3
<1>5. g = [s \in SUBSET D |->
                    IF s = {} THEN base ELSE Placed(g[s \ {Max(s)}], q[Max(s)])]
  BY <1>4
<1> HIDE DEF g
<1>6. FoldsIn(g, A, n, base, H)
  <2> SUFFICES ASSUME NEW s \in SUBSET (1..n)
      PROVE  /\ s = {} => g[s] = base
             /\ s # {} /\ g[s \ {Max(s)}] \in A => g[s] = H[<<g[s \ {Max(s)}], Max(s)>>]
    BY DEF FoldsIn
  <2>1. g[s] = IF s = {} THEN base ELSE Placed(g[s \ {Max(s)}], q[Max(s)])
    BY <1>2, <1>5
  <2>2. CASE s = {}
    BY <2>1, <2>2
  <2>3. CASE s # {}
    <3>1. Max(s) \in 1..n
      <4>1. Max(s) \in s
        BY <1>2, <2>3, GreatestMember
      <4> QED BY <4>1
    <3> QED BY <2>1, <2>3, <3>1
  <2> QED BY <2>2, <2>3
<1>7. PICK r \in [0..n -> A] : StepsTo(r, n, base, H, g[1..n])
  <2>1. base \in A
    OBVIOUS
  <2> HIDE DEF A, H, n
  <2> QED BY <1>2, <1>3, <1>6, <2>1, FoldRuns
<1>8. ASSUME NEW k \in 0..(n - 1) PROVE r[k + 1] = Placed(r[k], q[k + 1])
  <2>1. k \in 0..n /\ k + 1 \in 1..n
    OBVIOUS
  <2>2. r[k] \in A
    BY <2>1
  <2> QED BY <1>7, <2>1, <2>2 DEF StepsTo
<1>9. r[n] = FoldLeft(Placed, base, q)
  BY <1>1, <1>2, <1>7 DEF StepsTo
<1>10. r[0] = base
  BY <1>7 DEF StepsTo
<1> QED BY <1>8, <1>9, <1>10 DEF Placings

\* One line of a merge is kept or not.
LineKept(answer, listed, kept, l) ==
    IF /\ l.role = "assistant" /\ Copies(listed, l) > 0
       /\ Copies(answer, l) \in 1..Copies(kept, l)
    THEN kept ELSE Append(kept, l)

Boundings(r, q, answer, listed) ==
    /\ r[0] = <<>> /\ r[Len(q)] = Bounded(q, answer, listed)
    /\ \A k \in 0..(Len(q) - 1) : r[k + 1] = LineKept(answer, listed, r[k], q[k + 1])

LEMMA Bounding ==
  ASSUME NEW answer, NEW listed, NEW L, NEW q \in Seq(L)
  PROVE  \E r \in [0..Len(q) -> Seq(L)] : Boundings(r, q, answer, listed)
<1> DEFINE n == Len(q)
           base == <<>>
           A == Seq(L)
           H == [x \in A \X (1..n) |-> LineKept(answer, listed, x[1], q[x[2]])]
           D == DOMAIN q
           g == CHOOSE g : g = [s \in SUBSET D |->
                    IF s = {} THEN base ELSE LineKept(answer, listed, g[s \ {Max(s)}], q[Max(s)])]
<1>1. Bounded(q, answer, listed) = g[D]
  BY DEF Bounded, LineKept, FoldLeft, MapThenFoldSet
<1>2. n \in Nat /\ D = 1..n
  OBVIOUS
<1>3. H \in [A \X (1..n) -> A]
  <2>1. ASSUME NEW x \in A \X (1..n) PROVE LineKept(answer, listed, x[1], q[x[2]]) \in A
    BY DEF LineKept
  <2> QED BY <2>1
<1>4. \E f : f = [s \in SUBSET D |->
                    IF s = {} THEN base ELSE LineKept(answer, listed, f[s \ {Max(s)}], q[Max(s)])]
  <2>1. PICK f \in [SUBSET (1..n) -> A] : IsFold(f, n, base, H)
    <3>1. base \in A
      OBVIOUS
    <3> HIDE DEF A, H, n
    <3> QED BY <1>2, <1>3, <3>1, FoldExists
  <2>2. ASSUME NEW s \in SUBSET D, s # {}
        PROVE  H[<<f[s \ {Max(s)}], Max(s)>>] = LineKept(answer, listed, f[s \ {Max(s)}], q[Max(s)])
    <3>1. Max(s) \in 1..n
      <4>1. Max(s) \in s
        BY <1>2, <2>2, GreatestMember
      <4> QED BY <4>1, <1>2
    <3>2. f[s \ {Max(s)}] \in A
      BY <1>2
    <3> QED BY <3>1, <3>2
  <2>3. f = [s \in SUBSET D |->
                    IF s = {} THEN base ELSE LineKept(answer, listed, f[s \ {Max(s)}], q[Max(s)])]
    <3> HIDE DEF H, A, n
    <3> QED BY <1>2, <2>1, <2>2 DEF IsFold
  <2> QED BY <2>3
<1>5. g = [s \in SUBSET D |->
                    IF s = {} THEN base ELSE LineKept(answer, listed, g[s \ {Max(s)}], q[Max(s)])]
  BY <1>4
<1> HIDE DEF g
<1>6. FoldsIn(g, A, n, base, H)
  <2> SUFFICES ASSUME NEW s \in SUBSET (1..n)
      PROVE  /\ s = {} => g[s] = base
             /\ s # {} /\ g[s \ {Max(s)}] \in A => g[s] = H[<<g[s \ {Max(s)}], Max(s)>>]
    BY DEF FoldsIn
  <2>1. g[s] = IF s = {} THEN base ELSE LineKept(answer, listed, g[s \ {Max(s)}], q[Max(s)])
    BY <1>2, <1>5
  <2>2. CASE s = {}
    BY <2>1, <2>2
  <2>3. CASE s # {}
    <3>1. Max(s) \in 1..n
      <4>1. Max(s) \in s
        BY <1>2, <2>3, GreatestMember
      <4> QED BY <4>1
    <3> QED BY <2>1, <2>3, <3>1
  <2> QED BY <2>2, <2>3
<1>7. PICK r \in [0..n -> A] : StepsTo(r, n, base, H, g[1..n])
  <2>1. base \in A
    OBVIOUS
  <2> HIDE DEF A, H, n
  <2> QED BY <1>2, <1>3, <1>6, <2>1, FoldRuns
<1>8. ASSUME NEW k \in 0..(n - 1) PROVE r[k + 1] = LineKept(answer, listed, r[k], q[k + 1])
  <2>1. k \in 0..n /\ k + 1 \in 1..n
    OBVIOUS
  <2>2. r[k] \in A
    BY <2>1
  <2> QED BY <1>7, <2>1, <2>2 DEF StepsTo
<1>9. r[n] = Bounded(q, answer, listed)
  BY <1>1, <1>2, <1>7 DEF StepsTo
<1>10. r[0] = base
  BY <1>7 DEF StepsTo
<1> QED BY <1>8, <1>9, <1>10 DEF Boundings

\* A merge shows nothing that neither side has.
LEMMA MergedFrom ==
  ASSUME NEW L, NEW answer \in Seq(L), NEW listed \in Seq(L)
  PROVE  Merged(answer, listed) \in Seq(L)
<1> DEFINE base == [lines |-> answer, next |-> 1]
           spot == FoldLeft(Placed, base, listed)
<1>1. CASE listed = <<>> \/ answer = <<>>
  BY <1>1 DEF Merged
<1>2. CASE ~(listed = <<>> \/ answer = <<>>)
  <2>1. base \in Spots(L)
    BY DEF Spots
  <2>2. spot \in Spots(L)
    <3>1. PICK r \in [0..Len(listed) -> Spots(L)] : Placings(r, base, listed)
      <4> HIDE DEF base
      <4> QED BY <2>1, Placing
    <3> QED BY <3>1 DEF Placings
  <2>3. spot.lines \in Seq(L)
    <3> HIDE DEF spot
    <3> QED BY <2>2 DEF Spots
  <2>4. Merged(answer, listed) = Bounded(spot.lines, answer, listed)
    BY <1>2 DEF Merged
  <2> HIDE DEF spot
  <2>5. PICK r \in [0..Len(spot.lines) -> Seq(L)] : Boundings(r, spot.lines, answer, listed)
    BY <2>3, Bounding
  <2>6. Len(spot.lines) \in 0..Len(spot.lines)
    BY <2>3
  <2>7. r[Len(spot.lines)] \in Seq(L)
    BY <2>5, <2>6
  <2> QED BY <2>4, <2>5, <2>7 DEF Boundings
<1> QED BY <1>1, <1>2

AskTypes == [stage : {"none", "asked", "read", "answered"}, revision : Nat, epoch : 0..MaxFresh,
         log : Seq(TurnLines)]
Renewals == [stage : {"none", "asked", "answered"}, revision : Nat, epoch : 0..MaxFresh]
Chats == [lines : Seq(TurnLines), revision : Nat, epoch : 0..MaxFresh, since : 0..MaxFresh,
          loaded : BOOLEAN, status : {"idle", "running"}, run : Turns \cup {Nothing}]
Talks == [log : Seq(TurnLines), turn : [Turns -> {"unborn", "sent", "going", "over"}],
          born : [Turns -> 0..MaxFresh], age : 0..MaxFresh]
HistoryFrames == [kind : {"start", "final"}, what : Turns, log : {<<>>}]
            \cup [kind : {"answer"}, what : HistoryCalls, log : Seq(TurnLines)]
            \cup [kind : {"refusal"}, what : HistoryCalls, log : {<<>>}]
            \cup [kind : {"reset"}, what : {Nothing}, log : {<<>>}]

HistoryRecords ==
    /\ talk \in Talks
    /\ wire \in Seq(HistoryFrames)
    /\ room \in Chats /\ latest \in Chats /\ dirty \in BOOLEAN
    /\ fetches \in [HistoryCalls -> AskTypes] /\ mark \in BOOLEAN
    /\ fresh \in Renewals
    /\ line \in BOOLEAN /\ breaks \in Nat

\* What is under way is known by its stage, and without a line nothing is.
FetchesFit ==
    /\ \A c \in HistoryCalls : fetches[c].stage = "none" => fetches[c] = NoAsk
    /\ fresh.stage = "none" => fresh = NoFresh
    /\ fresh.stage = "asked" => talk.age < MaxFresh
    /\ ~line => wire = <<>>
    /\ ~dirty => latest = room
    /\ mark => \E c \in HistoryCalls : fetches[c] # NoAsk

\* The resets that have arrived, or else will not.
Landed == IF fresh.stage = "answered" THEN talk.age - 1 ELSE talk.age

\* A session is not newer here than at the gateway.
EpochsFit ==
    /\ room.epoch <= Landed /\ latest.epoch <= Landed
    /\ \A c \in HistoryCalls : fetches[c].epoch <= Landed
    /\ fresh.epoch <= Landed

\* The agent as committed is behind the one in the store by whole renewals; a
\* reset was asked for the session in the store, and nothing for a later one.
Behind(c, d) ==
    c.epoch <= d.epoch /\ c.since <= d.since /\ (c.epoch = d.epoch <=> c.since = d.since)
RenewalsFit ==
    /\ room.since <= Landed
    /\ Behind(latest, room)
    /\ \A c \in HistoryCalls : fetches[c].epoch <= room.epoch
    /\ fresh # NoFresh => fresh.epoch = room.epoch

\* Only a reset leaves a request under way without its mark.
Busy == {c \in HistoryCalls : fetches[c] # NoAsk}
SlotsFit == Cardinality(Busy) <= IF mark THEN Landed + 1 ELSE Landed

\* Each frame is of something under way, and its only one.
Replies == {"answer", "refusal"}
FramesFit ==
    /\ \A i \in DOMAIN wire :
          /\ wire[i].kind \in Replies => fetches[wire[i].what].stage = "answered"
          /\ wire[i].kind = "reset" => fresh.stage = "answered"
    /\ \A i, j \in DOMAIN wire :
          /\ wire[i].kind \in Replies /\ wire[j].kind \in Replies /\ wire[i].what = wire[j].what
                => i = j
          /\ wire[i].kind = "reset" /\ wire[j].kind = "reset" => i = j

\* The runs of a log have begun, in session e or later.
LogFits(t, log, e) ==
    \A i \in DOMAIN log :
        t.turn[log[i].run] \in {"going", "over"} /\ t.born[log[i].run] >= e
\* What was asked for in the session in the store is of the session the store
\* was last renewed for; what was asked for in an earlier one may be of any.
Since(e) == IF e = room.epoch THEN room.since ELSE 0
LogsFit ==
    /\ LogFits(talk, talk.log, talk.age)
    /\ \A c \in HistoryCalls :
          fetches[c].stage = "read" => LogFits(talk, fetches[c].log, Since(fetches[c].epoch))
    /\ \A i \in DOMAIN wire :
          wire[i].kind = "answer" => LogFits(talk, wire[i].log, Since(fetches[wire[i].what].epoch))

HistoryInvariant ==
    HistoryRecords /\ FetchesFit /\ EpochsFit /\ RenewalsFit /\ SlotsFit /\ FramesFit /\ LogsFit

-----------------------------------------------------------------------------
LEMMA Sending ==
  ASSUME NEW f \in HistoryFrames, HistoryRecords, Send(f)
  PROVE  /\ wire' \in Seq(HistoryFrames)
         /\ \A i \in DOMAIN wire' : \/ i \in DOMAIN wire /\ wire'[i] = wire[i]
                                    \/ line /\ i = Len(wire) + 1 /\ wire'[i] = f
         /\ ~line => wire' = wire
BY DEF HistoryRecords, Send

LEMMA Receiving ==
  ASSUME NEW kind, HistoryRecords, Receives(kind)
  PROVE  /\ wire' \in Seq(HistoryFrames)
         /\ 1 \in DOMAIN wire /\ Head(wire) = wire[1] /\ wire[1] \in HistoryFrames /\ wire[1].kind = kind
         /\ \A i \in DOMAIN wire' : i + 1 \in DOMAIN wire /\ i + 1 # 1 /\ wire'[i] = wire[i + 1]
         /\ line
<1>1. wire \in Seq(HistoryFrames) /\ wire # <<>> /\ wire' = Tail(wire) /\ line /\ Head(wire).kind = kind
  BY DEF HistoryRecords, Receives
<1>2. Len(wire) \in Nat /\ Len(wire) > 0 /\ Head(wire) = wire[1]
  BY <1>1
<1>3. wire' \in Seq(HistoryFrames) /\ Len(wire') = Len(wire) - 1
  BY <1>1
<1>4. ASSUME NEW i \in DOMAIN wire' PROVE i + 1 \in DOMAIN wire /\ i + 1 # 1 /\ wire'[i] = wire[i + 1]
  BY <1>1, <1>2, <1>3
<1> QED BY <1>1, <1>2, <1>3, <1>4

\* What a log says stays true while runs only begin and end.
Grown(t, u) ==
    \A r \in Turns : t.turn[r] \in {"going", "over"} =>
        u.turn[r] \in {"going", "over"} /\ u.born[r] = t.born[r]

LEMMA LogStays ==
  ASSUME NEW t, NEW u, Grown(t, u), NEW log \in Seq(TurnLines), NEW e, LogFits(t, log, e)
  PROVE  LogFits(u, log, e)
<1> SUFFICES ASSUME NEW i \in DOMAIN log
             PROVE  u.turn[log[i].run] \in {"going", "over"} /\ u.born[log[i].run] >= e
  BY DEF LogFits
<1>1. log[i] \in TurnLines
  OBVIOUS
<1>2. log[i].run \in Turns
  BY <1>1 DEF TurnLines
<1> QED BY <1>2 DEF LogFits, Grown

\* Every session is at least the first.
LEMMA LogOfAny ==
  ASSUME NEW t \in Talks, NEW log \in Seq(TurnLines), NEW e, LogFits(t, log, e)
  PROVE  LogFits(t, log, 0)
<1> SUFFICES ASSUME NEW i \in DOMAIN log
             PROVE  t.turn[log[i].run] \in {"going", "over"} /\ t.born[log[i].run] >= 0
  BY DEF LogFits
<1>1. log[i] \in TurnLines
  OBVIOUS
<1>2. log[i].run \in Turns
  BY <1>1 DEF TurnLines
<1>3. t.born \in [Turns -> 0..MaxFresh]
  BY DEF Talks
<1>4. t.born[log[i].run] \in 0..MaxFresh
  BY <1>2, <1>3
<1>5. t.turn[log[i].run] \in {"going", "over"}
  BY DEF LogFits
<1> QED BY <1>4, <1>5

\* While no reset comes, a call finds a slot.
LEMMA SlotIsFree ==
  ASSUME HistoryRecords, SlotsFit, ~mark, Landed \in 0..MaxFresh
  PROVE  FreeCall \in HistoryCalls /\ fetches[FreeCall] = NoAsk
<1>1. \E c \in HistoryCalls : fetches[c] = NoAsk
  <2>1. SUFFICES ASSUME Busy = HistoryCalls PROVE FALSE
    BY DEF Busy
  <2>2. Cardinality(HistoryCalls) \in Nat /\ MaxFresh \in Nat
    BY FS_CardinalityType, HistoryAssumption DEF HistoryAssumption
  <2>3. Cardinality(HistoryCalls) <= Landed
    BY <2>1 DEF SlotsFit
  <2> QED BY <2>2, <2>3, HistoryAssumption DEF HistoryAssumption
<1> QED BY <1>1 DEF FreeCall

\* The requests as they are, or one more.
AsksOne ==
    /\ fetches' \in [HistoryCalls -> AskTypes] /\ mark' \in BOOLEAN
    /\ \A c \in HistoryCalls :
          \/ fetches'[c] = fetches[c]
          \/ /\ fetches[c] = NoAsk
             /\ fetches'[c] # NoAsk /\ fetches'[c].stage = "asked" /\ fetches'[c].epoch <= Landed
             /\ fetches'[c].epoch <= room.epoch
    /\ mark' => \E c \in HistoryCalls : fetches'[c] # NoAsk
    /\ Cardinality(Busy') <= IF mark' THEN Landed + 1 ELSE Landed

LEMMA BusyIsFinite ==
  /\ IsFiniteSet(Busy) /\ Cardinality(Busy) \in Nat
  /\ IsFiniteSet(Busy') /\ Cardinality(Busy') \in Nat
<1>1. Busy \subseteq HistoryCalls /\ Busy' \subseteq HistoryCalls
  BY DEF Busy
<1> QED BY <1>1, FS_Subset, FS_CardinalityType, HistoryAssumption DEF HistoryAssumption

LEMMA ArrivedIsAge ==
  ASSUME HistoryRecords, EpochsFit
  PROVE  Landed \in 0..MaxFresh
<1>1. talk.age \in 0..MaxFresh /\ MaxFresh \in Nat
  BY HistoryAssumption DEF HistoryRecords, Talks, HistoryAssumption
<1>2. room.epoch \in Nat
  BY <1>1 DEF HistoryRecords, Chats
<1>3. room.epoch <= Landed
  BY DEF EpochsFit
<1>4. Landed \in Int /\ Landed <= talk.age
  BY <1>1 DEF Landed
<1> QED BY <1>1, <1>2, <1>3, <1>4

LEMMA Unasked ==
  ASSUME HistoryInvariant, UNCHANGED <<fetches, mark>>
  PROVE  AsksOne
BY DEF HistoryInvariant, HistoryRecords, FetchesFit, SlotsFit, AsksOne, Busy

LEMMA Fetching ==
  ASSUME HistoryInvariant, NEW view \in Chats, view.epoch <= Landed, view.epoch <= room.epoch,
         Fetches(view)
  PROVE  AsksOne
<1>0. HistoryRecords /\ Landed \in 0..MaxFresh /\ MaxFresh \in Nat
  BY ArrivedIsAge, HistoryAssumption DEF HistoryInvariant, HistoryAssumption
<1>1. CASE mark
  BY <1>1, Unasked DEF Fetches
<1>2. CASE ~mark
  <2> DEFINE d == FreeCall
             ask == [NoAsk EXCEPT !.stage = "asked", !.revision = view.revision, !.epoch = view.epoch]
  <2>1. d \in HistoryCalls /\ fetches[d] = NoAsk
    BY <1>0, <1>2, SlotIsFree DEF HistoryInvariant
  <2>2. mark' = TRUE /\ fetches' = [fetches EXCEPT ![d] = ask]
    BY <1>2 DEF Fetches
  <2>3. ask = [stage |-> "asked", revision |-> view.revision, epoch |-> view.epoch, log |-> <<>>]
    <3> DEFINE a == [stage |-> "none", revision |-> 0, epoch |-> 0, log |-> <<>>]
    <3>1. [a EXCEPT !.stage = "asked"] = [stage |-> "asked", revision |-> 0, epoch |-> 0, log |-> <<>>]
      OBVIOUS
    <3>2. ask = [[[a EXCEPT !.stage = "asked"] EXCEPT !.revision = view.revision]
                     EXCEPT !.epoch = view.epoch]
      BY DEF NoAsk
    <3> DEFINE x == view.revision
               y == view.epoch
    <3> HIDE DEF x, y
    <3>3. [[stage |-> "asked", revision |-> 0, epoch |-> 0, log |-> <<>>] EXCEPT !.revision = x]
            = [stage |-> "asked", revision |-> x, epoch |-> 0, log |-> <<>>]
      OBVIOUS
    <3>4. [[stage |-> "asked", revision |-> x, epoch |-> 0, log |-> <<>>] EXCEPT !.epoch = y]
            = [stage |-> "asked", revision |-> x, epoch |-> y, log |-> <<>>]
      OBVIOUS
    <3> QED BY <3>1, <3>2, <3>3, <3>4 DEF x, y
  <2>4. view.revision \in Nat /\ view.epoch \in 0..MaxFresh
    BY DEF Chats
  <2>5. ask \in AskTypes /\ ask # NoAsk /\ ask.stage = "asked" /\ ask.epoch <= Landed
        /\ ask.epoch <= room.epoch
    <3>1. ask \in AskTypes
      <4>1. <<>> \in Seq(TurnLines) /\ "asked" \in {"none", "asked", "read", "answered"}
        OBVIOUS
      <4> HIDE DEF ask
      <4> QED BY <2>3, <2>4, <4>1 DEF AskTypes
    <3>2. ask.stage # NoAsk.stage
      BY <2>3 DEF NoAsk
    <3> QED BY <2>3, <3>1, <3>2
  <2> HIDE DEF d, ask
  <2>6. fetches \in [HistoryCalls -> AskTypes]
    BY <1>0 DEF HistoryRecords
  <2>7. fetches' \in [HistoryCalls -> AskTypes] /\ fetches'[d] = ask
        /\ \A c \in HistoryCalls \ {d} : fetches'[c] = fetches[c]
    BY <2>1, <2>2, <2>5, <2>6
  <2>8. Busy' = Busy \cup {d} /\ d \notin Busy
    BY <2>1, <2>5, <2>7 DEF Busy
  <2>9. Cardinality(Busy') = Cardinality(Busy) + 1
    BY <2>8, FS_AddElement, BusyIsFinite
  <2>10. Cardinality(Busy) <= Landed
    BY <1>2 DEF HistoryInvariant, SlotsFit
  <2>11. Cardinality(Busy') <= Landed + 1
    BY <1>0, <2>9, <2>10, BusyIsFinite
  <2> QED BY <2>1, <2>2, <2>5, <2>7, <2>11 DEF AsksOne
<1> QED BY <1>1, <1>2

LEMMA ShownFits ==
  ASSUME NEW c \in Chats, NEW l \in TurnLines
  PROVE  /\ Shown(c, l) \in Chats /\ Shown(c, l).epoch = c.epoch /\ Shown(c, l).since = c.since
         /\ Shown(c, l).lines = Append(c.lines, l)
<1>1. c = [lines |-> c.lines, revision |-> c.revision, epoch |-> c.epoch, since |-> c.since,
           loaded |-> c.loaded, status |-> c.status, run |-> c.run]
      /\ c.lines \in Seq(TurnLines) /\ c.revision \in Nat
  BY DEF Chats
<1>2. Append(c.lines, l) \in Seq(TurnLines) /\ c.revision + 1 \in Nat
  BY <1>1
<1>3. Shown(c, l) = [lines |-> Append(c.lines, l), revision |-> c.revision + 1, epoch |-> c.epoch,
                     since |-> c.since, loaded |-> c.loaded, status |-> c.status, run |-> c.run]
  <2> DEFINE x == Append(c.lines, l)
             y == c.revision + 1
  <2>1. Shown(c, l) = [[c EXCEPT !.lines = x] EXCEPT !.revision = y]
    BY DEF Shown
  <2> HIDE DEF x, y
  <2>2. [c EXCEPT !.lines = x] =
            [lines |-> x, revision |-> c.revision, epoch |-> c.epoch, since |-> c.since,
             loaded |-> c.loaded, status |-> c.status, run |-> c.run]
    BY <1>1
  <2> QED BY <2>1, <2>2 DEF x, y
<1> QED BY <1>2, <1>3 DEF Chats

LEMMA FrameKinds ==
  ASSUME NEW f \in HistoryFrames
  PROVE  /\ f.kind \in {"start", "final"} => f.what \in Turns
         /\ f.kind \in Replies => f.what \in HistoryCalls /\ f.log \in Seq(TurnLines)
<1>1. CASE f \in [kind : {"start", "final"}, what : Turns, log : {<<>>}]
  BY <1>1 DEF Replies
<1>2. CASE f \in [kind : {"answer"}, what : HistoryCalls, log : Seq(TurnLines)]
  BY <1>2 DEF Replies
<1>3. CASE f \in [kind : {"refusal"}, what : HistoryCalls, log : {<<>>}]
  <2>1. <<>> \in Seq(TurnLines)
    OBVIOUS
  <2> QED BY <1>3, <2>1 DEF Replies
<1>4. CASE f \in [kind : {"reset"}, what : {Nothing}, log : {<<>>}]
  BY <1>4 DEF Replies
<1> QED BY <1>1, <1>2, <1>3, <1>4 DEF HistoryFrames

\* A step of the page that asks, or may.
LEMMA PageStep ==
  ASSUME HistoryInvariant, AsksOne,
         talk' \in Talks, Grown(talk, talk'), talk'.log = talk.log, talk'.age = talk.age,
         room' \in Chats, room'.epoch = room.epoch, room'.since = room.since,
         latest' \in Chats, Behind(latest', room'),
         dirty' \in BOOLEAN, ~dirty' => latest' = room',
         fresh' \in Renewals, fresh'.epoch <= Landed, fresh' # NoFresh => fresh'.epoch = room.epoch,
         fresh'.stage = "none" => fresh' = NoFresh,
         fresh'.stage = "asked" => talk.age < MaxFresh,
         fresh'.stage = "answered" <=> fresh.stage = "answered",
         UNCHANGED <<wire, line, breaks>>
  PROVE  HistoryInvariant'
<1> USE DEF HistoryInvariant
<1>0. Landed' = Landed
  BY DEF Landed
<1>1. HistoryRecords'
  BY DEF HistoryRecords, AsksOne
<1>2. FetchesFit'
  <2>1. ASSUME NEW c \in HistoryCalls, fetches'[c].stage = "none" PROVE fetches'[c] = NoAsk
    BY <2>1 DEF FetchesFit, AsksOne
  <2> QED BY <2>1 DEF FetchesFit, AsksOne
<1>3. EpochsFit'
  <2>1. ASSUME NEW c \in HistoryCalls PROVE fetches'[c].epoch <= Landed
    BY DEF EpochsFit, AsksOne
  <2>2. room.epoch <= Landed /\ room.epoch \in Int /\ Landed \in Int
    BY ArrivedIsAge DEF EpochsFit, HistoryRecords, Chats
  <2>3. latest'.epoch <= Landed
    <3>1. latest'.epoch \in Int /\ latest'.epoch <= room.epoch
      BY DEF Chats, Behind
    <3> QED BY <2>2, <3>1
  <2> QED BY <1>0, <2>1, <2>2, <2>3 DEF EpochsFit
<1>4. RenewalsFit'
  <2>1. ASSUME NEW c \in HistoryCalls PROVE fetches'[c].epoch <= room'.epoch
    BY DEF RenewalsFit, AsksOne
  <2> QED BY <1>0, <2>1 DEF RenewalsFit
<1>5. SlotsFit'
  BY <1>0 DEF SlotsFit, AsksOne
<1>6. ASSUME NEW c \in HistoryCalls, fetches[c].stage # "none" PROVE fetches'[c] = fetches[c]
  BY <1>6 DEF AsksOne, NoAsk
<1>7. ASSUME NEW i \in DOMAIN wire, wire[i].kind \in Replies
      PROVE  /\ wire[i].what \in HistoryCalls /\ wire[i].log \in Seq(TurnLines)
             /\ fetches'[wire[i].what] = fetches[wire[i].what]
  <2>1. wire[i] \in HistoryFrames
    BY DEF HistoryRecords
  <2>2. wire[i].what \in HistoryCalls
    BY <1>7, <2>1, FrameKinds
  <2>3. wire[i].log \in Seq(TurnLines)
    BY <1>7, <2>1, FrameKinds
  <2> QED BY <1>6, <1>7, <2>2, <2>3 DEF FramesFit
<1>8. FramesFit'
  <2>1. ASSUME NEW i \in DOMAIN wire PROVE wire[i].kind \in Replies => fetches'[wire[i].what].stage = "answered"
    BY <1>7 DEF FramesFit
  <2> QED BY <2>1 DEF FramesFit
<1>9. LogsFit'
  <2>1. LogFits(talk', talk'.log, talk'.age)
    BY LogStays DEF LogsFit, HistoryRecords, Talks
  <2>2. ASSUME NEW c \in HistoryCalls, fetches'[c].stage = "read"
        PROVE  LogFits(talk', fetches'[c].log, Since(fetches'[c].epoch))
    <3>1. fetches'[c] = fetches[c]
      BY <2>2 DEF AsksOne
    <3>2. fetches[c].log \in Seq(TurnLines)
      BY DEF HistoryRecords, AskTypes
    <3> QED BY <2>2, <3>1, <3>2, LogStays DEF LogsFit
  <2>3. ASSUME NEW i \in DOMAIN wire, wire[i].kind = "answer"
        PROVE  LogFits(talk', wire[i].log, Since(fetches'[wire[i].what].epoch))
    <3>1. wire[i].kind \in Replies
      BY <2>3 DEF Replies
    <3> QED BY <1>7, <2>3, <3>1, LogStays DEF LogsFit
  <2> QED BY <2>1, <2>2, <2>3 DEF LogsFit, Since
<1> QED BY <1>1, <1>2, <1>3, <1>5, <1>8, <1>9, <1>4

LEMMA TalkStays ==
  Grown(talk, talk)
BY DEF Grown

\* What the handlers of the page know of the agent.
LEMMA AgentKnown ==
  ASSUME HistoryInvariant
  PROVE  /\ room \in Chats /\ room.epoch <= Landed /\ room.epoch <= room.epoch
         /\ latest \in Chats /\ latest.epoch <= Landed /\ latest.epoch <= room.epoch
         /\ Behind(latest, room) /\ Behind(room, room)
         /\ talk \in Talks /\ dirty \in BOOLEAN /\ (~dirty => latest = room)
         /\ fresh \in Renewals /\ fresh.epoch <= Landed /\ (fresh # NoFresh => fresh.epoch = room.epoch)
         /\ (fresh.stage = "none" => fresh = NoFresh) /\ (fresh.stage = "asked" => talk.age < MaxFresh)
<1>1. room \in Chats /\ latest \in Chats /\ room.epoch \in Int /\ room.since \in Int
  BY DEF HistoryInvariant, HistoryRecords, Chats
<1>2. room.epoch <= room.epoch /\ Behind(room, room)
  BY <1>1 DEF Behind
<1>3. Behind(latest, room) /\ latest.epoch <= room.epoch
  BY DEF HistoryInvariant, RenewalsFit, Behind
<1>4. talk \in Talks /\ dirty \in BOOLEAN /\ fresh \in Renewals
  BY DEF HistoryInvariant, HistoryRecords
<1>5. (~dirty => latest = room) /\ (fresh # NoFresh => fresh.epoch = room.epoch)
      /\ (fresh.stage = "none" => fresh = NoFresh) /\ (fresh.stage = "asked" => talk.age < MaxFresh)
  BY DEF HistoryInvariant, RenewalsFit, FetchesFit
<1> QED BY <1>1, <1>2, <1>3, <1>4, <1>5 DEF HistoryInvariant, EpochsFit

LEMMA CommitsKeeps ==
  ASSUME HistoryInvariant, Commits
  PROVE  HistoryInvariant'
<1>1. /\ room \in Chats /\ room.epoch <= Landed /\ room.epoch <= room.epoch
      /\ latest \in Chats /\ latest.epoch <= Landed /\ latest.epoch <= room.epoch
      /\ Behind(latest, room) /\ Behind(room, room)
  BY AgentKnown
<1>2. AsksOne
  BY <1>1, Fetching, Unasked DEF Commits, Committed
<1>3. Grown(talk, talk')
  BY TalkStays DEF Commits
<1> QED
  BY <1>1, <1>2, <1>3, PageStep, AgentKnown
  DEF Commits, Committed

LEMMA RefreshesKeeps ==
  ASSUME HistoryInvariant, Refreshes
  PROVE  HistoryInvariant'
<1>1. /\ room \in Chats /\ room.epoch <= Landed /\ room.epoch <= room.epoch
      /\ latest \in Chats /\ latest.epoch <= Landed /\ latest.epoch <= room.epoch
      /\ Behind(latest, room) /\ Behind(room, room)
  BY AgentKnown
<1>2. AsksOne
  BY <1>1, Fetching DEF Refreshes
<1>3. Grown(talk, talk')
  BY TalkStays DEF Refreshes
<1> QED
  BY <1>1, <1>2, <1>3, PageStep, AgentKnown
  DEF Refreshes

LEMMA ReconcilesKeeps ==
  ASSUME HistoryInvariant, Reconciles
  PROVE  HistoryInvariant'
<1>1. /\ room \in Chats /\ room.epoch <= Landed /\ room.epoch <= room.epoch
      /\ latest \in Chats /\ latest.epoch <= Landed /\ latest.epoch <= room.epoch
      /\ Behind(latest, room) /\ Behind(room, room)
  BY AgentKnown
<1>2. AsksOne
  BY <1>1, Fetching DEF Reconciles
<1>3. Grown(talk, talk')
  BY TalkStays DEF Reconciles
<1>4. room' \in Chats /\ room'.epoch = room.epoch /\ room'.since = room.since
  BY <1>1 DEF Chats, Reconciles
<1>5. Behind(latest', room')
  BY <1>1, <1>4 DEF Behind, Reconciles
<1> QED
  BY <1>1, <1>2, <1>3, <1>4, <1>5, PageStep, AgentKnown
  DEF Reconciles

LEMMA TypesKeeps ==
  ASSUME HistoryInvariant, NEW r \in Turns, Types(r)
  PROVE  /\ HistoryInvariant' /\ room'.lines = Append(room.lines, Said(r, "user"))
         /\ room'.epoch = room.epoch /\ room'.since = room.since
<1>1. /\ room \in Chats /\ room.epoch <= Landed /\ room.epoch <= room.epoch
      /\ latest \in Chats /\ latest.epoch <= Landed /\ latest.epoch <= room.epoch
      /\ Behind(latest, room) /\ Behind(room, room)
      /\ talk \in Talks
  BY AgentKnown
<1> DEFINE shown == Shown(room, Said(r, "user"))
<1>2. Said(r, "user") \in TurnLines
  BY DEF Said, TurnLines
<1>3. shown \in Chats /\ shown.epoch = room.epoch /\ shown.since = room.since
      /\ shown.lines = Append(room.lines, Said(r, "user"))
  BY <1>1, <1>2, ShownFits
<1>4. room' = [shown EXCEPT !.status = "running", !.run = r]
  BY DEF Types
<1> HIDE DEF shown
<1>5. room' \in Chats /\ room'.epoch = room.epoch /\ room'.since = room.since
      /\ room'.lines = shown.lines
  BY <1>3, <1>4 DEF Chats
<1>6. Committed(room') /\ latest' = room' /\ dirty' = FALSE
  BY DEF Types, Committed
<1>7. AsksOne
  BY <1>1, <1>5, <1>6, Fetching, Unasked DEF Committed
<1>8. talk' = [talk EXCEPT !.turn[r] = "sent"] /\ talk.turn[r] = "unborn"
  BY DEF Types
<1>9. talk' \in Talks /\ Grown(talk, talk') /\ talk'.log = talk.log /\ talk'.age = talk.age
  <2>1. talk' \in Talks
    BY <1>1, <1>8 DEF Talks
  <2> QED BY <1>1, <1>8, <2>1 DEF Talks, Grown
<1>10. Behind(latest', room')
  BY <1>1, <1>5, <1>6 DEF Behind
<1>11. HistoryInvariant'
  BY <1>1, <1>5, <1>6, <1>7, <1>9, <1>10, PageStep, AgentKnown
  DEF Types
<1> QED BY <1>3, <1>5, <1>11

LEMMA AsksResetKeeps ==
  ASSUME HistoryInvariant, AsksReset
  PROVE  HistoryInvariant'
<1>1. /\ room \in Chats /\ room.epoch <= Landed /\ room.epoch <= room.epoch
      /\ latest \in Chats /\ latest.epoch <= Landed /\ latest.epoch <= room.epoch
      /\ Behind(latest, room) /\ Behind(room, room)
      /\ talk \in Talks
  BY AgentKnown
<1>2. AsksOne
  BY Unasked DEF AsksReset
<1>3. Grown(talk, talk')
  BY TalkStays DEF AsksReset
<1>4. fresh' = [stage |-> "asked", revision |-> latest.revision, epoch |-> latest.epoch]
      /\ fresh.stage = "none" /\ talk.age < MaxFresh
  BY DEF AsksReset, NoFresh
<1>5. fresh' \in Renewals /\ fresh'.epoch <= Landed /\ fresh'.stage = "asked"
  BY <1>1, <1>4 DEF Renewals, Chats
<1>6. fresh'.epoch = room.epoch
  BY <1>4 DEF AsksReset, BusyShown
<1> QED
  BY <1>1, <1>2, <1>3, <1>4, <1>5, <1>6, PageStep, AgentKnown
  DEF AsksReset

\* What of a step that leaves the page alone is seen at once.
LEMMA RunStep ==
  ASSUME HistoryInvariant, NEW f \in HistoryFrames, f.kind \in {"start", "final"}, Send(f),
         talk' \in Talks, talk'.age = talk.age, Grown(talk, talk'),
         LogFits(talk', talk'.log, talk'.age),
         UNCHANGED <<room, latest, dirty, fetches, mark, fresh, line, breaks>>
  PROVE  HistoryInvariant'
<1> USE DEF HistoryInvariant
<1>0. /\ wire' \in Seq(HistoryFrames)
      /\ \A i \in DOMAIN wire' : \/ i \in DOMAIN wire /\ wire'[i] = wire[i]
                                 \/ line /\ i = Len(wire) + 1 /\ wire'[i] = f
      /\ ~line => wire' = wire
  BY Sending
<1>1. HistoryRecords'
  BY <1>0 DEF HistoryRecords
<1>2. FetchesFit'
  BY <1>0 DEF FetchesFit
<1>3. EpochsFit' /\ RenewalsFit' /\ SlotsFit'
  BY DEF EpochsFit, RenewalsFit, Behind, SlotsFit, Landed, Busy
<1>4. f.kind \notin Replies /\ f.kind # "reset" /\ f.kind # "answer"
  BY DEF Replies
<1>5. FramesFit'
  BY <1>0, <1>4 DEF FramesFit
<1>6. LogsFit'
  <2>1. ASSUME NEW c \in HistoryCalls, fetches[c].stage = "read"
        PROVE  LogFits(talk', fetches[c].log, Since(fetches[c].epoch))
    <3>1. fetches[c].log \in Seq(TurnLines)
      BY DEF HistoryRecords, AskTypes
    <3> QED BY <2>1, <3>1, LogStays DEF LogsFit
  <2>2. ASSUME NEW i \in DOMAIN wire', wire'[i].kind = "answer"
        PROVE  LogFits(talk', wire'[i].log, Since(fetches[wire'[i].what].epoch))
    <3>1. i \in DOMAIN wire /\ wire'[i] = wire[i]
      BY <1>0, <1>4, <2>2
    <3>2. wire[i] \in HistoryFrames
      BY <3>1 DEF HistoryRecords
    <3>3. wire[i].log \in Seq(TurnLines)
      BY <2>2, <3>1, <3>2, FrameKinds DEF Replies
    <3> QED BY <2>2, <3>1, <3>3, LogStays DEF LogsFit
  <2> QED BY <2>1, <2>2 DEF LogsFit, Since
<1> QED BY <1>1, <1>2, <1>3, <1>5, <1>6

\* A line is added to a log.
LEMMA LogAppended ==
  ASSUME NEW t, NEW log \in Seq(TurnLines), NEW l \in TurnLines, NEW e,
         LogFits(t, log, e), t.turn[l.run] \in {"going", "over"}, t.born[l.run] >= e
  PROVE  Append(log, l) \in Seq(TurnLines) /\ LogFits(t, Append(log, l), e)
<1>1. Append(log, l) \in Seq(TurnLines)
  OBVIOUS
<1>2. ASSUME NEW i \in DOMAIN Append(log, l)
      PROVE  (i \in DOMAIN log /\ Append(log, l)[i] = log[i]) \/ Append(log, l)[i] = l
  OBVIOUS
<1> QED BY <1>1, <1>2 DEF LogFits

LEMMA RunBeginsKeeps ==
  ASSUME HistoryInvariant, NEW r \in Turns, RunBegins(r)
  PROVE  HistoryInvariant'
<1>1. talk \in Talks /\ LogFits(talk, talk.log, talk.age)
  BY DEF HistoryInvariant, HistoryRecords, LogsFit
<1> DEFINE l == Said(r, "user")
           mid == [[talk EXCEPT !.turn[r] = "going"] EXCEPT !.born[r] = talk.age]
           f == Frame("start", r, <<>>)
<1>2. l \in TurnLines /\ l.run = r
  BY DEF Said, TurnLines
<1>3. f \in HistoryFrames /\ f.kind = "start"
  BY DEF Frame, HistoryFrames
<1>4. talk.turn[r] \in {"sent", "unborn"}
  BY DEF RunBegins
<1>5. /\ mid \in Talks /\ mid.turn = [talk.turn EXCEPT ![r] = "going"]
      /\ mid.born = [talk.born EXCEPT ![r] = talk.age] /\ mid.log = talk.log /\ mid.age = talk.age
  BY <1>1 DEF Talks
<1>6. talk' = [mid EXCEPT !.log = Append(talk.log, l)]
  BY DEF RunBegins
<1>7. Grown(talk, mid) /\ mid.turn[r] = "going" /\ mid.born[r] = talk.age
  BY <1>1, <1>4, <1>5 DEF Talks, Grown
<1> HIDE DEF mid, l, f
<1>8. talk.log \in Seq(TurnLines) /\ talk.age \in Int
  BY <1>1, HistoryAssumption DEF Talks, HistoryAssumption
<1>9. LogFits(mid, talk.log, talk.age)
  BY <1>1, <1>7, <1>8, LogStays
<1>10. Append(talk.log, l) \in Seq(TurnLines) /\ LogFits(mid, Append(talk.log, l), talk.age)
  BY <1>2, <1>7, <1>8, <1>9, LogAppended
<1>11. /\ talk' \in Talks /\ talk'.turn = mid.turn /\ talk'.born = mid.born
       /\ talk'.log = Append(talk.log, l) /\ talk'.age = talk.age
  BY <1>5, <1>6, <1>10 DEF Talks
<1>12. Grown(talk, talk') /\ LogFits(talk', talk'.log, talk'.age)
  BY <1>7, <1>10, <1>11 DEF Grown, LogFits
<1> QED BY <1>3, <1>11, <1>12, RunStep DEF RunBegins, f

LEMMA RunEndsKeeps ==
  ASSUME HistoryInvariant, NEW r \in Turns, RunEnds(r)
  PROVE  HistoryInvariant'
<1>1. talk \in Talks /\ LogFits(talk, talk.log, talk.age)
  BY DEF HistoryInvariant, HistoryRecords, LogsFit
<1> DEFINE l == Said(r, "assistant")
           mid == [talk EXCEPT !.turn[r] = "over"]
           f == Frame("final", r, <<>>)
           log == IF talk.born[r] < talk.age THEN talk.log ELSE Append(talk.log, l)
<1>2. l \in TurnLines /\ l.run = r
  BY DEF Said, TurnLines
<1>3. f \in HistoryFrames /\ f.kind = "final"
  BY DEF Frame, HistoryFrames
<1>4. talk.turn[r] = "going"
  BY DEF RunEnds
<1>5. /\ mid \in Talks /\ mid.turn = [talk.turn EXCEPT ![r] = "over"]
      /\ mid.born = talk.born /\ mid.log = talk.log /\ mid.age = talk.age
  BY <1>1 DEF Talks
<1>6. talk' = [mid EXCEPT !.log = log]
  BY DEF RunEnds
<1>7. Grown(talk, mid) /\ mid.turn[r] = "over"
  BY <1>1, <1>4, <1>5 DEF Talks, Grown
<1> HIDE DEF mid, l, f
<1>8. talk.log \in Seq(TurnLines) /\ talk.age \in Int /\ talk.born[r] \in Int
  BY <1>1, HistoryAssumption DEF Talks, HistoryAssumption
<1>9. LogFits(mid, talk.log, talk.age)
  BY <1>1, <1>7, <1>8, LogStays
<1>10. log \in Seq(TurnLines) /\ LogFits(mid, log, talk.age)
  <2>1. CASE talk.born[r] < talk.age
    BY <1>8, <1>9, <2>1
  <2>2. CASE ~(talk.born[r] < talk.age)
    <3>1. mid.born[l.run] >= talk.age /\ mid.turn[l.run] \in {"going", "over"}
      BY <1>2, <1>5, <1>7, <1>8, <2>2
    <3>2. Append(talk.log, l) \in Seq(TurnLines) /\ LogFits(mid, Append(talk.log, l), talk.age)
      BY <1>2, <1>8, <1>9, <3>1, LogAppended
    <3> QED BY <2>2, <3>2
  <2> QED BY <2>1, <2>2
<1> HIDE DEF log
<1>11. /\ talk' \in Talks /\ talk'.turn = mid.turn /\ talk'.born = mid.born
       /\ talk'.log = log /\ talk'.age = talk.age
  BY <1>5, <1>6, <1>10 DEF Talks
<1>12. Grown(talk, talk') /\ LogFits(talk', talk'.log, talk'.age)
  BY <1>7, <1>10, <1>11 DEF Grown, LogFits
<1> QED BY <1>3, <1>11, <1>12, RunStep DEF RunEnds, f

\* Of a log, the newest lines.
LEMMA NewestOf ==
  ASSUME NEW log \in Seq(TurnLines), NEW t, NEW e, LogFits(t, log, e)
  PROVE  Newest(log) \in Seq(TurnLines) /\ LogFits(t, Newest(log), e)
<1>1. CASE Len(log) <= HistoryLimit
  BY <1>1 DEF Newest
<1>2. CASE ~(Len(log) <= HistoryLimit)
  <2> DEFINE m == Len(log) - HistoryLimit + 1
  <2>1. m \in 1..Len(log) /\ Len(log) \in Nat
    BY <1>2, HistoryAssumption DEF HistoryAssumption
  <2>2. Newest(log) = SubSeq(log, m, Len(log))
    BY <1>2 DEF Newest
  <2> HIDE DEF m
  <2>3. /\ SubSeq(log, m, Len(log)) \in Seq(TurnLines)
        /\ \A i \in DOMAIN SubSeq(log, m, Len(log)) :
              m + i - 1 \in DOMAIN log /\ SubSeq(log, m, Len(log))[i] = log[m + i - 1]
    BY <2>1
  <2> QED BY <2>2, <2>3 DEF LogFits
<1> QED BY <1>1, <1>2

\* The requests while the gateway works on one: each keeps its epoch.
LEMMA WorkedOn ==
  ASSUME HistoryInvariant, NEW c \in HistoryCalls, fetches[c].stage # "none",
         NEW a \in AskTypes, a.stage # "none", a.epoch = fetches[c].epoch,
         fetches' = [fetches EXCEPT ![c] = a], mark' = mark
  PROVE  /\ fetches' \in [HistoryCalls -> AskTypes]
         /\ fetches'[c] = a /\ \A d \in HistoryCalls : d # c => fetches'[d] = fetches[d]
         /\ \A d \in HistoryCalls : /\ fetches'[d].epoch = fetches[d].epoch
                                    /\ fetches'[d].stage = "none" => fetches'[d] = NoAsk
         /\ Busy' = Busy
         /\ mark => \E d \in HistoryCalls : fetches'[d] # NoAsk
<1>1. fetches \in [HistoryCalls -> AskTypes]
  BY DEF HistoryInvariant, HistoryRecords
<1>2. /\ fetches' \in [HistoryCalls -> AskTypes] /\ fetches'[c] = a
      /\ \A d \in HistoryCalls : d # c => fetches'[d] = fetches[d]
  BY <1>1
<1>3. a # NoAsk /\ fetches[c] # NoAsk
  BY DEF NoAsk
<1>4. Busy' = Busy
  BY <1>2, <1>3 DEF Busy
<1>5. \A d \in HistoryCalls : fetches'[d].stage = "none" => fetches'[d] = NoAsk
  BY <1>2 DEF HistoryInvariant, FetchesFit
<1> QED BY <1>2, <1>3, <1>4, <1>5

LEMMA ReadsLogKeeps ==
  ASSUME HistoryInvariant, NEW c \in HistoryCalls, ReadsLog(c)
  PROVE  HistoryInvariant'
<1> USE DEF HistoryInvariant
<1> DEFINE log == Newest(talk.log)
           b == [fetches[c] EXCEPT !.stage = "read"]
           a == [b EXCEPT !.log = log]
<1>1. talk \in Talks /\ talk.log \in Seq(TurnLines) /\ talk.age \in Nat /\ fetches[c] \in AskTypes
      /\ fetches[c].stage = "asked" /\ room.since \in Nat
  <2>1. room.since \in Nat
    BY HistoryAssumption DEF HistoryRecords, Chats, HistoryAssumption
  <2>2. talk \in Talks /\ talk.log \in Seq(TurnLines) /\ talk.age \in Nat
    BY HistoryAssumption DEF HistoryRecords, Talks, HistoryAssumption
  <2> QED BY <2>1, <2>2 DEF HistoryRecords, ReadsLog
<1> DEFINE e == Since(fetches[c].epoch)
<1>2. e \in Nat /\ e <= talk.age
  <2>1. room.since <= Landed
    BY DEF RenewalsFit
  <2> QED BY <1>1, <2>1 DEF Landed, Since
<1> HIDE DEF e
<1>3. LogFits(talk, talk.log, e)
  <2>1. ASSUME NEW i \in DOMAIN talk.log PROVE talk.born[talk.log[i].run] \in Int
    <3>1. talk.log[i] \in TurnLines
      BY <1>1
    <3>2. talk.log[i].run \in Turns
      BY <3>1 DEF TurnLines
    <3>3. talk.born \in [Turns -> 0..MaxFresh]
      BY <1>1 DEF Talks
    <3>4. talk.born[talk.log[i].run] \in 0..MaxFresh
      BY <3>2, <3>3
    <3> QED BY <3>4
  <2>2. LogFits(talk, talk.log, talk.age)
    BY DEF LogsFit
  <2> QED BY <1>1, <1>2, <2>1, <2>2 DEF LogFits
<1>4. log \in Seq(TurnLines) /\ LogFits(talk, log, e)
  BY <1>1, <1>3, NewestOf
<1> HIDE DEF log
<1>5. fetches' = [fetches EXCEPT ![c] = a]
  <2>1. fetches' = [[fetches EXCEPT ![c].stage = "read"] EXCEPT ![c].log = log]
    BY DEF ReadsLog, log
  <2>2. fetches \in [HistoryCalls -> AskTypes]
    BY DEF HistoryRecords
  <2>3. [fetches EXCEPT ![c].stage = "read"] = [fetches EXCEPT ![c] = b]
    BY <2>2
  <2>4. [fetches EXCEPT ![c] = b] \in [HistoryCalls -> UNION {AskTypes, {b}}] /\ [fetches EXCEPT ![c] = b][c] = b
    BY <2>2
  <2> HIDE DEF b
  <2>5. [[fetches EXCEPT ![c] = b] EXCEPT ![c].log = log] = [[fetches EXCEPT ![c] = b] EXCEPT ![c] = a]
    BY <2>4
  <2>6. [[fetches EXCEPT ![c] = b] EXCEPT ![c] = a] = [fetches EXCEPT ![c] = a]
    BY <2>2
  <2> QED BY <2>1, <2>3, <2>5, <2>6
<1>6. a \in AskTypes /\ a.stage = "read" /\ a.epoch = fetches[c].epoch /\ a.log = log
  <2>1. b \in AskTypes /\ b.stage = "read" /\ b.epoch = fetches[c].epoch
    BY <1>1 DEF AskTypes
  <2> HIDE DEF b
  <2> QED BY <1>4, <2>1 DEF AskTypes
<1> HIDE DEF a, b
<1>7. UNCHANGED <<talk, wire, room, latest, dirty, mark, fresh, line, breaks>>
  BY DEF ReadsLog
<1>8. /\ fetches' \in [HistoryCalls -> AskTypes]
      /\ fetches'[c] = a /\ \A d \in HistoryCalls : d # c => fetches'[d] = fetches[d]
      /\ \A d \in HistoryCalls : /\ fetches'[d].epoch = fetches[d].epoch
                                 /\ fetches'[d].stage = "none" => fetches'[d] = NoAsk
      /\ Busy' = Busy
      /\ mark => \E d \in HistoryCalls : fetches'[d] # NoAsk
  BY <1>1, <1>5, <1>6, <1>7, WorkedOn
<1>9. HistoryRecords'
  BY <1>7, <1>8 DEF HistoryRecords
<1>10. FetchesFit'
  BY <1>7, <1>8 DEF FetchesFit
<1>11. EpochsFit' /\ RenewalsFit' /\ SlotsFit'
  BY <1>7, <1>8 DEF EpochsFit, RenewalsFit, Behind, SlotsFit, Landed
<1>12. ASSUME NEW i \in DOMAIN wire, wire[i].kind \in Replies
       PROVE  wire[i].what \in HistoryCalls /\ fetches'[wire[i].what] = fetches[wire[i].what]
  <2>1. wire[i] \in HistoryFrames
    BY DEF HistoryRecords
  <2>2. wire[i].what \in HistoryCalls
    BY <1>12, <2>1, FrameKinds
  <2> QED BY <1>1, <1>8, <1>12, <2>2 DEF FramesFit
<1>13. FramesFit'
  BY <1>7, <1>12 DEF FramesFit
<1>14. LogsFit'
  <2>1. ASSUME NEW d \in HistoryCalls, fetches'[d].stage = "read"
        PROVE  LogFits(talk, fetches'[d].log, Since(fetches'[d].epoch))
    BY <1>4, <1>6, <1>8, <2>1 DEF LogsFit, e
  <2>2. ASSUME NEW i \in DOMAIN wire, wire[i].kind = "answer"
        PROVE  LogFits(talk, wire[i].log, Since(fetches'[wire[i].what].epoch))
    BY <1>12, <2>2 DEF LogsFit, Replies
  <2> QED BY <1>7, <2>1, <2>2 DEF LogsFit, Since
<1> QED BY <1>9, <1>10, <1>11, <1>13, <1>14

\* The gateway sends what it has to say of a request, and is done with it.
LEMMA ReplyStep ==
  ASSUME HistoryInvariant, NEW c \in HistoryCalls, fetches[c].stage \in {"asked", "read"},
         NEW a \in AskTypes, a.stage = "answered", a.epoch = fetches[c].epoch,
         fetches' = [fetches EXCEPT ![c] = a],
         NEW f \in HistoryFrames, f.kind \in Replies, f.what = c, Send(f),
         f.kind = "answer" => LogFits(talk, f.log, Since(fetches[c].epoch)),
         UNCHANGED <<talk, room, latest, dirty, mark, fresh, line, breaks>>
  PROVE  HistoryInvariant'
<1> USE DEF HistoryInvariant
<1>0. /\ wire' \in Seq(HistoryFrames)
      /\ \A i \in DOMAIN wire' : \/ i \in DOMAIN wire /\ wire'[i] = wire[i]
                                 \/ line /\ i = Len(wire) + 1 /\ wire'[i] = f
      /\ ~line => wire' = wire
  BY Sending
<1>1. /\ fetches' \in [HistoryCalls -> AskTypes]
      /\ fetches'[c] = a /\ \A d \in HistoryCalls : d # c => fetches'[d] = fetches[d]
      /\ \A d \in HistoryCalls : /\ fetches'[d].epoch = fetches[d].epoch
                                 /\ fetches'[d].stage = "none" => fetches'[d] = NoAsk
      /\ Busy' = Busy
      /\ mark => \E d \in HistoryCalls : fetches'[d] # NoAsk
  BY WorkedOn
<1>2. HistoryRecords'
  BY <1>0, <1>1 DEF HistoryRecords
<1>3. FetchesFit'
  BY <1>0, <1>1 DEF FetchesFit
<1>4. EpochsFit' /\ RenewalsFit' /\ SlotsFit'
  BY <1>1 DEF EpochsFit, RenewalsFit, Behind, SlotsFit, Landed
<1>5. ASSUME NEW i \in DOMAIN wire, wire[i].kind \in Replies
      PROVE  wire[i].what \in HistoryCalls /\ wire[i].what # c
             /\ fetches'[wire[i].what] = fetches[wire[i].what]
  <2>1. wire[i] \in HistoryFrames
    BY DEF HistoryRecords
  <2>2. wire[i].what \in HistoryCalls
    BY <1>5, <2>1, FrameKinds
  <2>3. wire[i].what # c
    BY <1>5 DEF FramesFit
  <2> QED BY <1>1, <2>2, <2>3
<1>6. f.kind # "reset"
  BY DEF Replies
<1>7. FramesFit'
  <2>1. ASSUME NEW i \in DOMAIN wire'
        PROVE  /\ wire'[i].kind \in Replies => fetches'[wire'[i].what].stage = "answered"
               /\ wire'[i].kind = "reset" => fresh'.stage = "answered"
    BY <1>0, <1>1, <1>5, <1>6 DEF FramesFit
  <2>2. ASSUME NEW i \in DOMAIN wire', NEW j \in DOMAIN wire'
        PROVE  /\ wire'[i].kind \in Replies /\ wire'[j].kind \in Replies
                     /\ wire'[i].what = wire'[j].what => i = j
               /\ wire'[i].kind = "reset" /\ wire'[j].kind = "reset" => i = j
    BY <1>0, <1>5, <1>6 DEF FramesFit
  <2> QED BY <2>1, <2>2 DEF FramesFit
<1>8. LogsFit'
  <2>1. ASSUME NEW d \in HistoryCalls, fetches'[d].stage = "read"
        PROVE  LogFits(talk, fetches'[d].log, Since(fetches'[d].epoch))
    BY <1>1, <2>1 DEF LogsFit
  <2>2. ASSUME NEW i \in DOMAIN wire', wire'[i].kind = "answer"
        PROVE  LogFits(talk, wire'[i].log, Since(fetches'[wire'[i].what].epoch))
    <3>1. CASE i \in DOMAIN wire /\ wire'[i] = wire[i]
      BY <1>5, <2>2, <3>1 DEF LogsFit, Replies
    <3>2. CASE wire'[i] = f
      BY <1>1, <2>2, <3>2
    <3> QED BY <1>0, <3>1, <3>2
  <2> QED BY <2>1, <2>2 DEF LogsFit, Since
<1> QED BY <1>2, <1>3, <1>4, <1>7, <1>8

LEMMA AnswersKeeps ==
  ASSUME HistoryInvariant, NEW c \in HistoryCalls, Answers(c)
  PROVE  HistoryInvariant'
<1> DEFINE b == [fetches[c] EXCEPT !.stage = "answered"]
           a == [b EXCEPT !.log = <<>>]
           f == Frame("answer", c, fetches[c].log)
<1>1. fetches \in [HistoryCalls -> AskTypes] /\ fetches[c] \in AskTypes /\ fetches[c].stage = "read"
      /\ fetches[c].log \in Seq(TurnLines)
  BY DEF HistoryInvariant, HistoryRecords, AskTypes, Answers
<1>2. a \in AskTypes /\ a.stage = "answered" /\ a.epoch = fetches[c].epoch
  <2>1. b \in AskTypes /\ b.stage = "answered" /\ b.epoch = fetches[c].epoch
    BY <1>1 DEF AskTypes
  <2>2. <<>> \in Seq(TurnLines)
    OBVIOUS
  <2> HIDE DEF b
  <2> QED BY <2>1, <2>2 DEF AskTypes
<1>3. fetches' = [fetches EXCEPT ![c] = a]
  <2>1. fetches' = [[fetches EXCEPT ![c].stage = "answered"] EXCEPT ![c].log = <<>>]
    BY DEF Answers
  <2>2. [fetches EXCEPT ![c].stage = "answered"] = [fetches EXCEPT ![c] = b]
    BY <1>1
  <2> HIDE DEF b
  <2>3. [[fetches EXCEPT ![c] = b] EXCEPT ![c].log = <<>>] = [fetches EXCEPT ![c] = a]
    BY <1>1
  <2> QED BY <2>1, <2>2, <2>3
<1>4. f \in HistoryFrames /\ f.kind = "answer" /\ f.what = c /\ f.log = fetches[c].log
  BY <1>1 DEF Frame, HistoryFrames
<1>5. LogFits(talk, f.log, Since(fetches[c].epoch))
  BY <1>1, <1>4 DEF HistoryInvariant, LogsFit
<1>6. Send(f) /\ UNCHANGED <<talk, room, latest, dirty, mark, fresh, line, breaks>>
  BY DEF Answers
<1>7. f.kind \in Replies /\ fetches[c].stage \in {"asked", "read"}
  BY <1>1, <1>4 DEF Replies
<1> HIDE DEF a, b, f
<1> QED BY <1>2, <1>3, <1>4, <1>5, <1>6, <1>7, ReplyStep

LEMMA RefusesKeeps ==
  ASSUME HistoryInvariant, NEW c \in HistoryCalls, Refuses(c)
  PROVE  HistoryInvariant'
<1> DEFINE a == [fetches[c] EXCEPT !.stage = "answered"]
           f == Frame("refusal", c, <<>>)
<1>1. fetches \in [HistoryCalls -> AskTypes] /\ fetches[c] \in AskTypes /\ fetches[c].stage = "asked"
  BY DEF HistoryInvariant, HistoryRecords, Refuses
<1>2. a \in AskTypes /\ a.stage = "answered" /\ a.epoch = fetches[c].epoch
  BY <1>1 DEF AskTypes
<1>3. fetches' = [fetches EXCEPT ![c] = a]
  BY <1>1 DEF Refuses
<1>4. f \in HistoryFrames /\ f.kind = "refusal" /\ f.what = c
  BY DEF Frame, HistoryFrames
<1>5. Send(f) /\ UNCHANGED <<talk, room, latest, dirty, mark, fresh, line, breaks>>
  BY DEF Refuses
<1>6. f.kind \in Replies /\ f.kind # "answer" /\ fetches[c].stage \in {"asked", "read"}
  BY <1>1, <1>4 DEF Replies
<1> HIDE DEF a, f
<1> QED BY <1>2, <1>3, <1>4, <1>5, <1>6, ReplyStep

LEMMA ResetsKeeps ==
  ASSUME HistoryInvariant, Resets
  PROVE  HistoryInvariant'
<1> USE DEF HistoryInvariant
<1> DEFINE f == Frame("reset", Nothing, <<>>)
           t == [talk EXCEPT !.log = <<>>]
<1>1. talk \in Talks /\ talk.age \in Nat /\ MaxFresh \in Nat /\ fresh \in Renewals
      /\ fresh.stage = "asked" /\ talk.age < MaxFresh
  BY HistoryAssumption DEF HistoryRecords, Talks, FetchesFit, Resets, HistoryAssumption
<1>2. f \in HistoryFrames /\ f.kind = "reset" /\ f.kind \notin Replies
  BY DEF Frame, HistoryFrames, Replies
<1>3. /\ wire' \in Seq(HistoryFrames)
      /\ \A i \in DOMAIN wire' : \/ i \in DOMAIN wire /\ wire'[i] = wire[i]
                                 \/ line /\ i = Len(wire) + 1 /\ wire'[i] = f
      /\ ~line => wire' = wire
  <2>1. Send(f)
    BY DEF Resets
  <2> QED BY <1>2, <2>1, Sending
<1>4. fresh' \in Renewals /\ fresh'.stage = "answered" /\ fresh'.epoch = fresh.epoch
  BY <1>1 DEF Resets, Renewals
<1>5. t \in Talks /\ t.log = <<>> /\ t.age = talk.age /\ t.turn = talk.turn /\ t.born = talk.born
  <2>1. <<>> \in Seq(TurnLines)
    OBVIOUS
  <2> QED BY <1>1, <2>1 DEF Talks
<1> DEFINE n == talk.age + 1
<1>6. n \in 0..MaxFresh /\ n - 1 = talk.age
  BY <1>1
<1>7. talk' = [t EXCEPT !.age = n]
  BY DEF Resets
<1> HIDE DEF t, n, f
<1>8. /\ talk' \in Talks /\ talk'.log = <<>> /\ talk'.age = n
      /\ talk'.turn = talk.turn /\ talk'.born = talk.born
  BY <1>5, <1>6, <1>7 DEF Talks
<1>9. Grown(talk, talk')
  BY <1>8 DEF Grown
<1>10. Landed' = Landed
  BY <1>1, <1>4, <1>6, <1>8 DEF Landed
<1>11. UNCHANGED <<room, latest, dirty, fetches, mark, line, breaks>>
  BY DEF Resets
<1>12. HistoryRecords'
  BY <1>3, <1>4, <1>8, <1>11 DEF HistoryRecords
<1>13. FetchesFit'
  BY <1>3, <1>4, <1>11 DEF FetchesFit
<1>14. EpochsFit' /\ SlotsFit'
  BY <1>4, <1>10, <1>11 DEF EpochsFit, SlotsFit, Busy
<1>15. RenewalsFit'
  <2>1. fresh # NoFresh
    BY <1>1 DEF NoFresh
  <2> QED BY <1>4, <1>10, <1>11, <2>1 DEF RenewalsFit, Behind
<1>16. FramesFit'
  <2>1. \A i \in DOMAIN wire : wire[i].kind # "reset"
    BY <1>1 DEF FramesFit
  <2> QED BY <1>2, <1>3, <1>4, <1>11, <2>1 DEF FramesFit
<1>17. LogsFit'
  <2>0. LogFits(talk', talk'.log, talk'.age)
    BY <1>8 DEF LogFits
  <2>1. ASSUME NEW c \in HistoryCalls, fetches[c].stage = "read"
        PROVE  LogFits(talk', fetches[c].log, Since(fetches[c].epoch))
    <3>1. fetches[c].log \in Seq(TurnLines)
      BY DEF HistoryRecords, AskTypes
    <3> QED BY <1>9, <2>1, <3>1, LogStays DEF LogsFit
  <2>2. ASSUME NEW i \in DOMAIN wire', wire'[i].kind = "answer"
        PROVE  LogFits(talk', wire'[i].log, Since(fetches[wire'[i].what].epoch))
    <3>1. i \in DOMAIN wire /\ wire'[i] = wire[i]
      BY <1>2, <1>3, <2>2
    <3>2. wire[i] \in HistoryFrames
      BY <3>1 DEF HistoryRecords
    <3>3. wire[i].log \in Seq(TurnLines)
      BY <2>2, <3>1, <3>2, FrameKinds DEF Replies
    <3> QED BY <1>9, <2>2, <3>1, <3>3, LogStays DEF LogsFit
  <2> QED BY <1>11, <2>0, <2>1, <2>2 DEF LogsFit, Since
<1> QED BY <1>12, <1>13, <1>14, <1>16, <1>17, <1>15

LEMMA ArrivalStep ==
  ASSUME HistoryInvariant, NEW kind, Receives(kind), UNCHANGED <<talk, latest, line, breaks>>,
         room' \in Chats, dirty' \in BOOLEAN, ~dirty' => latest' = room',
         fetches' \in [HistoryCalls -> AskTypes], mark' \in BOOLEAN,
         mark' => \E c \in HistoryCalls : fetches'[c] # NoAsk,
         \A c \in HistoryCalls :
            \/ fetches'[c] = fetches[c]
            \/ fetches'[c] = NoAsk /\ kind \in Replies /\ Head(wire).what = c,
         Cardinality(Busy') <= IF mark' THEN Landed' + 1 ELSE Landed',
         \/ /\ fresh' = fresh /\ kind # "reset"
            /\ room'.epoch = room.epoch /\ room'.since = room.since
         \/ /\ fresh' = NoFresh /\ kind = "reset"
            /\ room'.epoch = room.epoch + 1 /\ room'.since = talk.age
  PROVE  HistoryInvariant'
<1> USE DEF HistoryInvariant
<1>1. /\ wire' \in Seq(HistoryFrames)
      /\ 1 \in DOMAIN wire /\ Head(wire) = wire[1] /\ wire[1] \in HistoryFrames /\ wire[1].kind = kind
      /\ \A i \in DOMAIN wire' : i + 1 \in DOMAIN wire /\ i + 1 # 1 /\ wire'[i] = wire[i + 1]
      /\ line
  BY Receiving
<1>2. MaxFresh \in Nat /\ talk.age \in 0..MaxFresh /\ Landed \in 0..MaxFresh
  BY ArrivedIsAge, HistoryAssumption DEF HistoryAssumption, HistoryRecords, Talks
<1>3. fresh' \in Renewals /\ (fresh'.stage = "none" => fresh' = NoFresh)
      /\ (fresh'.stage = "asked" => talk.age < MaxFresh)
  BY <1>2 DEF HistoryRecords, FetchesFit, Renewals, NoFresh
<1>4. Landed' \in Int /\ Landed <= Landed'
  BY <1>2 DEF Landed, NoFresh
<1>5. /\ room.epoch \in Nat /\ room.since \in Nat /\ latest.epoch \in Nat /\ latest.since \in Nat
       /\ room.epoch <= Landed /\ room.since <= Landed /\ Behind(latest, room)
  BY <1>2 DEF HistoryRecords, Chats, EpochsFit, RenewalsFit
<1>6. kind = "reset" => Landed = talk.age - 1 /\ Landed' = talk.age
  BY <1>1, <1>2 DEF FramesFit, Landed, NoFresh
<1>7. /\ room'.epoch \in Int /\ room.epoch <= room'.epoch
       /\ room'.epoch <= Landed' /\ room'.since <= Landed' /\ Behind(latest', room')
  <2>1. CASE fresh' = fresh /\ room'.epoch = room.epoch /\ room'.since = room.since
    BY <1>4, <1>5, <2>1 DEF Behind, Landed
  <2>2. CASE kind = "reset" /\ room'.epoch = room.epoch + 1 /\ room'.since = talk.age
    BY <1>2, <1>5, <1>6, <2>2 DEF Behind
  <2> QED BY <2>1, <2>2
<1>8. ASSUME NEW c \in HistoryCalls PROVE fetches'[c].epoch <= room'.epoch
  <2>1. fetches[c].epoch \in Int /\ fetches[c].epoch <= room.epoch
    BY <1>2 DEF HistoryRecords, AskTypes, RenewalsFit
  <2>2. NoAsk.epoch = 0
    BY DEF NoAsk
  <2> QED BY <1>5, <1>7, <2>1, <2>2
<1>9. RenewalsFit'
  <2>1. fresh' # NoFresh => fresh'.epoch = room'.epoch
    BY DEF RenewalsFit
  <2> QED BY <1>7, <1>8, <2>1 DEF RenewalsFit
<1>10. ASSUME NEW c \in HistoryCalls, fetches'[c] = fetches[c],
              NEW log \in Seq(TurnLines), LogFits(talk, log, Since(fetches[c].epoch))
       PROVE  LogFits(talk', log, IF fetches'[c].epoch = room'.epoch THEN room'.since ELSE 0)
  <2>1. CASE room'.epoch = room.epoch /\ room'.since = room.since
    BY <1>10, <2>1 DEF Since
  <2>2. CASE room'.epoch = room.epoch + 1
    <3>1. fetches[c].epoch \in Int /\ fetches[c].epoch <= room.epoch
      BY <1>2 DEF HistoryRecords, AskTypes, RenewalsFit
    <3>2. fetches'[c].epoch # room'.epoch
      BY <1>5, <1>10, <2>2, <3>1
    <3>3. LogFits(talk, log, 0)
      BY <1>10, LogOfAny DEF HistoryRecords
    <3> QED BY <3>2, <3>3
  <2> QED BY <2>1, <2>2
<1>11. HistoryRecords'
  BY <1>1, <1>3 DEF HistoryRecords
<1>12. FetchesFit'
  <2>1. ASSUME NEW c \in HistoryCalls, fetches'[c].stage = "none" PROVE fetches'[c] = NoAsk
    BY <2>1 DEF FetchesFit
  <2> QED BY <1>1, <1>3, <2>1 DEF FetchesFit
<1>13. EpochsFit'
  <2>1. latest.epoch \in Int /\ latest.epoch <= Landed
    BY <1>2 DEF HistoryRecords, Chats, EpochsFit
  <2>2. ASSUME NEW c \in HistoryCalls PROVE fetches'[c].epoch <= Landed'
    <3>1. fetches[c].epoch \in Int /\ fetches[c].epoch <= Landed
      BY <1>2 DEF HistoryRecords, AskTypes, EpochsFit
    <3>2. NoAsk.epoch = 0
      BY DEF NoAsk
    <3> QED BY <1>2, <1>4, <3>1, <3>2
  <2>3. fresh'.epoch <= Landed'
    <3>1. fresh.epoch \in Int /\ fresh.epoch <= Landed
      BY <1>2 DEF HistoryRecords, Renewals, EpochsFit
    <3>2. NoFresh.epoch = 0
      BY DEF NoFresh
    <3> QED BY <1>2, <1>4, <3>1, <3>2
  <2>4. latest'.epoch <= Landed'
    BY <1>2, <1>4, <2>1
  <2> QED BY <1>7, <2>2, <2>3, <2>4 DEF EpochsFit
<1>14. SlotsFit'
  BY DEF SlotsFit
<1>15. ASSUME NEW i \in DOMAIN wire, i # 1, wire[i].kind \in Replies
      PROVE  wire[i].what \in HistoryCalls /\ fetches'[wire[i].what] = fetches[wire[i].what]
  <2>1. wire[i] \in HistoryFrames
    BY DEF HistoryRecords
  <2>2. wire[i].what \in HistoryCalls
    BY <1>15, <2>1, FrameKinds
  <2>3. ~(kind \in Replies /\ Head(wire).what = wire[i].what)
    BY <1>1, <1>15 DEF FramesFit
  <2> QED BY <2>2, <2>3
<1>16. FramesFit'
  <2>1. ASSUME NEW i \in DOMAIN wire, i # 1
        PROVE  /\ wire[i].kind \in Replies => fetches'[wire[i].what].stage = "answered"
               /\ wire[i].kind = "reset" => fresh'.stage = "answered"
    BY <1>1, <1>15, <2>1 DEF FramesFit
  <2>2. ASSUME NEW i \in DOMAIN wire' PROVE i \in Int
    BY <1>1
  <2> QED BY <1>1, <2>1, <2>2 DEF FramesFit
<1>17. LogsFit'
  <2>1. ASSUME NEW c \in HistoryCalls, fetches'[c].stage = "read"
        PROVE  LogFits(talk', fetches'[c].log,
                       IF fetches'[c].epoch = room'.epoch THEN room'.since ELSE 0)
    <3>1. fetches'[c] = fetches[c]
      BY <2>1 DEF NoAsk
    <3>2. fetches[c].log \in Seq(TurnLines)
      BY DEF HistoryRecords, AskTypes
    <3> QED BY <1>10, <2>1, <3>1, <3>2 DEF LogsFit
  <2>2. ASSUME NEW i \in DOMAIN wire', wire'[i].kind = "answer"
        PROVE  LogFits(talk', wire'[i].log,
                       IF fetches'[wire'[i].what].epoch = room'.epoch THEN room'.since ELSE 0)
    <3>1. i + 1 \in DOMAIN wire /\ i + 1 # 1 /\ wire'[i] = wire[i + 1]
      BY <1>1
    <3>2. wire[i + 1].kind = "answer" /\ wire[i + 1].kind \in Replies
      BY <2>2, <3>1 DEF Replies
    <3>3. wire[i + 1].log \in Seq(TurnLines)
      BY <3>1, <3>2, FrameKinds DEF HistoryRecords
    <3> QED BY <1>15, <1>10, <3>1, <3>2, <3>3 DEF LogsFit
  <2>3. LogFits(talk', talk'.log, talk'.age)
    BY DEF LogsFit
  <2> QED BY <2>1, <2>2, <2>3 DEF LogsFit, Since
<1> QED BY <1>11, <1>12, <1>13, <1>14, <1>16, <1>17, <1>9

\* An event of a run arrives.
LEMMA EventStep ==
  ASSUME HistoryInvariant, NEW kind, Receives(kind), kind # "reset",
         UNCHANGED <<talk, latest, fetches, mark, fresh, line, breaks>>,
         room' \in Chats, room'.epoch = room.epoch, room'.since = room.since,
         dirty' \in BOOLEAN, ~dirty' => latest' = room'
  PROVE  HistoryInvariant'
<1>1. HistoryRecords /\ FetchesFit /\ SlotsFit
  BY DEF HistoryInvariant
<1>2. Landed' = Landed /\ Busy' = Busy
  BY DEF Landed, Busy
<1>3. Cardinality(Busy') <= IF mark' THEN Landed' + 1 ELSE Landed'
  BY <1>1, <1>2 DEF SlotsFit
<1>4. fetches' \in [HistoryCalls -> AskTypes] /\ mark' \in BOOLEAN
  BY <1>1 DEF HistoryRecords
<1>5. mark' => \E c \in HistoryCalls : fetches'[c] # NoAsk
  BY <1>1 DEF FetchesFit
<1> QED BY <1>3, <1>4, <1>5, ArrivalStep

LEMMA StartArrivesKeeps ==
  ASSUME HistoryInvariant, StartArrives
  PROVE  /\ HistoryInvariant' /\ room'.lines = room.lines
         /\ room'.epoch = room.epoch /\ room'.since = room.since
<1>1. Receives("start") /\ room \in Chats
  BY DEF HistoryInvariant, HistoryRecords, StartArrives
<1>2. Head(wire).what \in Turns
  BY <1>1, Receiving, FrameKinds DEF HistoryInvariant
<1>3. room' \in Chats /\ room'.epoch = room.epoch /\ room'.since = room.since
      /\ room'.lines = room.lines
  BY <1>1, <1>2 DEF Chats, StartArrives
<1> QED BY <1>1, <1>3, EventStep DEF StartArrives

LEMMA FinalArrivesKeeps ==
  ASSUME HistoryInvariant, FinalArrives
  PROVE  /\ HistoryInvariant' /\ room'.epoch = room.epoch /\ room'.since = room.since
         /\ room'.lines = room.lines \/ \E l \in TurnLines : room'.lines = Append(room.lines, l)
<1>1. Receives("final") /\ room \in Chats /\ dirty \in BOOLEAN /\ (~dirty => latest = room)
  BY DEF HistoryInvariant, HistoryRecords, FetchesFit, FinalArrives
<1> DEFINE r == Head(wire).what
           l == Said(r, "assistant")
           shown == Shown(room, l)
<1>2. r \in Turns
  BY <1>1, Receiving, FrameKinds DEF HistoryInvariant
<1>3. l \in TurnLines
  BY <1>2 DEF Said, TurnLines
<1>4. shown \in Chats /\ shown.epoch = room.epoch /\ shown.since = room.since
      /\ shown.lines = Append(room.lines, l)
  BY <1>1, <1>3, ShownFits
<1> HIDE DEF l, shown
<1>5. CASE latest.run \notin {r, Nothing}
  <2>1. room' = room /\ dirty' = dirty
    BY <1>5 DEF FinalArrives
  <2> QED BY <1>1, <2>1, EventStep DEF FinalArrives
<1>6. CASE latest.run \in {r, Nothing}
  <2>1. dirty' = TRUE /\ room' = IF latest.run = r
                        THEN [shown EXCEPT !.status = "idle", !.run = Nothing] ELSE shown
    BY <1>6 DEF FinalArrives, shown, l
  <2>2. room' \in Chats /\ room'.epoch = room.epoch /\ room'.since = room.since
        /\ room'.lines = Append(room.lines, l)
    BY <1>4, <2>1 DEF Chats
  <2>3. HistoryInvariant'
    BY <1>1, <2>1, <2>2, EventStep DEF FinalArrives
  <2> QED BY <1>3, <2>2, <2>3
<1> QED BY <1>5, <1>6

\* The end of a request frees its slot and clears the mark.
LEMMA EndStep ==
  ASSUME HistoryInvariant, NEW kind \in Replies, Receives(kind), Ended(Head(wire).what),
         room' \in Chats, room'.epoch = room.epoch, room'.since = room.since
  PROVE  HistoryInvariant'
<1> DEFINE c == Head(wire).what
<1>1. HistoryRecords /\ FetchesFit /\ EpochsFit /\ SlotsFit /\ FramesFit
  BY DEF HistoryInvariant
<1>2. c \in HistoryCalls /\ fetches[c].stage = "answered"
  BY <1>1, Receiving, FrameKinds DEF FramesFit
<1>3. fetches \in [HistoryCalls -> AskTypes] /\ MaxFresh \in Nat /\ Landed \in 0..MaxFresh
  BY <1>1, ArrivedIsAge, HistoryAssumption DEF HistoryRecords, HistoryAssumption
<1>4. fetches' = [fetches EXCEPT ![c] = NoAsk] /\ mark' = FALSE /\ dirty' = TRUE
      /\ UNCHANGED <<talk, latest, fresh, line, breaks>>
  BY DEF Ended, Unmarked
<1>5. NoAsk \in AskTypes
  <2>1. <<>> \in Seq(TurnLines)
    OBVIOUS
  <2> QED BY <1>3, <2>1 DEF NoAsk, AskTypes
<1> HIDE DEF c
<1>6. fetches' \in [HistoryCalls -> AskTypes] /\ fetches'[c] = NoAsk
      /\ \A d \in HistoryCalls : d # c => fetches'[d] = fetches[d]
  BY <1>2, <1>3, <1>4, <1>5
<1>7. Busy' = Busy \ {c} /\ c \in Busy
  BY <1>2, <1>6 DEF Busy, NoAsk
<1>8. Cardinality(Busy') = Cardinality(Busy) - 1
  BY <1>7, BusyIsFinite, FS_RemoveElement
<1>9. Landed' = Landed
  BY <1>4 DEF Landed
<1>10. Cardinality(Busy') <= Landed'
  BY <1>1, <1>3, <1>8, <1>9, BusyIsFinite DEF SlotsFit
<1>11. kind # "reset" /\ fresh' = fresh
  BY <1>4 DEF Replies
<1>12. ASSUME NEW d \in HistoryCalls
       PROVE  \/ fetches'[d] = fetches[d]
              \/ fetches'[d] = NoAsk /\ kind \in Replies /\ Head(wire).what = d
  <2>1. CASE d = c
    BY <1>6, <2>1 DEF c
  <2>2. CASE d # c
    BY <1>6, <2>2
  <2> QED BY <2>1, <2>2
<1> QED BY <1>4, <1>6, <1>10, <1>11, <1>12, ArrivalStep

LEMMA RefusalArrivesKeeps ==
  ASSUME HistoryInvariant, RefusalArrives
  PROVE  HistoryInvariant'
<1>1. "refusal" \in Replies
  BY DEF Replies
<1>2. Receives("refusal") /\ Ended(Head(wire).what) /\ room' = room
  BY DEF RefusalArrives
<1>3. room \in Chats
  BY DEF HistoryInvariant, HistoryRecords
<1> QED BY <1>1, <1>2, <1>3, EndStep

\* What an answer makes of the agent.
LEMMA PatchFits ==
  ASSUME HistoryRecords, NEW answer \in Seq(TurnLines), NEW merged \in Seq(TurnLines),
         NEW recent \in BOOLEAN, room' = Patched(latest, answer, merged, recent)
  PROVE  /\ room' \in Chats /\ room'.epoch = room.epoch /\ room'.since = room.since
         /\ \/ room'.lines = room.lines
            \/ room'.lines = merged /\ answer # <<>> /\ ~SameLines(merged, latest.lines)
<1>1. room \in Chats
  BY DEF HistoryRecords
<1> DEFINE lines == IF answer = <<>> \/ SameLines(merged, latest.lines) THEN room.lines ELSE merged
           revision == IF SameLines(lines, room.lines) THEN room.revision ELSE room.revision + 1
           state == IF SeenOver(latest, answer) THEN "idle"
                     ELSE IF SeenGoing(latest, answer, recent) THEN "running" ELSE room.status
           run == IF SeenOver(latest, answer) \/ SeenGoing(latest, answer, recent)
                  THEN Nothing ELSE room.run
<1>2. room' = [lines |-> lines, revision |-> revision, epoch |-> room.epoch, since |-> room.since,
               loaded |-> TRUE, status |-> state, run |-> run]
  BY DEF Patched
<1>3. lines \in Seq(TurnLines) /\ revision \in Nat /\ state \in {"idle", "running"}
      /\ run \in Turns \cup {Nothing} /\ room.epoch \in 0..MaxFresh /\ room.since \in 0..MaxFresh
  BY <1>1 DEF Chats
<1>4. \/ lines = room.lines
      \/ lines = merged /\ answer # <<>> /\ ~SameLines(merged, latest.lines)
  OBVIOUS
<1> HIDE DEF lines, revision, state, run
<1>5. room' \in Chats
  BY <1>2, <1>3 DEF Chats
<1> QED BY <1>2, <1>4, <1>5

LEMMA AnswerArrivesKeeps ==
  ASSUME HistoryInvariant, AnswerArrives
  PROVE  /\ HistoryInvariant' /\ room'.epoch = room.epoch /\ room'.since = room.since
         /\ \/ room'.lines = room.lines
            \/ /\ Timely(fetches[Head(wire).what], latest)
               /\ Head(wire).log # <<>>
               /\ room'.lines = Merged(Head(wire).log, latest.lines)
               /\ ~SameLines(room'.lines, latest.lines)
<1>1. HistoryRecords /\ room \in Chats /\ latest.lines \in Seq(TurnLines)
  BY DEF HistoryInvariant, HistoryRecords, Chats
<1>2. Receives("answer") /\ Ended(Head(wire).what) /\ "answer" \in Replies
  BY DEF AnswerArrives, Merges, Replies
<1>3. Head(wire).log \in Seq(TurnLines)
  BY <1>1, <1>2, Receiving, FrameKinds
<1>4. Merged(Head(wire).log, latest.lines) \in Seq(TurnLines)
  BY <1>1, <1>3, MergedFrom
<1>5. CASE ~Timely(fetches[Head(wire).what], latest)
  <2>1. room' = room
    BY <1>5 DEF AnswerArrives, Merges
  <2> QED BY <1>1, <1>2, <2>1, EndStep
<1>6. CASE Timely(fetches[Head(wire).what], latest)
  <2>1. PICK recent \in BOOLEAN :
            room' = Patched(latest, Head(wire).log, Merged(Head(wire).log, latest.lines), recent)
    BY <1>6 DEF AnswerArrives, Merges
  <2>2. /\ room' \in Chats /\ room'.epoch = room.epoch /\ room'.since = room.since
        /\ \/ room'.lines = room.lines
           \/ /\ room'.lines = Merged(Head(wire).log, latest.lines) /\ Head(wire).log # <<>>
              /\ ~SameLines(Merged(Head(wire).log, latest.lines), latest.lines)
    BY <1>1, <1>3, <1>4, <2>1, PatchFits
  <2>3. HistoryInvariant'
    BY <1>2, <2>2, EndStep
  <2> QED BY <1>6, <2>2, <2>3
<1> QED BY <1>5, <1>6

LEMMA RenewedFits ==
  ASSUME HistoryInvariant, fresh.stage = "answered"
  PROVE  /\ Renewed \in Chats /\ Renewed.epoch = room.epoch + 1 /\ Renewed.since = talk.age
         /\ Renewed.lines = <<>>
<1>1. /\ room \in Chats /\ fresh \in Renewals /\ MaxFresh \in Nat /\ talk.age \in 0..MaxFresh
      /\ fresh.epoch <= Landed /\ fresh.epoch = room.epoch
  BY HistoryAssumption, AgentKnown DEF Talks, NoFresh, HistoryAssumption
<1> DEFINE v == IF room.lines # <<>> THEN room.revision + 1 ELSE fresh.revision + 1
           e == fresh.epoch + 1
           a == talk.age
           blank == [lines |-> <<>>, revision |-> v, epoch |-> 0, since |-> 0, loaded |-> FALSE,
                     status |-> "idle", run |-> Nothing]
<1>2. v \in Nat /\ e \in 0..MaxFresh /\ a \in 0..MaxFresh /\ e = room.epoch + 1
  BY <1>1 DEF Chats, Renewals, Landed
<1>3. Renewed = [[[EmptyChat EXCEPT !.revision = v] EXCEPT !.epoch = e] EXCEPT !.since = a]
  BY DEF Renewed
<1> HIDE DEF v, e, a
<1>4. [EmptyChat EXCEPT !.revision = v] = blank
  <2> DEFINE no == FALSE
             c == [lines |-> <<>>, revision |-> 0, epoch |-> 0, since |-> 0, loaded |-> no,
                   status |-> "idle", run |-> Nothing]
  <2>1. EmptyChat = c
    BY DEF EmptyChat
  <2>2. blank = [lines |-> <<>>, revision |-> v, epoch |-> 0, since |-> 0, loaded |-> no,
                 status |-> "idle", run |-> Nothing]
    OBVIOUS
  <2> HIDE DEF no, blank
  <2>3. [c EXCEPT !.revision = v] = [lines |-> <<>>, revision |-> v, epoch |-> 0, since |-> 0, loaded |-> no,
                                     status |-> "idle", run |-> Nothing]
    OBVIOUS
  <2> QED BY <2>1, <2>2, <2>3
<1>5. Renewed = [lines |-> <<>>, revision |-> v, epoch |-> e, since |-> a, loaded |-> FALSE,
                 status |-> "idle", run |-> Nothing]
  BY <1>3, <1>4
<1>6. <<>> \in Seq(TurnLines)
  OBVIOUS
<1>7. Renewed \in Chats
  BY <1>2, <1>5, <1>6 DEF Chats
<1> QED BY <1>2, <1>5, <1>7 DEF a

LEMMA ResetArrivesKeeps ==
  ASSUME HistoryInvariant, ResetArrives
  PROVE  /\ HistoryInvariant' /\ room'.lines = <<>>
         /\ fresh.stage = "answered" /\ room'.since = talk.age
<1>1. HistoryRecords /\ FetchesFit /\ EpochsFit /\ SlotsFit /\ FramesFit
  BY DEF HistoryInvariant
<1>2. Receives("reset") /\ room' = Renewed /\ dirty' = TRUE /\ mark' = FALSE /\ fresh' = NoFresh
      /\ UNCHANGED <<talk, latest, fetches, line, breaks>>
  BY DEF ResetArrives
<1>3. fresh.stage = "answered"
  BY <1>1, <1>2, Receiving DEF FramesFit
<1>4. MaxFresh \in Nat /\ talk.age \in 0..MaxFresh
  BY <1>1, HistoryAssumption DEF HistoryRecords, Talks, HistoryAssumption
<1>5. Landed' = talk.age /\ Landed + 1 = talk.age
  BY <1>2, <1>3, <1>4 DEF Landed, NoFresh
<1>6. Cardinality(Busy') <= Landed'
  <2>1. Busy' = Busy
    BY <1>2 DEF Busy
  <2>2. Cardinality(Busy) <= IF mark THEN Landed + 1 ELSE Landed
    BY <1>1 DEF SlotsFit
  <2>3. Landed \in Int
    BY <1>4 DEF Landed
  <2> QED BY <1>5, <2>1, <2>2, <2>3, <1>4, BusyIsFinite
<1>7. /\ room' \in Chats /\ room'.epoch = room.epoch + 1 /\ room'.since = talk.age
      /\ room'.lines = <<>>
  BY <1>2, <1>3, RenewedFits
<1>8. fetches' \in [HistoryCalls -> AskTypes]
  BY <1>1, <1>2 DEF HistoryRecords
<1>9. HistoryInvariant'
  BY <1>2, <1>6, <1>7, <1>8, ArrivalStep
<1> QED BY <1>3, <1>7, <1>9

LEMMA BreaksKeeps ==
  ASSUME HistoryInvariant, Breaks
  PROVE  HistoryInvariant'
<1> USE DEF HistoryInvariant
<1>1. MaxFresh \in Nat /\ talk.age \in 0..MaxFresh /\ Landed \in 0..MaxFresh
  BY ArrivedIsAge, HistoryAssumption DEF HistoryRecords, Talks, HistoryAssumption
<1>2. line' = FALSE /\ breaks' = breaks + 1 /\ wire' = <<>> /\ mark' = FALSE /\ fresh' = NoFresh
      /\ dirty' = TRUE /\ fetches' = [c \in HistoryCalls |-> NoAsk]
      /\ UNCHANGED <<talk, room, latest>>
  BY DEF Breaks
<1>3. NoAsk \in AskTypes /\ NoAsk.epoch = 0 /\ NoAsk.stage = "none"
  <2>1. <<>> \in Seq(TurnLines)
    OBVIOUS
  <2> QED BY <1>1, <2>1 DEF NoAsk, AskTypes
<1>4. NoFresh \in Renewals /\ NoFresh.epoch = 0 /\ NoFresh.stage = "none"
  BY <1>1 DEF NoFresh, Renewals
<1>5. Landed' = talk.age /\ Landed <= talk.age /\ Landed \in Int
  BY <1>1, <1>2, <1>4 DEF Landed
<1>6. wire' \in Seq(HistoryFrames) /\ DOMAIN wire' = {}
  BY <1>2
<1>7. HistoryRecords'
  <2>1. fetches' \in [HistoryCalls -> AskTypes]
    BY <1>2, <1>3
  <2>2. breaks' \in Nat
    BY <1>2 DEF HistoryRecords
  <2>3. fresh' \in Renewals /\ talk' \in Talks /\ room' \in Chats /\ latest' \in Chats
    BY <1>2, <1>4 DEF HistoryRecords
  <2>4. line' \in BOOLEAN /\ mark' \in BOOLEAN /\ dirty' \in BOOLEAN
    BY <1>2
  <2> QED BY <1>6, <2>1, <2>2, <2>3, <2>4 DEF HistoryRecords
<1>8. FetchesFit'
  BY <1>2, <1>3, <1>4 DEF FetchesFit
<1>9. EpochsFit'
  <2>1. room.epoch \in Int /\ latest.epoch \in Int
    BY <1>1 DEF HistoryRecords, Chats
  <2> QED BY <1>1, <1>2, <1>3, <1>4, <1>5, <2>1 DEF EpochsFit
<1>10. SlotsFit'
  <2>1. Busy' = {}
    BY <1>2 DEF Busy
  <2>2. Cardinality(Busy') = 0
    BY <2>1, FS_EmptySet
  <2> QED BY <1>1, <1>2, <1>5, <2>2 DEF SlotsFit
<1>11. FramesFit'
  BY <1>6 DEF FramesFit
<1>12. LogsFit'
  <2>1. LogFits(talk', talk'.log, talk'.age)
    BY <1>2 DEF LogsFit
  <2>2. \A c \in HistoryCalls : fetches'[c].stage # "read"
    BY <1>2, <1>3
  <2> QED BY <1>6, <2>1, <2>2 DEF LogsFit
<1>13. RenewalsFit'
  <2>1. room.epoch \in 0..MaxFresh /\ room.since \in 0..MaxFresh /\ room.since <= Landed
        /\ Behind(latest, room)
    BY <1>1 DEF HistoryRecords, Chats, RenewalsFit
  <2>2. room'.since <= Landed' /\ room'.epoch >= 0
    BY <1>1, <1>2, <1>5, <2>1
  <2> QED BY <1>2, <1>3, <2>1, <2>2 DEF RenewalsFit, Behind
<1> QED BY <1>7, <1>8, <1>9, <1>10, <1>11, <1>12, <1>13

LEMMA ReturnsKeeps ==
  ASSUME HistoryInvariant, Returns
  PROVE  HistoryInvariant'
<1>1. AsksOne
  BY Unasked DEF Returns
<1>2. Grown(talk, talk')
  BY TalkStays DEF Returns
<1>3. UNCHANGED <<talk, wire, room, latest, fetches, mark, fresh, breaks>> /\ line' = TRUE /\ dirty' = TRUE
  BY DEF Returns
<1>4. HistoryRecords' /\ FetchesFit'
  BY <1>3 DEF HistoryInvariant, HistoryRecords, FetchesFit
<1>5. EpochsFit' /\ RenewalsFit' /\ SlotsFit'
  BY <1>3 DEF HistoryInvariant, EpochsFit, RenewalsFit, Behind, SlotsFit, Landed, Busy
<1>6. FramesFit' /\ LogsFit'
  BY <1>3 DEF HistoryInvariant, FramesFit, LogsFit, Since
<1> QED BY <1>4, <1>5, <1>6 DEF HistoryInvariant

LEMMA HistoryStarts ==
  HistoryInit => HistoryInvariant
<1> SUFFICES ASSUME HistoryInit PROVE HistoryInvariant
  OBVIOUS
<1>0. MaxFresh \in Nat /\ IsFiniteSet(Turns)
  BY HistoryAssumption DEF HistoryAssumption
<1>1. PICK turn \in [Turns -> {"unborn", "going"}] :
          talk = [log |-> SetToSeq({Said(r, "user") : r \in {x \in Turns : turn[x] = "going"}}),
                  turn |-> turn, born |-> [r \in Turns |-> 0], age |-> 0]
  BY DEF HistoryInit
<1> DEFINE begun == {x \in Turns : turn[x] = "going"}
           opening == {Said(r, "user") : r \in begun}
<1>2. opening \subseteq TurnLines /\ IsFiniteSet(opening) /\ \A l \in opening : turn[l.run] = "going"
  <2>1. IsFiniteSet(begun)
    BY <1>0, FS_Subset
  <2>2. IsFiniteSet(opening)
    <3> DEFINE f == [r \in begun |-> Said(r, "user")]
    <3>1. f \in [begun -> opening] /\ \A l \in opening : \E r \in begun : f[r] = l
      OBVIOUS
    <3>2. f \in Surjection(begun, opening)
      <4> HIDE DEF f, begun, opening
      <4> QED BY <3>1 DEF Surjection
    <3> HIDE DEF f, begun, opening
    <3> QED BY <2>1, <3>2, FS_Surjection
  <2>3. ASSUME NEW l \in opening PROVE l \in TurnLines /\ turn[l.run] = "going"
    BY DEF Said, TurnLines
  <2> HIDE DEF opening
  <2> QED BY <2>2, <2>3
<1> HIDE DEF opening, begun
<1>3. SetToSeq(opening) \in Seq(TurnLines)
      /\ \A i \in DOMAIN SetToSeq(opening) : SetToSeq(opening)[i] \in opening
  <2>1. Cardinality(opening) \in Nat /\ ExistsBijection(1..Cardinality(opening), opening)
    BY <1>2, FS_CardinalityType
  <2>2. \E f \in [1..Cardinality(opening) -> opening] : IsInjective(f)
    BY <2>1 DEF ExistsBijection, Bijection, Injection, Surjection, IsInjective
  <2>3. SetToSeq(opening) \in [1..Cardinality(opening) -> opening]
    BY <2>2 DEF SetToSeq
  <2> QED BY <1>2, <2>1, <2>3
<1> DEFINE log == SetToSeq(opening)
<1>4. log \in Seq(TurnLines) /\ \A i \in DOMAIN log : turn[log[i].run] = "going" /\ log[i].run \in Turns
  <2>1. \A l \in TurnLines : l.run \in Turns
    BY DEF TurnLines
  <2> QED BY <1>2, <1>3, <2>1
<1>5. talk = [log |-> log, turn |-> turn, born |-> [r \in Turns |-> 0], age |-> 0]
  BY <1>1 DEF opening, begun
<1> HIDE DEF log
<1>6. talk \in Talks /\ talk.age = 0 /\ talk.log = log /\ talk.turn = turn
      /\ \A r \in Turns : talk.born[r] = 0
  <2>1. turn \in [Turns -> {"unborn", "sent", "going", "over"}] /\ [r \in Turns |-> 0] \in [Turns -> 0..MaxFresh]
        /\ 0 \in 0..MaxFresh
    BY <1>0
  <2> QED BY <1>4, <1>5, <2>1 DEF Talks
<1>7. /\ wire = <<>> /\ room = EmptyChat /\ latest = room /\ dirty = TRUE /\ mark = FALSE
      /\ fetches = [c \in HistoryCalls |-> NoAsk] /\ fresh = NoFresh /\ line \in BOOLEAN /\ breaks = 0
  BY DEF HistoryInit
<1>8. EmptyChat \in Chats /\ EmptyChat.epoch = 0 /\ EmptyChat.since = 0
  <2>1. <<>> \in Seq(TurnLines)
    OBVIOUS
  <2> QED BY <1>0, <2>1 DEF EmptyChat, Chats
<1>9. NoAsk \in AskTypes /\ NoAsk.epoch = 0 /\ NoAsk.stage = "none"
  <2>1. <<>> \in Seq(TurnLines)
    OBVIOUS
  <2> QED BY <1>0, <2>1 DEF NoAsk, AskTypes
<1>10. NoFresh \in Renewals /\ NoFresh.epoch = 0 /\ NoFresh.stage = "none"
  BY <1>0 DEF NoFresh, Renewals
<1>11. wire \in Seq(HistoryFrames) /\ DOMAIN wire = {}
  BY <1>7
<1>12. HistoryRecords
  <2>1. fetches \in [HistoryCalls -> AskTypes]
    BY <1>7, <1>9
  <2> QED BY <1>6, <1>7, <1>8, <1>10, <1>11, <2>1 DEF HistoryRecords
<1>13. Landed = 0
  BY <1>6, <1>7, <1>10 DEF Landed
<1>14. FetchesFit
  BY <1>7, <1>9, <1>10 DEF FetchesFit
<1>15. EpochsFit
  BY <1>7, <1>8, <1>9, <1>10, <1>13 DEF EpochsFit
<1>16. RenewalsFit
  BY <1>7, <1>8, <1>9, <1>13 DEF RenewalsFit, Behind
<1>17. SlotsFit
  <2>1. Busy = {}
    BY <1>7 DEF Busy
  <2> QED BY <1>7, <1>13, <2>1, FS_EmptySet DEF SlotsFit
<1>18. FramesFit
  BY <1>11 DEF FramesFit
<1>19. LogsFit
  <2>1. LogFits(talk, talk.log, talk.age)
    BY <1>4, <1>6 DEF LogFits
  <2> QED BY <1>7, <1>9, <1>11, <2>1 DEF LogsFit
<1> QED BY <1>12, <1>14, <1>15, <1>17, <1>18, <1>19, <1>16 DEF HistoryInvariant

LEMMA HistoryStep ==
  ASSUME HistoryInvariant, [HistoryNext]_history
  PROVE  HistoryInvariant'
<1>1. CASE UNCHANGED history
  <2>1. UNCHANGED <<talk, wire, room, latest, dirty, fetches, mark, fresh, line, breaks>>
    BY <1>1 DEF history
  <2>2. HistoryRecords' /\ FetchesFit'
    BY <2>1 DEF HistoryInvariant, HistoryRecords, FetchesFit
  <2>3. EpochsFit' /\ RenewalsFit' /\ SlotsFit'
    BY <2>1 DEF HistoryInvariant, EpochsFit, RenewalsFit, Behind, SlotsFit, Landed, Busy
  <2>4. FramesFit' /\ LogsFit'
    BY <2>1 DEF HistoryInvariant, FramesFit, LogsFit, Since
  <2> QED BY <2>2, <2>3, <2>4 DEF HistoryInvariant
<1>2. ASSUME NEW r \in Turns, RunBegins(r) \/ RunEnds(r) \/ Types(r) PROVE HistoryInvariant'
  BY <1>2, RunBeginsKeeps, RunEndsKeeps, TypesKeeps
<1>3. ASSUME NEW c \in HistoryCalls, ReadsLog(c) \/ Answers(c) \/ Refuses(c) PROVE HistoryInvariant'
  BY <1>3, ReadsLogKeeps, AnswersKeeps, RefusesKeeps
<1>4. CASE Resets \/ AsksReset \/ Commits \/ Refreshes \/ Reconciles
  BY <1>4, ResetsKeeps, AsksResetKeeps, CommitsKeeps, RefreshesKeeps, ReconcilesKeeps
<1>5. CASE Arrives
  BY <1>5, StartArrivesKeeps, FinalArrivesKeeps, AnswerArrivesKeeps, RefusalArrivesKeeps,
     ResetArrivesKeeps DEF Arrives
<1>6. CASE Breaks \/ Returns
  BY <1>6, BreaksKeeps, ReturnsKeeps
<1> QED BY <1>1, <1>2, <1>3, <1>4, <1>5, <1>6 DEF HistoryNext

LEMMA HistoryInvariantImpliesType ==
  HistoryInvariant => HistoryTypeOK
<1> SUFFICES ASSUME HistoryInvariant PROVE HistoryTypeOK
  OBVIOUS
<1>1. /\ talk \in Talks /\ room \in Chats /\ latest \in Chats /\ HistoryRecords /\ FetchesFit
      /\ EpochsFit /\ SlotsFit
  BY DEF HistoryInvariant, HistoryRecords
<1>2. talk.log \in Seq(TurnLines) /\ talk.age \in 0..MaxFresh
      /\ talk.turn \in [Turns -> {"unborn", "sent", "going", "over"}]
      /\ talk.born \in [Turns -> 0..MaxFresh]
  BY <1>1 DEF Talks
<1>3. ChatOK(room) /\ ChatOK(latest)
  BY <1>1 DEF Chats, ChatOK
<1>4. ~mark => \E c \in HistoryCalls : fetches[c] = NoAsk
  BY <1>1, ArrivedIsAge, SlotIsFree
<1> QED BY <1>1, <1>2, <1>3, <1>4 DEF FetchesFit, HistoryTypeOK

THEOREM HistoryTypeCorrect == HistorySpec => []HistoryTypeOK
<1>1. HistoryInvariant /\ [HistoryNext]_history => HistoryInvariant'
  BY HistoryStep
<1> QED BY HistoryStarts, <1>1, HistoryInvariantImpliesType, PTL DEF HistorySpec

\* An answer that is handled is all that changes the lines in its step.
LEMMA OnlyTheAnswer ==
  ASSUME HistoryInvariant, [HistoryNext]_history, Handled
  PROVE  room'.lines = room.lines \/ AnswerArrives
<1>1. wire \in Seq(HistoryFrames) /\ wire # <<>> /\ wire' = Tail(wire) /\ Head(wire).kind = "answer"
      /\ room \in Chats
  BY DEF HistoryInvariant, HistoryRecords, Handled
<1>2. wire' # wire
  <2>1. Len(wire') = Len(wire) - 1 /\ Len(wire) \in Nat
    BY <1>1
  <2> QED BY <2>1
<1>3. CASE StartArrives \/ FinalArrives \/ RefusalArrives \/ ResetArrives
  BY <1>1, <1>3 DEF StartArrives, FinalArrives, RefusalArrives, ResetArrives, Receives
<1>4. CASE UNCHANGED history
  BY <1>2, <1>4 DEF history
<1>5. ASSUME NEW r \in Turns, RunBegins(r) \/ RunEnds(r) \/ Types(r) PROVE room' = room
  BY <1>2, <1>5 DEF RunBegins, RunEnds, Types
<1>6. ASSUME NEW c \in HistoryCalls, ReadsLog(c) \/ Answers(c) \/ Refuses(c) PROVE room' = room
  BY <1>6 DEF ReadsLog, Answers, Refuses
<1>7. CASE Resets \/ AsksReset \/ Commits \/ Refreshes
  BY <1>7 DEF Resets, AsksReset, Commits, Refreshes
<1>8. CASE Reconciles
  BY <1>2, <1>8 DEF Reconciles
<1>9. CASE Breaks \/ Returns
  BY <1>9 DEF Breaks, Returns
<1> QED BY <1>3, <1>4, <1>5, <1>6, <1>7, <1>8, <1>9 DEF HistoryNext, Arrives

\* What the answer brings is of the session, or was shown.
LEMMA GhostStep ==
  ASSUME HistoryInvariant, [HistoryNext]_history, Handled, ~dirty, NEW i \in DOMAIN room'.lines
  PROVE  \/ \E k \in DOMAIN room.lines : room'.lines[i] = room.lines[k]
         \/ talk.born[room'.lines[i].run] >= room'.since
<1>1. wire \in Seq(HistoryFrames) /\ wire # <<>> /\ wire' = Tail(wire) /\ Head(wire).kind = "answer"
      /\ latest = room
  BY DEF HistoryInvariant, HistoryRecords, FetchesFit, Handled
<1>3. CASE room'.lines = room.lines
  BY <1>3
<1>4. CASE AnswerArrives
  <2>1. room'.since = room.since
    BY <1>4, AnswerArrivesKeeps
  <2>2. CASE room'.lines = room.lines
    BY <2>2
  <2>3. CASE /\ Timely(fetches[Head(wire).what], latest)
             /\ room'.lines = Merged(Head(wire).log, latest.lines)
    <3> DEFINE answer == Head(wire).log
               listed == latest.lines
               A == {answer[j] : j \in DOMAIN answer}
               C == {listed[j] : j \in DOMAIN listed}
    <3>1. answer \in Seq(TurnLines) /\ listed \in Seq(TurnLines)
          /\ 1 \in DOMAIN wire /\ Head(wire) = wire[1]
      <4>1. Receives("answer") /\ HistoryRecords
        BY <1>4 DEF AnswerArrives, Merges, HistoryInvariant
      <4> QED BY <4>1, Receiving, FrameKinds DEF Replies, HistoryRecords, Chats
    <3>2. answer \in Seq(A \cup C) /\ listed \in Seq(A \cup C)
      <4> HIDE DEF answer, listed
      <4> QED BY <3>1
    <3>3. room'.lines \in Seq(A \cup C)
      <4> HIDE DEF A, C
      <4> QED BY <2>3, <3>2, MergedFrom
    <3>4. room'.lines[i] \in A \cup C
      <4> HIDE DEF A, C
      <4> QED BY <3>3
    <3>5. CASE room'.lines[i] \in C
      BY <1>1, <3>5
    <3>6. CASE room'.lines[i] \in A
      <4>1. PICK j \in DOMAIN answer : room'.lines[i] = answer[j]
        BY <3>6
      <4>2. LogFits(talk, answer, Since(fetches[Head(wire).what].epoch))
        BY <1>1, <3>1 DEF HistoryInvariant, LogsFit
      <4>3. Since(fetches[Head(wire).what].epoch) = room'.since
        BY <1>1, <2>1, <2>3 DEF Timely, Since
      <4> QED BY <4>1, <4>2, <4>3 DEF LogFits
    <3> QED BY <3>4, <3>5, <3>6
  <2> QED BY <1>4, <2>2, <2>3, AnswerArrivesKeeps
<1> QED BY <1>3, <1>4, OnlyTheAnswer

THEOREM HistoryHasNoGhosts == HistorySpec => NoGhosts
<1>1. HistoryInvariant /\ [HistoryNext]_history => HistoryInvariant'
  BY HistoryStep
<1> DEFINE A == Handled /\ ~dirty =>
        \A i \in DOMAIN room'.lines :
            \/ \E k \in DOMAIN room.lines : room'.lines[i] = room.lines[k]
            \/ talk.born[room'.lines[i].run] >= room'.since
<1>2. HistoryInvariant /\ [HistoryNext]_history => [A]_history
  BY GhostStep
<1> QED BY HistoryStarts, <1>1, <1>2, PTL DEF HistorySpec, NoGhosts

-----------------------------------------------------------------------------
(* Counting copies *)

\* The copies among the first n lines.
Among(s, n, l) == {i \in 1..n : SameText(s[i], l)}
CopiesUpTo(s, n, l) == Cardinality(Among(s, n, l))
OneIf(b) == IF b THEN 1 ELSE 0

LEMMA SameTextIsSame ==
  ASSUME NEW a, NEW b, NEW c
  PROVE  /\ SameText(a, a)
         /\ SameText(a, b) => SameText(b, a)
         /\ SameText(a, b) => (SameText(a, c) <=> SameText(b, c)) /\ (SameText(c, a) <=> SameText(c, b))
BY DEF SameText

LEMMA CountIsNat ==
  ASSUME NEW s, NEW n \in Nat, NEW l
  PROVE  IsFiniteSet(Among(s, n, l)) /\ CopiesUpTo(s, n, l) \in Nat
<1>1. IsFiniteSet(1..n) /\ Among(s, n, l) \subseteq 1..n
  BY FS_Interval DEF Among
<1>2. IsFiniteSet(Among(s, n, l))
  BY <1>1, FS_Subset
<1> QED BY <1>2, FS_CardinalityType DEF CopiesUpTo

LEMMA CopiesAreAll ==
  ASSUME NEW L, NEW s \in Seq(L), NEW l
  PROVE  Copies(s, l) = CopiesUpTo(s, Len(s), l) /\ Copies(s, l) \in Nat /\ Len(s) \in Nat
<1>1. DOMAIN s = 1..Len(s) /\ Len(s) \in Nat
  OBVIOUS
<1> QED BY <1>1, CountIsNat DEF Copies, CopiesUpTo, Among

LEMMA CountStarts ==
  ASSUME NEW s, NEW l
  PROVE  CopiesUpTo(s, 0, l) = 0
<1>1. Among(s, 0, l) = {}
  BY DEF Among
<1> QED BY <1>1, FS_EmptySet DEF CopiesUpTo

\* One line more, in whichever sequence.
SameUpTo(s, t, n) == \A i \in 1..n : t[i] = s[i]
LEMMA CountGrows ==
  ASSUME NEW s, NEW t, NEW n \in Nat, NEW l, SameUpTo(s, t, n)
  PROVE  CopiesUpTo(t, n + 1, l) = CopiesUpTo(s, n, l) + OneIf(SameText(t[n + 1], l))
<1>1. CASE SameText(t[n + 1], l)
  <2>1. Among(t, n + 1, l) = Among(s, n, l) \cup {n + 1} /\ n + 1 \notin Among(s, n, l)
    BY <1>1 DEF Among, SameUpTo
  <2>2. Cardinality(Among(t, n + 1, l)) = Cardinality(Among(s, n, l)) + 1
    BY <2>1, CountIsNat, FS_AddElement
  <2> QED BY <1>1, <2>2 DEF CopiesUpTo, OneIf
<1>2. CASE ~SameText(t[n + 1], l)
  <2>1. Among(t, n + 1, l) = Among(s, n, l)
    BY <1>2 DEF Among, SameUpTo
  <2>2. CopiesUpTo(s, n, l) + 0 = CopiesUpTo(s, n, l)
    BY CountIsNat
  <2> QED BY <1>2, <2>1, <2>2 DEF CopiesUpTo, OneIf
<1> QED BY <1>1, <1>2

LEMMA CountIsMonotone ==
  ASSUME NEW s, NEW m \in Nat, NEW n \in Nat, m <= n, NEW l
  PROVE  CopiesUpTo(s, m, l) <= CopiesUpTo(s, n, l)
<1>1. Among(s, m, l) \subseteq Among(s, n, l)
  BY DEF Among
<1> QED BY <1>1, CountIsNat, FS_Subset DEF CopiesUpTo

LEMMA CopiesOfSame ==
  ASSUME NEW s, NEW a, NEW b, SameText(a, b)
  PROVE  Copies(s, a) = Copies(s, b)
<1>1. {i \in DOMAIN s : SameText(s[i], a)} = {i \in DOMAIN s : SameText(s[i], b)}
  BY SameTextIsSame
<1> QED BY <1>1 DEF Copies

LEMMA CopiesAppended ==
  ASSUME NEW L, NEW s \in Seq(L), NEW e \in L, NEW l
  PROVE  Copies(Append(s, e), l) = Copies(s, l) + OneIf(SameText(e, l))
<1> DEFINE t == Append(s, e)
           n == Len(s)
<1>1. t \in Seq(L) /\ Len(t) = n + 1 /\ n \in Nat /\ t[n + 1] = e /\ \A i \in 1..n : t[i] = s[i]
  OBVIOUS
<1>2. Copies(t, l) = CopiesUpTo(t, n + 1, l) /\ Copies(s, l) = CopiesUpTo(s, n, l)
  BY <1>1, CopiesAreAll
<1> HIDE DEF t, n
<1>3. CopiesUpTo(t, n + 1, l) = CopiesUpTo(s, n, l) + OneIf(SameText(t[n + 1], l))
  <2>1. SameUpTo(s, t, n)
    BY <1>1 DEF SameUpTo
  <2>2. n \in Nat
    BY <1>1
  <2> QED BY <2>1, <2>2, CountGrows
<1> QED BY <1>1, <1>2, <1>3 DEF t

LEMMA CopiesInserted ==
  ASSUME NEW L, NEW s \in Seq(L), NEW p \in 1..(Len(s) + 1), NEW e \in L, NEW l
  PROVE  Copies(InsertAt(s, p, e), l) = Copies(s, l) + OneIf(SameText(e, l))
<1> DEFINE t == InsertAt(s, p, e)
           n == Len(s)
           A == Among(s, n, l)
           B == Among(t, n + 1, l)
           f == [i \in A |-> IF i < p THEN i ELSE i + 1]
<1>1. /\ t \in Seq(L) /\ Len(t) = n + 1 /\ n \in Nat /\ p \in 1..(n + 1)
      /\ \A j \in 1..(p - 1) : t[j] = s[j]
      /\ t[p] = e
      /\ \A j \in (p + 1)..(n + 1) : t[j] = s[j - 1]
  <2>1. t \in Seq(L) /\ Widened(t, s, p, e)
    BY Inserted
  <2>2. n \in Nat /\ p \in 1..(n + 1)
    OBVIOUS
  <2> HIDE DEF t, A, B, f
  <2>3. Len(t) = n + 1 /\ t[p] = e
    BY <2>1 DEF Widened
  <2>4. /\ \A j \in 1..(p - 1) : t[j] = s[j]
        /\ \A j \in (p + 1)..(n + 1) : t[j] = s[j - 1]
    BY <2>1 DEF Widened
  <2> QED BY <2>1, <2>2, <2>3, <2>4
<1>2. Copies(t, l) = CopiesUpTo(t, n + 1, l) /\ Copies(s, l) = CopiesUpTo(s, n, l)
  BY <1>1, CopiesAreAll
<1> HIDE DEF t, n
<1>3. \A i \in A : i \in 1..n /\ SameText(s[i], l)
  BY DEF Among
<1>4. \A j \in B : j \in 1..(n + 1) /\ SameText(t[j], l)
  BY DEF Among
<1>5. ASSUME NEW i \in A PROVE f[i] \in B \ {p}
  <2>1. CASE i < p
    <3>1. i \in 1..(p - 1) /\ i \in 1..(n + 1)
      BY <1>1, <1>3, <2>1
    <3>2. f[i] = i /\ t[i] = s[i]
      BY <1>1, <2>1, <3>1
    <3> QED BY <1>3, <2>1, <3>1, <3>2, <1>1 DEF Among
  <2>2. CASE ~(i < p)
    <3>1. i + 1 \in (p + 1)..(n + 1) /\ i + 1 \in 1..(n + 1) /\ (i + 1) - 1 = i /\ i + 1 # p
      BY <1>1, <1>3, <2>2
    <3>2. f[i] = i + 1 /\ t[i + 1] = s[i]
      BY <1>1, <2>2, <3>1
    <3> QED BY <1>3, <3>1, <3>2 DEF Among
  <2> QED BY <2>1, <2>2
<1>6. ASSUME NEW j \in B \ {p} PROVE \E i \in A : f[i] = j
  <2>1. CASE j < p
    <3>1. j \in 1..(p - 1) /\ j \in 1..n
      BY <1>1, <1>4, <2>1
    <3>2. t[j] = s[j]
      BY <1>1, <3>1
    <3>3. j \in A
      BY <1>4, <3>1, <3>2 DEF Among
    <3> QED BY <2>1, <3>3
  <2>2. CASE ~(j < p)
    <3>1. j \in (p + 1)..(n + 1) /\ j - 1 \in 1..n /\ ~(j - 1 < p) /\ (j - 1) + 1 = j
      BY <1>1, <1>4, <2>2
    <3>2. t[j] = s[j - 1]
      BY <1>1, <3>1
    <3>3. j - 1 \in A
      BY <1>4, <3>1, <3>2 DEF Among
    <3> QED BY <3>1, <3>3
  <2> QED BY <2>1, <2>2
<1>7. ASSUME NEW i \in A, NEW k \in A, f[i] = f[k] PROVE i = k
  BY <1>3, <1>7, <1>1
<1>8. f \in Bijection(A, B \ {p})
  <2>1. f \in [A -> B \ {p}]
    BY <1>5
  <2> HIDE DEF f, A, B
  <2> QED BY <2>1, <1>6, <1>7 DEF Bijection, Injection, Surjection, IsInjective
<1>9. IsFiniteSet(A) /\ IsFiniteSet(B) /\ Cardinality(A) \in Nat /\ Cardinality(B) \in Nat
  BY <1>1, CountIsNat DEF CopiesUpTo
<1>10. Cardinality(B \ {p}) = Cardinality(A)
  <2> DEFINE C == B \ {p}
  <2>1. ExistsBijection(A, C)
    BY <1>8 DEF ExistsBijection
  <2> HIDE DEF f, A, B, C
  <2>2. Cardinality(C) = Cardinality(A)
    BY <1>9, <2>1, FS_Bijection
  <2> QED BY <2>2 DEF C
<1>11. CASE SameText(e, l)
  <2>1. p \in B
    BY <1>1, <1>11 DEF Among
  <2> HIDE DEF A, B
  <2>2. Cardinality(B \ {p}) = Cardinality(B) - 1
    BY <1>9, <2>1, FS_RemoveElement
  <2>3. Cardinality(B) = Cardinality(A) + 1
    BY <1>9, <1>10, <2>2
  <2> QED BY <1>2, <1>11, <2>3 DEF CopiesUpTo, OneIf, A, B, t
<1>12. CASE ~SameText(e, l)
  <2>1. p \notin B
    BY <1>1, <1>12 DEF Among
  <2>2. B \ {p} = B
    BY <2>1
  <2>3. Cardinality(B) = Cardinality(A)
    BY <1>10, <2>2
  <2> HIDE DEF A, B
  <2>4. Cardinality(B) = Cardinality(A) + 0
    BY <1>9, <2>3
  <2> QED BY <1>2, <1>12, <2>4 DEF CopiesUpTo, OneIf, A, B, t
<1> QED BY <1>11, <1>12

\* What has been placed of the lines shown lies before the next place, what the
\* answer holds is there, and nothing else.
Matched(answer, listed, k, m) ==
    \A l \in TurnLines :
        /\ CopiesUpTo(listed, k, l) <= CopiesUpTo(m.lines, m.next - 1, l)
        /\ Copies(answer, l) <= Copies(m.lines, l)
        /\ Copies(listed, l) = 0 => Copies(m.lines, l) = Copies(answer, l)

LEMMA PlacedMatches ==
  ASSUME NEW answer \in Seq(TurnLines), NEW listed \in Seq(TurnLines),
         NEW k \in 0..(Len(listed) - 1), NEW m \in Spots(TurnLines),
         Matched(answer, listed, k, m)
  PROVE  Matched(answer, listed, k + 1, Placed(m, listed[k + 1]))
<1> DEFINE c == listed[k + 1]
           u == Placed(m, c)
<1>1. c \in TurnLines /\ k \in Nat /\ k + 1 \in 1..Len(listed) /\ Len(listed) \in Nat
  OBVIOUS
<1>2. /\ m.lines \in Seq(TurnLines) /\ m.next \in Nat \ {0} /\ m.next \in 1..(Len(m.lines) + 1)
      /\ Len(m.lines) \in Nat
  BY DEF Spots
<1>3. /\ u \in Spots(TurnLines)
      /\ \/ /\ u.lines = m.lines /\ u.next - 1 \in m.next..Len(m.lines)
            /\ SameText(m.lines[u.next - 1], c)
         \/ u.lines = InsertAt(m.lines, m.next, c) /\ u.next = m.next + 1
  BY <1>1, PlacedFits
<1> SUFFICES ASSUME NEW l \in TurnLines
             PROVE  /\ CopiesUpTo(listed, k + 1, l) <= CopiesUpTo(u.lines, u.next - 1, l)
                    /\ Copies(answer, l) <= Copies(u.lines, l)
                    /\ Copies(listed, l) = 0 => Copies(u.lines, l) = Copies(answer, l)
  BY DEF Matched
<1>4. /\ CopiesUpTo(listed, k, l) <= CopiesUpTo(m.lines, m.next - 1, l)
      /\ Copies(answer, l) <= Copies(m.lines, l)
      /\ Copies(listed, l) = 0 => Copies(m.lines, l) = Copies(answer, l)
  BY DEF Matched
<1>5. CopiesUpTo(listed, k + 1, l) = CopiesUpTo(listed, k, l) + OneIf(SameText(c, l))
  <2>1. SameUpTo(listed, listed, k)
    BY DEF SameUpTo
  <2> QED BY <1>1, <2>1, CountGrows
<1>6. /\ CopiesUpTo(listed, k, l) \in Nat /\ CopiesUpTo(m.lines, m.next - 1, l) \in Nat
      /\ Copies(answer, l) \in Nat /\ Copies(m.lines, l) \in Nat
  <2>1. m.next - 1 \in Nat
    BY <1>2
  <2> QED BY <1>1, <1>2, <2>1, CountIsNat, CopiesAreAll
<1> HIDE DEF c, u
<1>7. CASE /\ u.lines = m.lines /\ u.next - 1 \in m.next..Len(m.lines)
           /\ SameText(m.lines[u.next - 1], c)
  <2> DEFINE p == u.next - 1
  <2>1. p \in Nat /\ p - 1 \in Nat /\ m.next - 1 \in Nat /\ m.next - 1 <= p - 1 /\ (p - 1) + 1 = p
    BY <1>2, <1>7
  <2>2. SameText(m.lines[p], l) <=> SameText(c, l)
    BY <1>7, SameTextIsSame
  <2> HIDE DEF p
  <2>3. CopiesUpTo(m.lines, (p - 1) + 1, l)
          = CopiesUpTo(m.lines, p - 1, l) + OneIf(SameText(m.lines[(p - 1) + 1], l))
    <3>1. SameUpTo(m.lines, m.lines, p - 1)
      BY DEF SameUpTo
    <3> QED BY <2>1, <3>1, CountGrows
  <2>4. CopiesUpTo(m.lines, m.next - 1, l) <= CopiesUpTo(m.lines, p - 1, l)
    BY <2>1, CountIsMonotone
  <2>5. CopiesUpTo(m.lines, p - 1, l) \in Nat
    BY <2>1, CountIsNat
  <2>6. CopiesUpTo(listed, k + 1, l) <= CopiesUpTo(m.lines, p, l)
    BY <1>4, <1>5, <1>6, <2>1, <2>2, <2>3, <2>4, <2>5 DEF OneIf
  <2> QED BY <1>4, <1>7, <2>6 DEF p
<1>8. CASE u.lines = InsertAt(m.lines, m.next, c) /\ u.next = m.next + 1
  <2> DEFINE t == InsertAt(m.lines, m.next, c)
             p == m.next - 1
  <2>0. c \in TurnLines
    BY <1>1 DEF c
  <2>9. /\ InsertAt(m.lines, m.next, c)[m.next] = c
        /\ \A j \in 1..(m.next - 1) : InsertAt(m.lines, m.next, c)[j] = m.lines[j]
    <3>1. m.lines \in Seq(TurnLines) /\ m.next \in 1..(Len(m.lines) + 1)
      BY <1>1, <1>2
    <3>2. Widened(InsertAt(m.lines, m.next, c), m.lines, m.next, c)
      BY <3>1, <2>0, Inserted
    <3> QED BY <3>2 DEF Widened
  <2>1. t[m.next] = c
    BY <2>9
  <2>10. \A j \in 1..p : t[j] = m.lines[j]
    BY <2>9
  <2>2. p \in Nat /\ p + 1 = m.next /\ u.next - 1 = p + 1
    BY <1>2, <1>8
  <2>3. Copies(t, l) = Copies(m.lines, l) + OneIf(SameText(c, l))
    BY <1>1, <1>2, CopiesInserted DEF c
  <2>4. Copies(listed, l) = 0 => ~SameText(c, l)
    <3>1. CopiesUpTo(listed, k + 1, l) <= CopiesUpTo(listed, Len(listed), l)
      BY <1>1, CountIsMonotone
    <3>2. Copies(listed, l) = CopiesUpTo(listed, Len(listed), l)
      BY CopiesAreAll
    <3> QED BY <1>5, <1>6, <3>1, <3>2 DEF OneIf
  <2> HIDE DEF t, p
  <2>5. CopiesUpTo(t, p + 1, l) = CopiesUpTo(m.lines, p, l) + OneIf(SameText(t[p + 1], l))
    <3>1. p \in Nat
      BY <2>2
    <3>2. SameUpTo(m.lines, t, p)
      BY <2>10 DEF SameUpTo
    <3> QED BY <3>1, <3>2, CountGrows
  <2>6. CopiesUpTo(listed, k + 1, l) <= CopiesUpTo(t, p + 1, l)
    BY <1>4, <1>5, <1>6, <2>1, <2>2, <2>5 DEF OneIf, p
  <2>7. Copies(answer, l) <= Copies(t, l)
    BY <1>4, <1>6, <2>3 DEF OneIf
  <2>8. Copies(listed, l) = 0 => Copies(t, l) = Copies(answer, l)
    BY <1>4, <1>6, <2>3, <2>4 DEF OneIf
  <2> QED BY <1>8, <2>2, <2>6, <2>7, <2>8 DEF t
<1> QED BY <1>3, <1>7, <1>8

LEMMA PlacementKeeps ==
  ASSUME NEW answer \in Seq(TurnLines), NEW listed \in Seq(TurnLines)
  PROVE  LET m == FoldLeft(Placed, [lines |-> answer, next |-> 1], listed) IN
         /\ m.lines \in Seq(TurnLines)
         /\ \A l \in TurnLines :
               /\ Copies(listed, l) <= Copies(m.lines, l)
               /\ Copies(answer, l) <= Copies(m.lines, l)
               /\ Copies(listed, l) = 0 => Copies(m.lines, l) = Copies(answer, l)
<1> DEFINE base == [lines |-> answer, next |-> 1]
           m == FoldLeft(Placed, base, listed)
           n == Len(listed)
<1>1. base \in Spots(TurnLines) /\ n \in Nat
  BY DEF Spots
<1>2. Matched(answer, listed, 0, base)
  <2>1. base.lines = answer /\ base.next - 1 = 0
    OBVIOUS
  <2> HIDE DEF base
  <2>2. ASSUME NEW l \in TurnLines
        PROVE  CopiesUpTo(listed, 0, l) = 0 /\ CopiesUpTo(answer, 0, l) = 0 /\ Copies(answer, l) \in Nat
    BY CountStarts, CopiesAreAll
  <2> QED BY <2>1, <2>2 DEF Matched
<1> HIDE DEF base
<1>3. PICK r \in [0..n -> Spots(TurnLines)] : Placings(r, base, listed)
  BY <1>1, Placing
<1> DEFINE G == {k \in 0..n : Matched(answer, listed, k, r[k])}
<1>4. 0 \in G
  BY <1>1, <1>2, <1>3 DEF Placings
<1>5. ASSUME NEW k \in 0..(n - 1), k \in G PROVE k + 1 \in G
  <2>1. k \in 0..n /\ k + 1 \in 0..n
    BY <1>1
  <2>2. r[k] \in Spots(TurnLines) /\ r[k + 1] = Placed(r[k], listed[k + 1])
    BY <1>3, <2>1 DEF Placings
  <2>3. Matched(answer, listed, k + 1, Placed(r[k], listed[k + 1]))
    BY <1>5, <2>2, PlacedMatches
  <2> QED BY <2>1, <2>2, <2>3
<1> HIDE DEF G
<1>6. n \in G
  <2>1. \A k \in 0..n : k \in G
    <3> HIDE DEF n
    <3> QED BY <1>1, <1>4, <1>5, StepByStep
  <2> QED BY <1>1, <2>1
<1>7. Matched(answer, listed, n, m) /\ m \in Spots(TurnLines)
  BY <1>1, <1>3, <1>6 DEF G, Placings
<1> HIDE DEF m
<1>8. m.lines \in Seq(TurnLines) /\ m.next - 1 \in Nat /\ m.next - 1 <= Len(m.lines) /\ Len(m.lines) \in Nat
  BY <1>7 DEF Spots
<1>9. ASSUME NEW l \in TurnLines PROVE Copies(listed, l) <= Copies(m.lines, l)
  <2>1. Copies(listed, l) = CopiesUpTo(listed, n, l) /\ Copies(listed, l) \in Nat
    BY CopiesAreAll
  <2>2. Copies(m.lines, l) = CopiesUpTo(m.lines, Len(m.lines), l) /\ Copies(m.lines, l) \in Nat
    BY <1>8, CopiesAreAll
  <2>3. CopiesUpTo(m.lines, m.next - 1, l) <= CopiesUpTo(m.lines, Len(m.lines), l)
        /\ CopiesUpTo(m.lines, m.next - 1, l) \in Nat
    BY <1>8, CountIsMonotone, CountIsNat
  <2>4. CopiesUpTo(listed, n, l) <= CopiesUpTo(m.lines, m.next - 1, l)
    BY <1>7 DEF Matched
  <2> QED BY <2>1, <2>2, <2>3, <2>4
<1>10. ASSUME NEW l \in TurnLines
       PROVE  /\ Copies(answer, l) <= Copies(m.lines, l)
              /\ Copies(listed, l) = 0 => Copies(m.lines, l) = Copies(answer, l)
  BY <1>7 DEF Matched
<1> QED BY <1>8, <1>9, <1>10 DEF m, base

\* Of u copies, those that stay.
Staying(answer, listed, l, u) ==
    IF /\ l.role = "assistant" /\ Copies(listed, l) > 0
       /\ Copies(answer, l) > 0 /\ u > Copies(answer, l)
    THEN Copies(answer, l) ELSE u

LEMMA KeptCounts ==
  ASSUME NEW answer \in Seq(TurnLines), NEW listed \in Seq(TurnLines), NEW kept \in Seq(TurnLines),
         NEW e \in TurnLines, NEW l \in TurnLines, NEW u \in Nat,
         Copies(kept, l) = Staying(answer, listed, l, u)
  PROVE  Copies(LineKept(answer, listed, kept, e), l)
            = Staying(answer, listed, l, u + OneIf(SameText(e, l)))
<1>1. Copies(Append(kept, e), l) = Copies(kept, l) + OneIf(SameText(e, l))
  BY CopiesAppended
<1>2. Copies(answer, l) \in Nat /\ Copies(listed, l) \in Nat /\ Copies(kept, l) \in Nat
  BY CopiesAreAll
<1>3. CASE ~SameText(e, l)
  <2>1. OneIf(SameText(e, l)) = 0
    BY <1>3 DEF OneIf
  <2>2. Copies(LineKept(answer, listed, kept, e), l) = Copies(kept, l)
    BY <1>1, <1>2, <2>1 DEF LineKept
  <2>3. u + 0 = u
    OBVIOUS
  <2> QED BY <2>1, <2>2, <2>3
<1>4. CASE SameText(e, l)
  <2>1. OneIf(SameText(e, l)) = 1 /\ e.role = l.role
    BY <1>4 DEF OneIf, SameText
  <2>2. Copies(answer, e) = Copies(answer, l) /\ Copies(listed, e) = Copies(listed, l)
        /\ Copies(kept, e) = Copies(kept, l)
    BY <1>4, CopiesOfSame
  <2> DEFINE a == Copies(answer, l)
             b == Copies(listed, l)
             x == Copies(kept, l)
  <2>3. Copies(LineKept(answer, listed, kept, e), l)
           = IF l.role = "assistant" /\ b > 0 /\ a \in 1..x THEN x ELSE x + 1
    BY <1>1, <2>1, <2>2 DEF LineKept
  <2>4. x = IF l.role = "assistant" /\ b > 0 /\ a > 0 /\ u > a THEN a ELSE u
    BY DEF Staying
  <2>5. a \in Nat /\ b \in Nat /\ x \in Nat
    BY <1>2
  <2>6. Staying(answer, listed, l, u + 1)
           = IF l.role = "assistant" /\ b > 0 /\ a > 0 /\ u + 1 > a THEN a ELSE u + 1
    BY DEF Staying
  <2> HIDE DEF a, b, x
  <2>7. CASE l.role = "assistant" /\ b > 0 /\ a > 0
    <3>1. CASE u >= a
      BY <2>1, <2>3, <2>4, <2>5, <2>6, <2>7, <3>1
    <3>2. CASE u < a
      BY <2>1, <2>3, <2>4, <2>5, <2>6, <2>7, <3>2
    <3> QED BY <2>5, <3>1, <3>2
  <2>8. CASE ~(l.role = "assistant" /\ b > 0 /\ a > 0)
    BY <2>1, <2>3, <2>4, <2>5, <2>6, <2>8
  <2> QED BY <2>7, <2>8
<1> QED BY <1>3, <1>4

LEMMA BoundedCounts ==
  ASSUME NEW answer \in Seq(TurnLines), NEW listed \in Seq(TurnLines), NEW q \in Seq(TurnLines),
         NEW l \in TurnLines
  PROVE  Copies(Bounded(q, answer, listed), l) = Staying(answer, listed, l, Copies(q, l))
<1> DEFINE n == Len(q)
<1>1. n \in Nat
  OBVIOUS
<1>2. PICK r \in [0..n -> Seq(TurnLines)] : Boundings(r, q, answer, listed)
  BY Bounding
<1> DEFINE G == {k \in 0..n : Copies(r[k], l) = Staying(answer, listed, l, CopiesUpTo(q, k, l))}
<1>3. 0 \in G
  <2>1. r[0] = <<>>
    BY <1>2 DEF Boundings
  <2>2. Copies(<<>>, l) = 0
    <3>1. {i \in DOMAIN <<>> : SameText(<<>>[i], l)} = {}
      OBVIOUS
    <3> QED BY <3>1, FS_EmptySet DEF Copies
  <2>3. CopiesUpTo(q, 0, l) = 0 /\ Copies(answer, l) \in Nat
    BY CountStarts, CopiesAreAll
  <2>4. Staying(answer, listed, l, 0) = 0
    BY <2>3 DEF Staying
  <2>5. 0 \in 0..n
    BY <1>1
  <2> QED BY <2>1, <2>2, <2>3, <2>4, <2>5
<1>4. ASSUME NEW k \in 0..(n - 1), k \in G PROVE k + 1 \in G
  <2>1. k \in Nat /\ k \in 0..n /\ k + 1 \in 0..n /\ k + 1 \in 1..n
    BY <1>1
  <2>2. r[k] \in Seq(TurnLines) /\ q[k + 1] \in TurnLines
    BY <2>1
  <2>3. r[k + 1] = LineKept(answer, listed, r[k], q[k + 1])
    BY <1>2 DEF Boundings
  <2>4. CopiesUpTo(q, k + 1, l) = CopiesUpTo(q, k, l) + OneIf(SameText(q[k + 1], l))
    <3>1. SameUpTo(q, q, k)
      BY DEF SameUpTo
    <3> QED BY <2>1, <3>1, CountGrows
  <2>5. CopiesUpTo(q, k, l) \in Nat
    BY <2>1, CountIsNat
  <2>6. Copies(r[k], l) = Staying(answer, listed, l, CopiesUpTo(q, k, l))
    BY <1>4
  <2>7. Copies(r[k + 1], l) = Staying(answer, listed, l, CopiesUpTo(q, k + 1, l))
    BY <2>2, <2>3, <2>4, <2>5, <2>6, KeptCounts
  <2> QED BY <2>1, <2>7
<1> HIDE DEF G
<1>5. n \in G
  <2>1. \A k \in 0..n : k \in G
    <3> HIDE DEF n
    <3> QED BY <1>1, <1>3, <1>4, StepByStep
  <2> QED BY <1>1, <2>1
<1>6. Copies(r[n], l) = Staying(answer, listed, l, CopiesUpTo(q, n, l))
  BY <1>5 DEF G
<1>7. r[n] = Bounded(q, answer, listed)
  BY <1>2 DEF Boundings
<1>8. Copies(q, l) = CopiesUpTo(q, n, l)
  BY CopiesAreAll
<1> QED BY <1>6, <1>7, <1>8

\* A message of the user is shown as often as before, and as often as the
\* answer has it; a reply that was shown is, and one the answer has is shown as
\* often as there.
LEMMA MergedCounts ==
  ASSUME NEW answer \in Seq(TurnLines), NEW listed \in Seq(TurnLines), answer # <<>>,
         NEW l \in TurnLines
  PROVE  /\ l.role = "user" => Copies(Merged(answer, listed), l) >= Copies(listed, l)
         /\ Copies(listed, l) > 0 => Copies(Merged(answer, listed), l) >= 1
         /\ l.role = "assistant" /\ Copies(answer, l) > 0
               => Copies(Merged(answer, listed), l) = Copies(answer, l)
<1>1. Copies(answer, l) \in Nat /\ Copies(listed, l) \in Nat
  BY CopiesAreAll
<1>2. CASE listed = <<>>
  <2>1. Copies(<<>>, l) = 0
    <3>1. {i \in DOMAIN <<>> : SameText(<<>>[i], l)} = {}
      OBVIOUS
    <3> QED BY <3>1, FS_EmptySet DEF Copies
  <2>2. Merged(answer, listed) = answer
    BY <1>2 DEF Merged
  <2> QED BY <1>1, <1>2, <2>1, <2>2
<1>3. CASE listed # <<>>
  <2> DEFINE m == FoldLeft(Placed, [lines |-> answer, next |-> 1], listed)
  <2>1. Merged(answer, listed) = Bounded(m.lines, answer, listed)
    BY <1>3 DEF Merged
  <2>2. /\ m.lines \in Seq(TurnLines)
        /\ Copies(listed, l) <= Copies(m.lines, l)
        /\ Copies(answer, l) <= Copies(m.lines, l)
        /\ Copies(listed, l) = 0 => Copies(m.lines, l) = Copies(answer, l)
    BY PlacementKeeps
  <2> HIDE DEF m
  <2>3. Copies(Merged(answer, listed), l) = Staying(answer, listed, l, Copies(m.lines, l))
    BY <2>1, <2>2, BoundedCounts
  <2>4. Copies(m.lines, l) \in Nat
    BY <2>2, CopiesAreAll
  <2> QED BY <1>1, <2>2, <2>3, <2>4 DEF Staying
<1> QED BY <1>2, <1>3

-----------------------------------------------------------------------------
(* What was shown stays *)

\* All of t is still in s, the messages of the user as often as in t.
KeepsShown(s, t) ==
    \A i \in DOMAIN t :
        Copies(s, t[i]) >= IF t[i].role = "user" THEN Copies(t, t[i]) ELSE 1

\* What the page has committed is in the store, until the session is renewed.
ShownIsKept == room.since = latest.since => KeepsShown(room.lines, latest.lines)

LEMMA IsCounted ==
  ASSUME NEW t \in Seq(TurnLines), NEW i \in DOMAIN t
  PROVE  Copies(t, t[i]) \in Nat /\ Copies(t, t[i]) > 0
<1>1. Copies(t, t[i]) = CopiesUpTo(t, Len(t), t[i]) /\ Len(t) \in Nat /\ i \in 1..Len(t)
  BY CopiesAreAll
<1>2. i \in Among(t, Len(t), t[i])
  BY <1>1, SameTextIsSame DEF Among
<1>3. IsFiniteSet(Among(t, Len(t), t[i])) /\ CopiesUpTo(t, Len(t), t[i]) \in Nat
  BY <1>1, CountIsNat
<1>4. Cardinality(Among(t, Len(t), t[i])) # 0
  BY <1>2, <1>3, FS_EmptySet
<1> QED BY <1>1, <1>3, <1>4 DEF CopiesUpTo

LEMMA KeptOfItself ==
  ASSUME NEW t \in Seq(TurnLines)
  PROVE  KeepsShown(t, t)
<1> SUFFICES ASSUME NEW i \in DOMAIN t
             PROVE  Copies(t, t[i]) >= IF t[i].role = "user" THEN Copies(t, t[i]) ELSE 1
  BY DEF KeepsShown
<1>1. Copies(t, t[i]) \in Nat /\ Copies(t, t[i]) > 0
  BY IsCounted
<1> QED BY <1>1

LEMMA KeptWithMore ==
  ASSUME NEW s \in Seq(TurnLines), NEW t \in Seq(TurnLines), NEW l \in TurnLines, KeepsShown(s, t)
  PROVE  KeepsShown(Append(s, l), t)
<1> SUFFICES ASSUME NEW i \in DOMAIN t
             PROVE  Copies(Append(s, l), t[i]) >=
                        IF t[i].role = "user" THEN Copies(t, t[i]) ELSE 1
  BY DEF KeepsShown
<1>1. Copies(s, t[i]) \in Nat /\ Copies(t, t[i]) \in Nat
  BY CopiesAreAll
<1>2. Copies(Append(s, l), t[i]) = Copies(s, t[i]) + OneIf(SameText(l, t[i]))
  BY CopiesAppended
<1>3. Copies(s, t[i]) >= IF t[i].role = "user" THEN Copies(t, t[i]) ELSE 1
  BY DEF KeepsShown
<1>4. Copies(Append(s, l), t[i]) >= Copies(s, t[i]) /\ Copies(Append(s, l), t[i]) \in Nat
  BY <1>1, <1>2 DEF OneIf
<1> QED BY <1>1, <1>3, <1>4

LEMMA KeptByMerge ==
  ASSUME NEW answer \in Seq(TurnLines), NEW listed \in Seq(TurnLines), answer # <<>>
  PROVE  KeepsShown(Merged(answer, listed), listed)
<1> SUFFICES ASSUME NEW i \in DOMAIN listed
             PROVE  Copies(Merged(answer, listed), listed[i]) >=
                        IF listed[i].role = "user" THEN Copies(listed, listed[i]) ELSE 1
  BY DEF KeepsShown
<1>1. listed[i] \in TurnLines /\ Copies(listed, listed[i]) > 0
  BY IsCounted
<1> QED BY <1>1, MergedCounts

\* Of a step: what was committed is kept, unless the session is renewed.
LEMMA KeptByStep ==
  ASSUME HistoryInvariant, ShownIsKept, [HistoryNext]_history, room'.since = latest.since
  PROVE  KeepsShown(room'.lines, latest.lines)
<1>1. room \in Chats /\ latest \in Chats /\ room.lines \in Seq(TurnLines) /\ latest.lines \in Seq(TurnLines)
      /\ HistoryRecords /\ RenewalsFit
  BY DEF HistoryInvariant, HistoryRecords, Chats
<1>2. CASE room'.lines = room.lines /\ room'.since = room.since
  BY <1>2 DEF ShownIsKept
<1>3. ASSUME NEW l \in TurnLines, room'.lines = Append(room.lines, l), room'.since = room.since
      PROVE  KeepsShown(room'.lines, latest.lines)
  BY <1>1, <1>3, KeptWithMore DEF ShownIsKept
<1>4. ASSUME NEW r \in Turns, Types(r) PROVE KeepsShown(room'.lines, latest.lines)
  <2>1. Said(r, "user") \in TurnLines
    BY DEF Said, TurnLines
  <2> QED BY <1>3, <1>4, <2>1, TypesKeeps
<1>5. CASE StartArrives
  BY <1>2, <1>5, StartArrivesKeeps
<1>6. CASE FinalArrives
  BY <1>2, <1>3, <1>6, FinalArrivesKeeps
<1>7. CASE AnswerArrives
  <2>1. CASE /\ room'.lines = Merged(Head(wire).log, latest.lines) /\ Head(wire).log # <<>>
    <3>1. Head(wire).log \in Seq(TurnLines)
      BY <1>1, <1>7, Receiving, FrameKinds DEF AnswerArrives, Merges, Replies
    <3> QED BY <1>1, <2>1, <3>1, KeptByMerge
  <2> QED BY <1>2, <1>7, <2>1, AnswerArrivesKeeps
<1>8. CASE ResetArrives
  <2>1. fresh.stage = "answered" /\ room'.since = talk.age
    BY <1>8, ResetArrivesKeeps
  <2>2. room.since \in Nat /\ latest.since \in Nat /\ talk.age \in Nat
    BY <1>1, HistoryAssumption DEF HistoryRecords, Chats, Talks, HistoryAssumption
  <2>3. room.since <= talk.age - 1 /\ latest.since <= room.since
    BY <1>1, <2>1 DEF RenewalsFit, Behind, Landed
  <2> QED BY <2>1, <2>2, <2>3
<1>9. CASE RefusalArrives
  BY <1>2, <1>9 DEF RefusalArrives
<1>10. CASE UNCHANGED history
  BY <1>2, <1>10 DEF history
<1>11. ASSUME NEW r \in Turns, RunBegins(r) \/ RunEnds(r) PROVE KeepsShown(room'.lines, latest.lines)
  BY <1>2, <1>11 DEF RunBegins, RunEnds
<1>12. ASSUME NEW c \in HistoryCalls, ReadsLog(c) \/ Answers(c) \/ Refuses(c)
       PROVE  KeepsShown(room'.lines, latest.lines)
  BY <1>2, <1>12 DEF ReadsLog, Answers, Refuses
<1>13. CASE Resets \/ AsksReset \/ Commits \/ Refreshes \/ Breaks \/ Returns
  BY <1>2, <1>13 DEF Resets, AsksReset, Commits, Refreshes, Breaks, Returns
<1>14. CASE Reconciles
  BY <1>1, <1>2, <1>14 DEF Reconciles, Chats
<1> QED BY <1>4, <1>5, <1>6, <1>7, <1>8, <1>9, <1>10, <1>11, <1>12, <1>13, <1>14
        DEF HistoryNext, Arrives

LEMMA ShownIsKeptStep ==
  ASSUME HistoryInvariant, ShownIsKept, [HistoryNext]_history
  PROVE  ShownIsKept'
<1>1. CASE latest' = latest
  BY <1>1, KeptByStep DEF ShownIsKept
<1>2. CASE latest' = room'
  <2>1. HistoryInvariant'
    BY HistoryStep
  <2>2. room'.lines \in Seq(TurnLines)
    BY <2>1 DEF HistoryInvariant, HistoryRecords, Chats
  <2> QED BY <1>2, <2>2, KeptOfItself DEF ShownIsKept
<1>3. ASSUME NEW r \in Turns, RunBegins(r) \/ RunEnds(r) \/ Types(r)
      PROVE  latest' = latest \/ latest' = room'
  BY <1>3 DEF RunBegins, RunEnds, Types, Committed
<1>4. ASSUME NEW c \in HistoryCalls, ReadsLog(c) \/ Answers(c) \/ Refuses(c) PROVE latest' = latest
  BY <1>4 DEF ReadsLog, Answers, Refuses
<1>5. CASE Resets \/ AsksReset \/ Refreshes \/ Reconciles \/ Breaks \/ Returns
  BY <1>1, <1>5 DEF Resets, AsksReset, Refreshes, Reconciles, Breaks, Returns
<1>6. CASE Commits
  BY <1>2, <1>6 DEF Commits, Committed
<1>7. CASE Arrives
  BY <1>1, <1>7 DEF Arrives, StartArrives, FinalArrives, AnswerArrives, Merges, RefusalArrives, ResetArrives, Ended
<1>8. CASE UNCHANGED history
  BY <1>1, <1>8 DEF history
<1> QED BY <1>1, <1>2, <1>3, <1>4, <1>5, <1>6, <1>7, <1>8 DEF HistoryNext

\* A reply the answer has is shown as often as there.
LEMMA RepliesCounted ==
  ASSUME HistoryInvariant, [HistoryNext]_history, Handled, ~dirty, room'.lines # room.lines,
         NEW i \in DOMAIN Head(wire).log, Head(wire).log[i].role = "assistant"
  PROVE  Copies(room'.lines, Head(wire).log[i]) = Copies(Head(wire).log, Head(wire).log[i])
<1>1. AnswerArrives
  BY OnlyTheAnswer
<1>2. HistoryRecords /\ Receives("answer") /\ latest.lines \in Seq(TurnLines)
  BY <1>1 DEF AnswerArrives, Merges, HistoryInvariant, HistoryRecords, Chats
<1>3. Head(wire).log \in Seq(TurnLines)
  BY <1>2, Receiving, FrameKinds DEF Replies
<1>4. room'.lines = Merged(Head(wire).log, latest.lines) /\ Head(wire).log # <<>>
  BY <1>1, AnswerArrivesKeeps
<1>5. Head(wire).log[i] \in TurnLines /\ Copies(Head(wire).log, Head(wire).log[i]) > 0
  BY <1>3, IsCounted
<1> QED BY <1>2, <1>3, <1>4, <1>5, MergedCounts

THEOREM AnswersAreMerged == HistorySpec => AnswersMerged
<1>1. HistoryInit => HistoryInvariant /\ ShownIsKept
  <2>1. ASSUME HistoryInit PROVE HistoryInvariant /\ ShownIsKept
    <3>1. HistoryInvariant /\ latest = room
      BY <2>1, HistoryStarts DEF HistoryInit
    <3>2. room.lines \in Seq(TurnLines)
      BY <3>1 DEF HistoryInvariant, HistoryRecords, Chats
    <3> QED BY <3>1, <3>2, KeptOfItself DEF ShownIsKept
  <2> QED BY <2>1
<1>2. HistoryInvariant /\ ShownIsKept /\ [HistoryNext]_history => HistoryInvariant' /\ ShownIsKept'
  BY HistoryStep, ShownIsKeptStep
<1> DEFINE A ==
    /\ room'.since = latest.since =>
          \A i \in DOMAIN latest.lines :
             LET shown == latest.lines[i] IN
             Copies(room'.lines, shown) >=
                 IF shown.role = "user" THEN Copies(latest.lines, shown) ELSE 1
    /\ Handled /\ ~dirty /\ room'.lines # room.lines =>
          \A i \in DOMAIN Head(wire).log :
             LET reply == Head(wire).log[i] IN
             reply.role = "assistant" =>
                 Copies(room'.lines, reply) = Copies(Head(wire).log, reply)
<1>3. HistoryInvariant /\ ShownIsKept /\ [HistoryNext]_history => [A]_history
  <2> SUFFICES ASSUME HistoryInvariant, ShownIsKept, [HistoryNext]_history PROVE A
    OBVIOUS
  <2>1. room'.since = latest.since => KeepsShown(room'.lines, latest.lines)
    BY KeptByStep
  <2>2. Handled /\ ~dirty /\ room'.lines # room.lines =>
          \A i \in DOMAIN Head(wire).log :
             Head(wire).log[i].role = "assistant" =>
                 Copies(room'.lines, Head(wire).log[i]) = Copies(Head(wire).log, Head(wire).log[i])
    BY RepliesCounted
  <2> QED BY <2>1, <2>2 DEF KeepsShown
<1> QED BY <1>1, <1>2, <1>3, PTL DEF HistorySpec, AnswersMerged
=============================================================================
