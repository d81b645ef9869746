--------------------------- MODULE OfficeLinkProofs ---------------------------
(***************************************************************************)
(* Proofs about the office bridge for every number of agents, runs,        *)
(* approvals and connect requests: a connect is answered once, no office   *)
(* is deaf, and behind the proxy the adapter does what its own             *)
(* specification says.                                                     *)
(***************************************************************************)
EXTENDS OfficeLink, OfficeAdapterProofs

USE OfficeAssumption

-----------------------------------------------------------------------------
(* The proxy, and the office behind it.                                    *)

\* Until the settings are there no upstream socket is, and a connection that
\* was closed has no socket that opens, unless it was closed before that.
SocketEnds ==
    /\ browser = "gone" => closed
    /\ closed => browser # "open"
    /\ settings = "loading" => upstream = "none" /\ (closed => orphaned)
    /\ closed /\ ~orphaned => upstream \notin {"connecting", "open"}
    /\ upstream = "open" => upstreamReady
    /\ downlinks # {} => upstream \in {"open", "closing", "closed"}

\* As long as the browser may be sent something: no request that was answered
\* is with the gateway, waits for the upstream, or counts as unanswered.
OpenAnswers ==
    /\ \A c \in forwarded : answers[c] = 0
    /\ request # NoRequest /\ ~responded => answers[request] = 0
    /\ request = NoRequest => forwarded = {} /\ ~responded /\ \A c \in Connects : answers[c] = 0
    /\ request = NoRequest /\ setupError = "none" => upstream \in {"none", "connecting", "open"}
    /\ pendingFrame # NoRequest => ~responded /\ upstream \notin {"open", "closing"}

LinkInvariant ==
    /\ ProxyTypeOK
    /\ SocketEnds
    /\ pendingFrame \in {NoRequest, request}
    /\ browser = "open" => OpenAnswers
    /\ OneConnectAnswer
    /\ NoStuckConnect
    /\ NoDeafOffice

Upstreams == {"none", "connecting", "aborting", "open", "closing", "closed"}

\* The types, one variable at a time.
LEMMA ProxyTypes ==
  ProxyTypeOK <=>
    /\ browser \in {"open", "closing", "gone"}
    /\ settings \in {"loading", "loaded", "failed"}
    /\ upstream \in Upstreams
    /\ upstreamReady \in BOOLEAN /\ handshake \in BOOLEAN /\ responded \in BOOLEAN
    /\ closed \in BOOLEAN /\ orphaned \in BOOLEAN
    /\ setupError \in {"none", "timeout", "other"}
    /\ request \in Connects \cup {NoRequest} /\ pendingFrame \in Connects \cup {NoRequest}
    /\ forwarded \subseteq Connects /\ answers \in [Connects -> Nat]
BY DEF ProxyTypeOK, Upstreams

\* Nothing has happened.
LEMMA LinkInitially == LinkInit => LinkInvariant
<1> SUFFICES ASSUME LinkInit PROVE LinkInvariant
  OBVIOUS
<1>1. ProxyTypeOK
  <2>1. answers \in [Connects -> Nat]
    BY DEF LinkInit, ProxyInit
  <2> QED BY <2>1 DEF LinkInit, ProxyInit, ProxyTypeOK
<1>2. SocketEnds /\ NoStuckConnect /\ NoDeafOffice /\ pendingFrame \in {NoRequest, request}
  BY DEF LinkInit, ProxyInit, Init, SocketEnds, NoStuckConnect, NoDeafOffice
<1>3. OpenAnswers /\ OneConnectAnswer
  BY DEF LinkInit, ProxyInit, OpenAnswers, OneConnectAnswer
<1> QED BY <1>1, <1>2, <1>3 DEF LinkInvariant

\* A hangup (closeBoth) of a connection that was not closed before leaves no
\* upstream socket that opens; one that was closed before changes nothing.
LEMMA Hangups ==
  ASSUME ProxyTypeOK, NEW u \in Upstreams, NEW t \in BOOLEAN, Hangup(u, t)
  PROVE  /\ closed' = TRUE /\ handshake' \in BOOLEAN /\ orphaned' \in BOOLEAN
         /\ upstream' \in Upstreams
         /\ closed => upstream' = u /\ orphaned' = orphaned
         /\ ~closed => /\ upstream' = CloseUpstream(u) /\ upstream' \notin {"connecting", "open"}
                       /\ (settings = "loading" => orphaned')
         /\ orphaned => orphaned'
<1>1. closed \in BOOLEAN /\ orphaned \in BOOLEAN
  BY ProxyTypes
<1>2. handshake' \in BOOLEAN /\ orphaned' \in BOOLEAN
  BY <1>1 DEF Hangup
<1> QED BY <1>1, <1>2 DEF Hangup, CloseUpstream, Upstreams

\* An error response goes to a request that had none, if the browser is there
\* to read it, and is the last thing the browser is sent.
LEMMA ErrorIsLast ==
  ASSUME LinkInvariant, NEW u \in Upstreams, NEW t \in BOOLEAN,
         NEW r \in Connects, request \in {r, NoRequest}, SendConnectError(r, u, t)
  PROVE  /\ browser' \in {"closing", "gone"} /\ (browser = "gone" => browser' = "gone")
         /\ responded' \in BOOLEAN /\ answers' \in [Connects -> Nat] /\ OneConnectAnswer'
         /\ Hangup(u, t)
<1>1. Hangup(u, t) /\ browser' = IF closed \/ browser = "gone" THEN browser ELSE "closing"
  BY DEF SendConnectError, CloseBoth
<1>2. browser' \in {"closing", "gone"} /\ (browser = "gone" => browser' = "gone")
  BY <1>1, ProxyTypes DEF LinkInvariant, SocketEnds
<1>3. responded' \in BOOLEAN
  BY ProxyTypes DEF SendConnectError, LinkInvariant
<1>4. answers' \in [Connects -> Nat] /\ OneConnectAnswer'
  <2>t. answers \in [Connects -> Nat] /\ OneConnectAnswer
    BY ProxyTypes DEF LinkInvariant
  <2>1. CASE Unanswered(r) /\ browser = "open"
    <3>1. answers[r] = 0
      BY <2>1, <2>t DEF LinkInvariant, OpenAnswers, Unanswered
    <3>2. answers' = [answers EXCEPT ![r] = 1]
      BY <2>1, <3>1, <2>t DEF SendConnectError, Deliver
    <3> QED BY <2>t, <3>2 DEF OneConnectAnswer
  <2>2. CASE ~(Unanswered(r) /\ browser = "open")
    BY <2>2, <2>t DEF SendConnectError, Deliver, OneConnectAnswer
  <2> QED BY <2>1, <2>2
<1> QED BY <1>1, <1>2, <1>3, <1>4

\* A handler that hangs up and leaves the browser's socket shut: what is left
\* to show is about the frame that waits.
LEMMA HangupKeeps ==
  ASSUME LinkInvariant, ProxyTypeOK', OneConnectAnswer', browser' \in {"closing", "gone"},
         NEW u \in Upstreams, NEW t \in BOOLEAN, Hangup(u, t), settings' = settings,
         u = upstream \/ u \in {"aborting", "closing", "closed"} \/ (u = "open" /\ upstream = "connecting"),
         upstream \in {"open", "closing", "closed"} => u \in {upstream, "closing", "closed"},
         upstream = "none" => u = "none",
         upstreamReady' = upstreamReady \/ u = "open", u = "open" => upstreamReady',
         downlinks' = downlinks \/ u = "open",
         pendingFrame' \in {NoRequest, request'}, NoStuckConnect'
  PROVE  LinkInvariant'
<1>1. SocketEnds'
  <2>1. upstream' \in {u, CloseUpstream(u)}
    BY DEF Hangup
  <2> QED BY <2>1, Hangups DEF LinkInvariant, SocketEnds, CloseUpstream, Upstreams
<1>2. NoDeafOffice'
  <2>1. downlinks' # {} => upstream' \in {"open", "closing", "closed"}
    BY <1>1 DEF SocketEnds
  <2>2. upstream' = "open" => orphaned'
    BY <1>1 DEF SocketEnds, Hangup
  <2> QED BY <2>1, <2>2 DEF NoDeafOffice
<1>3. OpenAnswers' \/ browser' # "open"
  OBVIOUS
<1> QED BY <1>1, <1>2, <1>3 DEF LinkInvariant

\* A handler that leaves the browser's socket, what was closed and what was
\* answered alone.
LEMMA QuietKeeps ==
  ASSUME LinkInvariant, ProxyTypeOK', SocketEnds', UNCHANGED <<browser, closed, orphaned, responded, answers>>,
         pendingFrame' \in {NoRequest, request'}, NoStuckConnect', NoDeafOffice',
         browser = "open" => OpenAnswers'
  PROVE  LinkInvariant'
BY DEF LinkInvariant, OneConnectAnswer

-----------------------------------------------------------------------------
(* The handlers of the proxy.                                              *)

\* The Studio's settings arrive, or the set-up fails, before anything is sent.
LEMMA SettingsKeep ==
  ASSUME LinkInvariant, SettingsLoaded \/ SetupFails, UNCHANGED vars PROVE LinkInvariant'
<1>1. downlinks' = downlinks /\ Unchanged /\ UNCHANGED <<upstreamReady, request, pendingFrame, forwarded>>
  BY DEF vars, SettingsLoaded, SetupFails
<1>2. ProxyTypeOK'
  <2>1. handshake' \in BOOLEAN
    BY ProxyTypes DEF LinkInvariant, SettingsLoaded, SetupFails
  <2>2. upstream' \in Upstreams /\ settings' \in {"loaded", "failed"} /\ setupError' \in {"none", "timeout", "other"}
    BY ProxyTypes DEF LinkInvariant, SettingsLoaded, SetupFails, Upstreams
  <2>3. /\ upstreamReady' \in BOOLEAN /\ responded' \in BOOLEAN
        /\ closed' \in BOOLEAN /\ orphaned' \in BOOLEAN
    BY <1>1, ProxyTypes DEF LinkInvariant, Unchanged
  <2> QED BY <1>1, <2>1, <2>2, <2>3, ProxyTypes DEF LinkInvariant, Unchanged, ProxyTypeOK, Upstreams
<1>3. SocketEnds' /\ NoStuckConnect' /\ NoDeafOffice' /\ pendingFrame' \in {NoRequest, request'}
  BY <1>1 DEF LinkInvariant, SocketEnds, NoStuckConnect, NoDeafOffice, Usable, Unchanged, SettingsLoaded, SetupFails
<1>4. browser = "open" => OpenAnswers'
  BY <1>1 DEF LinkInvariant, SocketEnds, OpenAnswers, Unchanged, SettingsLoaded, SetupFails
<1> QED BY <1>1, <1>2, <1>3, <1>4, QuietKeeps DEF Unchanged

\* The handshake with the upstream takes too long.
LEMMA TimeoutKeeps ==
  ASSUME LinkInvariant, HandshakeTimesOut, UNCHANGED vars PROVE LinkInvariant'
<1> DEFINE u == CloseUpstream(upstream)
<1>t. downlinks' = downlinks /\ UNCHANGED <<settings, upstreamReady, request, pendingFrame, forwarded>>
      /\ setupError' = "timeout" /\ u \in Upstreams /\ FALSE \in BOOLEAN
      /\ u \notin {"connecting", "open"}
  BY ProxyTypes DEF vars, HandshakeTimesOut, LinkInvariant, CloseUpstream, Upstreams
<1>1. CASE request # NoRequest
  <2>1. request \in Connects /\ SendConnectError(request, u, FALSE)
    BY <1>1, ProxyTypes DEF HandshakeTimesOut, LinkInvariant
  <2>2. /\ browser' \in {"closing", "gone"} /\ OneConnectAnswer' /\ Hangup(u, FALSE)
        /\ responded' \in BOOLEAN /\ answers' \in [Connects -> Nat]
    BY <1>t, <2>1, ErrorIsLast
  <2>3. ProxyTypeOK'
    <3>1. closed' \in BOOLEAN /\ handshake' \in BOOLEAN /\ orphaned' \in BOOLEAN /\ upstream' \in Upstreams
      BY <1>t, <2>2, Hangups DEF LinkInvariant
    <3>2. upstreamReady' \in BOOLEAN
      BY <1>t, ProxyTypes DEF LinkInvariant
    <3> QED BY <1>t, <2>2, <3>1, <3>2, ProxyTypes DEF LinkInvariant, ProxyTypeOK, Upstreams
  <2>4. NoStuckConnect' /\ pendingFrame' \in {NoRequest, request'}
    <3>1. upstream' \in {u, CloseUpstream(u)}
      BY <2>2 DEF Hangup
    <3> QED BY <1>t, <3>1 DEF LinkInvariant, NoStuckConnect, Usable, CloseUpstream
  <2> QED BY <1>t, <2>2, <2>3, <2>4, HangupKeeps DEF CloseUpstream, LinkInvariant, SocketEnds
<1>2. CASE request = NoRequest
  <2>1. upstream' = u /\ handshake' = FALSE /\ Unchanged
    BY <1>2 DEF HandshakeTimesOut
  <2>2. ProxyTypeOK'
    <3>1. /\ upstreamReady' \in BOOLEAN /\ responded' \in BOOLEAN /\ handshake' \in BOOLEAN
          /\ closed' \in BOOLEAN /\ orphaned' \in BOOLEAN
      BY <1>t, <2>1, ProxyTypes DEF LinkInvariant, Unchanged
    <3> QED BY <1>t, <2>1, <3>1, ProxyTypes DEF LinkInvariant, Unchanged, ProxyTypeOK, Upstreams
  <2>3. SocketEnds' /\ NoStuckConnect' /\ NoDeafOffice' /\ pendingFrame' \in {NoRequest, request'}
    BY <1>t, <2>1 DEF LinkInvariant, SocketEnds, NoStuckConnect, NoDeafOffice, Usable, Unchanged, CloseUpstream
  <2>4. browser = "open" => OpenAnswers'
    BY <1>t, <1>2, <2>1 DEF LinkInvariant, OpenAnswers, Unchanged, CloseUpstream
  <2> QED BY <2>1, <2>2, <2>3, <2>4, QuietKeeps DEF Unchanged
<1> QED BY <1>1, <1>2

\* The socket to the upstream fails.
LEMMA FailureKeeps ==
  ASSUME LinkInvariant, UpstreamFails, UNCHANGED vars PROVE LinkInvariant'
<1> DEFINE u == IF upstream = "open" THEN "closing" ELSE "closed"
<1>t. /\ downlinks' = downlinks /\ UNCHANGED <<settings, upstreamReady, request, pendingFrame>>
      /\ forwarded' = {} /\ u \in Upstreams /\ FALSE \in BOOLEAN
      /\ u \in {"closing", "closed"} /\ upstream \in {"connecting", "aborting", "open"}
      /\ ReportFailure(u)
  BY DEF vars, UpstreamFails, Upstreams
<1> HIDE DEF u
<1>1. CASE request # NoRequest
  <2>1. request \in Connects /\ SendConnectError(request, u, FALSE) /\ setupError' = setupError
    BY <1>1, <1>t, ProxyTypes DEF ReportFailure, LinkInvariant
  <2>2. /\ browser' \in {"closing", "gone"} /\ OneConnectAnswer' /\ Hangup(u, FALSE)
        /\ responded' \in BOOLEAN /\ answers' \in [Connects -> Nat]
    BY <1>t, <2>1, ErrorIsLast
  <2>3. ProxyTypeOK'
    <3>1. closed' \in BOOLEAN /\ handshake' \in BOOLEAN /\ orphaned' \in BOOLEAN /\ upstream' \in Upstreams
      BY <1>t, <2>2, Hangups DEF LinkInvariant
    <3>2. upstreamReady' \in BOOLEAN
      BY <1>t, ProxyTypes DEF LinkInvariant
    <3> QED BY <1>t, <2>1, <2>2, <3>1, <3>2, ProxyTypes DEF LinkInvariant, ProxyTypeOK, Upstreams
  <2>4. NoStuckConnect' /\ pendingFrame' \in {NoRequest, request'}
    <3>1. upstream' \in {u, CloseUpstream(u)}
      BY <2>2 DEF Hangup
    <3> QED BY <1>t, <3>1 DEF LinkInvariant, NoStuckConnect, Usable, CloseUpstream
  <2> QED BY <1>t, <2>2, <2>3, <2>4, HangupKeeps
<1>2. CASE request = NoRequest
  <2>1. upstream' = u /\ handshake' = FALSE /\ Unchanged /\ NoteError("other")
    BY <1>2, <1>t DEF ReportFailure
  <2>2. ProxyTypeOK'
    <3>1. /\ upstreamReady' \in BOOLEAN /\ responded' \in BOOLEAN /\ handshake' \in BOOLEAN
          /\ closed' \in BOOLEAN /\ orphaned' \in BOOLEAN
      BY <1>t, <2>1, ProxyTypes DEF LinkInvariant, Unchanged
    <3>2. setupError' \in {"none", "timeout", "other"}
      BY <2>1, ProxyTypes DEF NoteError, LinkInvariant
    <3> QED BY <1>t, <2>1, <3>1, <3>2, ProxyTypes DEF LinkInvariant, Unchanged, ProxyTypeOK, Upstreams
  <2>3. SocketEnds' /\ NoStuckConnect' /\ NoDeafOffice' /\ pendingFrame' \in {NoRequest, request'}
    BY <1>t, <2>1 DEF LinkInvariant, SocketEnds, NoStuckConnect, NoDeafOffice, Usable, Unchanged
  <2>4. setupError' # "none"
    BY <2>1 DEF NoteError
  <2>5. browser = "open" => OpenAnswers'
    BY <1>t, <1>2, <2>1, <2>4 DEF LinkInvariant, OpenAnswers, Unchanged
  <2> QED BY <2>1, <2>2, <2>3, <2>5, QuietKeeps DEF Unchanged
<1> QED BY <1>1, <1>2

\* A connect frame goes upstream, or is refused for want of a token.
LEMMA ForwardKeeps ==
  ASSUME LinkInvariant, NEW c \in Connects, NEW r \in Connects, request \in {r, NoRequest}, request' = r,
         NEW u \in Upstreams, NEW t \in BOOLEAN, Forward(c, r, u, t), UNCHANGED <<settings, setupError>>,
         upstreamReady' \in BOOLEAN, u = "open" /\ upstreamReady', upstream \in {"open", "connecting"},
         upstreamReady => upstreamReady',
         browser = "open" => answers[c] = 0 /\ ~responded,
         downlinks' = downlinks \/ upstream = "connecting",
         pendingFrame' = NoRequest
  PROVE  LinkInvariant'
<1>1. CASE /\ forwarded' = forwarded \cup {c} /\ upstream' = u /\ handshake' = t /\ Unchanged
  <2>1. ProxyTypeOK'
    <3>1. responded' \in BOOLEAN /\ handshake' \in BOOLEAN /\ closed' \in BOOLEAN /\ orphaned' \in BOOLEAN
      BY <1>1, ProxyTypes DEF LinkInvariant, Unchanged
    <3> QED BY <1>1, <3>1, ProxyTypes DEF LinkInvariant, Unchanged, ProxyTypeOK, Upstreams
  <2>2. SocketEnds' /\ NoStuckConnect' /\ NoDeafOffice'
    BY <1>1 DEF LinkInvariant, SocketEnds, NoStuckConnect, NoDeafOffice, Unchanged
  <2>3. browser = "open" => OpenAnswers'
    BY <1>1, ProxyAssumption DEF LinkInvariant, OpenAnswers, Unchanged
  <2> QED BY <1>1, <2>1, <2>2, <2>3, QuietKeeps DEF Unchanged
<1>2. CASE SendConnectError(r, u, t) /\ UNCHANGED forwarded
  <2>1. /\ browser' \in {"closing", "gone"} /\ OneConnectAnswer' /\ Hangup(u, t)
        /\ responded' \in BOOLEAN /\ answers' \in [Connects -> Nat]
    BY <1>2, ErrorIsLast
  <2>2. ProxyTypeOK'
    <3>1. closed' \in BOOLEAN /\ handshake' \in BOOLEAN /\ orphaned' \in BOOLEAN /\ upstream' \in Upstreams
      BY <2>1, Hangups DEF LinkInvariant
    <3> QED BY <1>2, <2>1, <3>1, ProxyTypes DEF LinkInvariant, ProxyTypeOK, Upstreams
  <2>3. NoStuckConnect' /\ pendingFrame' \in {NoRequest, request'}
    BY DEF NoStuckConnect
  <2> QED BY <1>2, <2>1, <2>2, <2>3, HangupKeeps
<1> QED BY <1>1, <1>2 DEF Forward

\* The first connect frame.
LEMMA FirstKeeps ==
  ASSUME LinkInvariant, NEW c \in Connects, FirstConnect(c), UNCHANGED vars PROVE LinkInvariant'
<1>t. /\ downlinks' = downlinks /\ UNCHANGED <<settings, upstreamReady, setupError>>
      /\ request = NoRequest /\ request' = c /\ pendingFrame = NoRequest
      /\ upstream \in Upstreams /\ handshake \in BOOLEAN /\ upstreamReady \in BOOLEAN
  BY ProxyTypes DEF vars, FirstConnect, LinkInvariant
<1>1. CASE setupError # "none"
  <2>1. SendConnectError(c, upstream, handshake) /\ UNCHANGED <<pendingFrame, forwarded>>
    BY <1>1 DEF FirstConnect
  <2>2. /\ browser' \in {"closing", "gone"} /\ OneConnectAnswer' /\ Hangup(upstream, handshake)
        /\ responded' \in BOOLEAN /\ answers' \in [Connects -> Nat]
    BY <1>t, <2>1, ErrorIsLast
  <2>3. ProxyTypeOK'
    <3>1. closed' \in BOOLEAN /\ handshake' \in BOOLEAN /\ orphaned' \in BOOLEAN /\ upstream' \in Upstreams
      BY <1>t, <2>2, Hangups DEF LinkInvariant
    <3> QED BY <1>t, <2>1, <2>2, <3>1, ProxyTypes DEF LinkInvariant, ProxyTypeOK, Upstreams
  <2>4. NoStuckConnect' /\ pendingFrame' \in {NoRequest, request'}
    BY <1>t, <2>1 DEF NoStuckConnect
  <2>5. upstream = "open" => upstreamReady
    BY DEF LinkInvariant, SocketEnds
  <2> QED BY <1>t, <2>2, <2>3, <2>4, <2>5, HangupKeeps
<1>2. CASE setupError = "none" /\ Usable
  <2>1. Forward(c, c, upstream, handshake) /\ UNCHANGED pendingFrame
    BY <1>2 DEF FirstConnect
  <2>2. browser = "open" => answers[c] = 0
    BY <1>t DEF LinkInvariant, OpenAnswers
  <2>3. browser = "open" => ~responded
    BY <1>t DEF LinkInvariant, OpenAnswers
  <2> QED BY <1>t, <1>2, <2>1, <2>2, <2>3, ForwardKeeps DEF Usable
<1>3. CASE setupError = "none" /\ ~Usable
  <2>1. pendingFrame' = c /\ Unchanged /\ UNCHANGED <<upstream, handshake, forwarded>>
    BY <1>3 DEF FirstConnect
  <2>2. ProxyTypeOK'
    <3>1. /\ upstreamReady' \in BOOLEAN /\ responded' \in BOOLEAN /\ handshake' \in BOOLEAN
          /\ closed' \in BOOLEAN /\ orphaned' \in BOOLEAN
      BY <1>t, <2>1, ProxyTypes DEF LinkInvariant, Unchanged
    <3> QED BY <1>t, <2>1, <3>1, ProxyTypes DEF LinkInvariant, Unchanged, ProxyTypeOK, Upstreams
  <2>3. SocketEnds' /\ NoStuckConnect' /\ NoDeafOffice' /\ pendingFrame' \in {NoRequest, request'}
    BY <1>t, <1>3, <2>1 DEF LinkInvariant, SocketEnds, NoStuckConnect, NoDeafOffice, Usable, Unchanged
  <2>4. browser = "open" => OpenAnswers'
    BY <1>t, <1>3, <2>1 DEF LinkInvariant, SocketEnds, OpenAnswers, Usable, Unchanged
  <2> QED BY <2>1, <2>2, <2>3, <2>4, QuietKeeps DEF Unchanged
<1> QED BY <1>1, <1>2, <1>3

\* A connect frame sent again.
LEMMA AgainKeeps ==
  ASSUME LinkInvariant, NEW c \in Connects, ConnectAgain(c), UNCHANGED vars PROVE LinkInvariant'
<1>1. /\ downlinks' = downlinks /\ UNCHANGED <<settings, upstreamReady, setupError, request>>
      /\ request \in Connects /\ upstream = "open" /\ upstreamReady /\ ~responded /\ answers[c] = 0
      /\ pendingFrame' = NoRequest /\ Forward(c, request, upstream, handshake)
      /\ upstream \in Upstreams /\ handshake \in BOOLEAN /\ upstreamReady \in BOOLEAN
  BY ProxyTypes DEF vars, ConnectAgain, Usable, LinkInvariant
<1> QED BY <1>1, ForwardKeeps

\* A frame that costs the connection, and the end of the browser's socket.
LEMMA BrowserKeeps ==
  ASSUME LinkInvariant, FrameRefused \/ BrowserGone, UNCHANGED vars PROVE LinkInvariant'
<1>t. /\ downlinks' = downlinks
      /\ UNCHANGED <<settings, upstreamReady, setupError, request, responded, pendingFrame, forwarded, answers>>
      /\ upstream \in Upstreams /\ handshake \in BOOLEAN /\ upstreamReady \in BOOLEAN
      /\ responded \in BOOLEAN /\ Hangup(upstream, handshake)
  BY ProxyTypes DEF vars, FrameRefused, BrowserGone, CloseBoth, LinkInvariant
<1>1. browser' \in {"closing", "gone"}
  BY ProxyTypes DEF FrameRefused, BrowserGone, CloseBoth, LinkInvariant, SocketEnds
<1>2. ProxyTypeOK'
  <2>1. closed' \in BOOLEAN /\ handshake' \in BOOLEAN /\ orphaned' \in BOOLEAN /\ upstream' \in Upstreams
    BY <1>t, Hangups DEF LinkInvariant
  <2> QED BY <1>t, <1>1, <2>1, ProxyTypes DEF LinkInvariant, ProxyTypeOK, Upstreams
<1>3. NoStuckConnect' /\ OneConnectAnswer' /\ pendingFrame' \in {NoRequest, request'}
  <2>1. upstream' \in {upstream, CloseUpstream(upstream)}
    BY <1>t DEF Hangup
  <2> QED BY <1>t, <2>1 DEF LinkInvariant, NoStuckConnect, OneConnectAnswer, Usable, CloseUpstream
<1>4. upstream = "open" => upstreamReady
  BY DEF LinkInvariant, SocketEnds
<1> QED BY <1>t, <1>1, <1>2, <1>3, <1>4, HangupKeeps

\* The upstream socket opens, and the adapter has a downlink.
LEMMA OpensKeep ==
  ASSUME LinkInvariant, Opens PROVE LinkInvariant'
<1>t. /\ UNCHANGED <<settings, setupError, request>> /\ upstream = "connecting" /\ upstreamReady' = TRUE
      /\ pendingFrame' = NoRequest /\ MaybeForwardPending
      /\ "open" \in Upstreams /\ FALSE \in BOOLEAN /\ TRUE \in BOOLEAN
  BY DEF Opens, UpstreamOpens, MaybeForwardPending, Upstreams
<1>1. CASE pendingFrame # NoRequest
  <2>1. pendingFrame \in Connects /\ request = pendingFrame
    BY <1>1, ProxyTypes DEF LinkInvariant
  <2>2. Forward(pendingFrame, request, "open", FALSE)
    BY <1>1, <1>t DEF MaybeForwardPending
  <2>3. browser = "open" => answers[pendingFrame] = 0 /\ ~responded
    BY <1>1, <2>1, ProxyAssumption DEF LinkInvariant, OpenAnswers
  <2> QED BY <1>t, <2>1, <2>2, <2>3, ForwardKeeps
<1>2. CASE pendingFrame = NoRequest
  <2>1. upstream' = "open" /\ handshake' = FALSE /\ Unchanged /\ UNCHANGED forwarded
    BY <1>2, <1>t DEF MaybeForwardPending
  <2>2. ProxyTypeOK'
    <3>1. /\ upstreamReady' \in BOOLEAN /\ responded' \in BOOLEAN /\ handshake' \in BOOLEAN
          /\ closed' \in BOOLEAN /\ orphaned' \in BOOLEAN
      BY <1>t, <2>1, ProxyTypes DEF LinkInvariant, Unchanged
    <3> QED BY <1>t, <2>1, <3>1, ProxyTypes DEF LinkInvariant, Unchanged, ProxyTypeOK, Upstreams
  <2>3. SocketEnds' /\ NoStuckConnect' /\ NoDeafOffice' /\ pendingFrame' \in {NoRequest, request'}
    BY <1>t, <2>1 DEF LinkInvariant, SocketEnds, NoStuckConnect, NoDeafOffice, Unchanged
  <2>4. browser = "open" => OpenAnswers'
    BY <1>t, <2>1 DEF LinkInvariant, OpenAnswers, Unchanged
  <2> QED BY <2>1, <2>2, <2>3, <2>4, QuietKeeps DEF Unchanged
<1> QED BY <1>1, <1>2

\* A request is answered once, by the gateway or by the proxy at its close,
\* while the browser's socket stays as it is.
LEMMA AnswerKeeps ==
  ASSUME LinkInvariant, NEW c \in Connects, Deliver(c), c \in forwarded \/ (c = request /\ ~responded),
         responded' \in BOOLEAN, responded => responded', c = request => responded',
         responded' = responded \/ c = request,
         forwarded' \subseteq forwarded \ {c},
         upstream \in {"open", "closing"}, upstream' \in {upstream, "closed"}, handshake' \in BOOLEAN,
         UNCHANGED <<browser, settings, upstreamReady, setupError, request, pendingFrame,
                     closed, orphaned, downlinks>>
  PROVE  LinkInvariant'
<1>t. answers \in [Connects -> Nat] /\ OneConnectAnswer /\ forwarded \subseteq Connects
  BY ProxyTypes DEF LinkInvariant
<1>1. browser = "open" => answers[c] = 0 /\ request # NoRequest
  BY ProxyAssumption DEF LinkInvariant, OpenAnswers
<1>2. answers' = IF browser = "open" THEN [answers EXCEPT ![c] = 1] ELSE answers
  <2>1. CASE browser = "open"
    BY <1>1, <1>t, <2>1 DEF Deliver
  <2>2. CASE browser # "open"
    BY <2>2 DEF Deliver
  <2> QED BY <2>1, <2>2
<1>3. answers' \in [Connects -> Nat] /\ OneConnectAnswer'
  BY <1>2, <1>t DEF OneConnectAnswer
<1>4. ProxyTypeOK'
  <2>1. upstreamReady' \in BOOLEAN /\ closed' \in BOOLEAN /\ orphaned' \in BOOLEAN
    BY ProxyTypes DEF LinkInvariant
  <2>2. forwarded' \subseteq Connects
    BY <1>t
  <2> QED BY <1>3, <2>1, <2>2, ProxyTypes DEF LinkInvariant, ProxyTypeOK, Upstreams
<1>5. SocketEnds' /\ NoStuckConnect' /\ NoDeafOffice' /\ pendingFrame' \in {NoRequest, request'}
  BY DEF LinkInvariant, SocketEnds, NoStuckConnect, NoDeafOffice, Usable
<1>6. browser' = "open" => OpenAnswers'
  <2> SUFFICES ASSUME browser = "open" PROVE OpenAnswers'
    OBVIOUS
  <2>1. pendingFrame = NoRequest
    BY DEF LinkInvariant, OpenAnswers
  <2>2. \A d \in Connects \ {c} : answers'[d] = answers[d]
    BY <1>2, <1>t
  <2>3. \A d \in forwarded' : answers'[d] = 0
    BY <2>2, <1>t DEF LinkInvariant, OpenAnswers
  <2>4. request' # NoRequest /\ ~responded' => answers'[request'] = 0
    BY <2>2, ProxyTypes DEF LinkInvariant, OpenAnswers
  <2> QED BY <1>1, <2>1, <2>3, <2>4 DEF OpenAnswers
<1> QED BY <1>3, <1>4, <1>5, <1>6 DEF LinkInvariant

\* The gateway answers a forwarded connect.
LEMMA GatewayKeeps ==
  ASSUME LinkInvariant, GatewayAnswers, UNCHANGED vars PROVE LinkInvariant'
<1>1. PICK c \in forwarded : /\ forwarded' = forwarded \ {c}
                            /\ responded' = (responded \/ c = request)
                            /\ Deliver(c)
  BY DEF GatewayAnswers
<1>2. c \in Connects /\ responded' \in BOOLEAN /\ responded \in BOOLEAN /\ handshake' \in BOOLEAN
  BY <1>1, ProxyTypes DEF LinkInvariant, GatewayAnswers
<1>3. upstream \in {"open", "closing"} /\ upstream' = upstream
      /\ UNCHANGED <<browser, settings, upstreamReady, setupError, request, pendingFrame,
                     closed, orphaned, downlinks>>
  BY DEF GatewayAnswers, vars
<1>4. /\ responded => responded'
      /\ c = request => responded'
      /\ responded' = responded \/ c = request
      /\ forwarded' \subseteq forwarded \ {c}
      /\ upstream' \in {upstream, "closed"}
  BY <1>1, <1>2, <1>3
<1> QED BY <1>1, <1>2, <1>3, <1>4, AnswerKeeps

\* The upstream closes, and the browser with it.
LEMMA CloseKeeps ==
  ASSUME LinkInvariant, UpstreamCloses, UNCHANGED vars PROVE LinkInvariant'
<1>t. /\ downlinks' = downlinks /\ UNCHANGED <<settings, upstreamReady, request, pendingFrame>>
      /\ forwarded' = {} /\ upstream \in {"open", "closing"} /\ "closed" \in Upstreams /\ FALSE \in BOOLEAN
  BY DEF vars, UpstreamCloses, Upstreams
<1>1. CASE request = NoRequest
  <2>1. NoteError("other") /\ upstream' = "closed" /\ handshake' = FALSE /\ Unchanged
    BY <1>1 DEF UpstreamCloses, Unanswered
  <2>2. ProxyTypeOK'
    <3>1. /\ upstreamReady' \in BOOLEAN /\ responded' \in BOOLEAN /\ handshake' \in BOOLEAN
          /\ closed' \in BOOLEAN /\ orphaned' \in BOOLEAN
      BY <1>t, <2>1, ProxyTypes DEF LinkInvariant, Unchanged
    <3>2. setupError' \in {"none", "timeout", "other"}
      BY <2>1, ProxyTypes DEF NoteError, LinkInvariant
    <3> QED BY <1>t, <2>1, <3>1, <3>2, ProxyTypes DEF LinkInvariant, Unchanged, ProxyTypeOK, Upstreams
  <2>3. SocketEnds' /\ NoStuckConnect' /\ NoDeafOffice' /\ pendingFrame' \in {NoRequest, request'}
    BY <1>t, <2>1 DEF LinkInvariant, SocketEnds, NoStuckConnect, NoDeafOffice, Usable, Unchanged
  <2>4. setupError' # "none"
    BY <2>1 DEF NoteError
  <2>5. browser = "open" => OpenAnswers'
    BY <1>t, <1>1, <2>1, <2>4 DEF LinkInvariant, OpenAnswers, Unchanged
  <2> QED BY <2>1, <2>2, <2>3, <2>5, QuietKeeps DEF Unchanged
<1>2. CASE Unanswered(request)
  <2>1. /\ request \in Connects /\ ~responded /\ responded' = TRUE /\ Deliver(request)
        /\ upstream' = "closed" /\ handshake' = FALSE
        /\ UNCHANGED <<browser, closed, orphaned, setupError>>
    BY <1>2, ProxyTypes DEF UpstreamCloses, Unanswered, LinkInvariant
  <2>2. responded' \in BOOLEAN /\ handshake' \in BOOLEAN
    BY <2>1
  <2> QED BY <1>t, <2>1, <2>2, AnswerKeeps
<1>3. CASE request # NoRequest /\ ~Unanswered(request)
  <2>1. CloseBoth("closed", FALSE) /\ UNCHANGED <<setupError, responded, answers>>
    BY <1>3 DEF UpstreamCloses
  <2>2. Hangup("closed", FALSE) /\ browser' \in {"closing", "gone"}
    BY <2>1, ProxyTypes DEF CloseBoth, LinkInvariant, SocketEnds
  <2>3. ProxyTypeOK'
    <3>1. closed' \in BOOLEAN /\ handshake' \in BOOLEAN /\ orphaned' \in BOOLEAN /\ upstream' \in Upstreams
      BY <1>t, <2>2, Hangups DEF LinkInvariant
    <3>2. upstreamReady' \in BOOLEAN /\ responded' \in BOOLEAN
      BY <1>t, <2>1, ProxyTypes DEF LinkInvariant
    <3> QED BY <1>t, <2>1, <2>2, <3>1, <3>2, ProxyTypes DEF LinkInvariant, ProxyTypeOK, Upstreams
  <2>4. NoStuckConnect' /\ OneConnectAnswer' /\ pendingFrame' \in {NoRequest, request'}
    <3>1. upstream' = "closed"
      BY <2>2 DEF Hangup, CloseUpstream
    <3> QED BY <1>t, <2>1, <3>1 DEF LinkInvariant, NoStuckConnect, OneConnectAnswer, Usable
  <2> QED BY <1>t, <2>2, <2>3, <2>4, HangupKeeps
<1> QED BY <1>1, <1>2, <1>3

\* What does not touch the proxy may only take downlinks away.
LEMMA OthersKeep ==
  ASSUME LinkInvariant, UNCHANGED proxy, downlinks' \subseteq downlinks PROVE LinkInvariant'
<1>1. ProxyTypeOK' /\ (pendingFrame \in {NoRequest, request})' /\ (browser = "open" => OpenAnswers)'
      /\ OneConnectAnswer' /\ NoStuckConnect'
  BY DEF proxy, LinkInvariant, ProxyTypeOK, OpenAnswers, OneConnectAnswer, NoStuckConnect, Usable
<1>2. SocketEnds' /\ NoDeafOffice'
  BY DEF proxy, LinkInvariant, SocketEnds, NoDeafOffice
<1> QED BY <1>1, <1>2 DEF LinkInvariant

\* Every step keeps the invariant of the link.
LEMMA LinkStep == LinkInvariant /\ [LinkNext]_linkVars => LinkInvariant'
<1> SUFFICES ASSUME LinkInvariant, [LinkNext]_linkVars PROVE LinkInvariant'
  OBVIOUS
<1>1. CASE Opens
  BY <1>1, OpensKeep
<1>2. CASE AdapterCloses
  BY <1>2, OthersKeep DEF AdapterCloses, Close
<1>3. CASE ProxySeesClose
  BY <1>3, CloseKeeps DEF ProxySeesClose
<1>4. CASE AdapterAnswers
  BY <1>4, GatewayKeeps DEF AdapterAnswers
<1>5. CASE FromOffice
  <2>1. downlinks' = downlinks /\ UNCHANGED proxy
    BY <1>5 DEF FromOffice, ChatAbort, ChatSend, ChatSendFails, Resolve
  <2> QED BY <2>1, OthersKeep
<1>6. CASE InHost
  <2>1. downlinks' \subseteq downlinks /\ UNCHANGED proxy
    BY <1>6 DEF InHost, HostSteps, SessionCreated, SessionDisposed, TurnStarts, AssistantSpeaks, ToolCalled,
                TodosWritten, ApprovalAsked, ApprovalDecided, TurnEnds, OthersAnswer, Unmount, Quiet
  <2> QED BY <2>1, OthersKeep
<1>7. CASE InProxy
  BY <1>7, SettingsKeep, TimeoutKeeps, FailureKeeps, FirstKeeps, AgainKeeps, BrowserKeeps DEF InProxy
<1>8. CASE UNCHANGED linkVars
  BY <1>8, OthersKeep DEF linkVars, vars
<1> QED BY <1>1, <1>2, <1>3, <1>4, <1>5, <1>6, <1>7, <1>8 DEF LinkNext

\* It holds in every state.
LEMMA LinkAlways == LinkSpec => []LinkInvariant
BY LinkInitially, LinkStep, PTL DEF LinkSpec

\* Behind the proxy the adapter does what it does on its own.
THEOREM LinkIsAdapter == LinkSpec => Spec
<1>1. LinkInit => Init
  BY DEF LinkInit
<1>2. [LinkNext]_linkVars => [Next]_vars
  <2> SUFFICES ASSUME LinkNext \/ UNCHANGED linkVars PROVE Next \/ UNCHANGED vars
    OBVIOUS
  <2>1. Office \in Offices
    BY LinkAssumption
  <2>2. CASE Opens \/ AdapterCloses \/ FromOffice
    BY <2>1, <2>2 DEF Opens, AdapterCloses, FromOffice, Next, OfficeSteps
  <2>3. CASE InHost
    BY <2>3 DEF InHost, Next
  <2>4. CASE ProxySeesClose \/ AdapterAnswers \/ InProxy \/ UNCHANGED linkVars
    BY <2>4 DEF ProxySeesClose, AdapterAnswers, InProxy, linkVars
  <2> QED BY <2>2, <2>3, <2>4 DEF LinkNext
<1> QED BY <1>1, <1>2, PTL DEF LinkSpec, Spec

\* A connect request is answered once, however timer, error, close and the
\* gateway race.
THEOREM AnsweredOnce == LinkSpec => []OneConnectAnswer
<1>1. LinkInvariant => OneConnectAnswer
  BY DEF LinkInvariant
<1> QED BY <1>1, LinkAlways, PTL

\* No connect frame waits beside an upstream it could be sent to.
THEOREM NoneStuck == LinkSpec => []NoStuckConnect
<1>1. LinkInvariant => NoStuckConnect
  BY DEF LinkInvariant
<1> QED BY <1>1, LinkAlways, PTL

\* A downlink has a browser at its other end, or its close is on the way.
THEOREM NoneDeaf == LinkSpec => []NoDeafOffice
<1>1. LinkInvariant => NoDeafOffice
  BY DEF LinkInvariant
<1> QED BY <1>1, LinkAlways, PTL

\* The link stays well formed on both of its sides.
THEOREM LinkTypeCorrect == LinkSpec => []LinkTypeOK
<1>1. LinkInvariant /\ TypeOK => LinkTypeOK
  BY DEF LinkInvariant, LinkTypeOK
<1> QED BY <1>1, LinkAlways, LinkIsAdapter, TypeCorrect, PTL
=============================================================================
