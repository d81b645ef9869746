----------------------------- MODULE GatewayProxy -----------------------------
(***************************************************************************)
(* One connection of the Studio gateway proxy (apps/cq-office/server/      *)
(* gateway-proxy.js): a browser socket, the upstream socket opened for it  *)
(* once the settings are loaded, the connect frame that waits for that,    *)
(* and the handshake timer.  Each handler runs to its end on the event     *)
(* loop of the host server.                                                *)
(*                                                                         *)
(* The sockets are external: a socket that failed to open reports an error *)
(* and then its close in one go; one that was open and is closed reports   *)
(* the close later, and frames on their way still arrive until then.       *)
(***************************************************************************)
EXTENDS Naturals

CONSTANTS
    Connects,      \* ids of the connect requests the browser may send
    NoRequest

ASSUME ProxyAssumption == NoRequest \notin Connects

VARIABLES
    browser,       \* the browser's socket: open, closing, gone
    settings,      \* loading, loaded, failed
    upstream,      \* none, connecting, aborting, open, closing, closed
    upstreamReady, \* upstreamReady: the upstream socket has been open
    handshake,     \* upstreamHandshakeTimeoutId is running
    setupError,    \* pendingUpstreamSetupError: none, timeout, other
    request,       \* connectRequestId
    responded,     \* connectResponseSent
    pendingFrame,  \* pendingConnectFrame
    closed,        \* closed: closeBoth has run
    forwarded,     \* connect requests the gateway has and has not answered
    answers,       \* answers[c]: responses to c the browser was sent
    orphaned       \* closeBoth ran before the settings were there (history)

proxy == <<browser, settings, upstream, upstreamReady, handshake, setupError,
           request, responded, pendingFrame, closed, forwarded, answers, orphaned>>

ProxyTypeOK ==
    /\ browser \in {"open", "closing", "gone"}
    /\ settings \in {"loading", "loaded", "failed"}
    /\ upstream \in {"none", "connecting", "aborting", "open", "closing", "closed"}
    /\ {upstreamReady, handshake, responded, closed, orphaned} \subseteq BOOLEAN
    /\ setupError \in {"none", "timeout", "other"}
    /\ request \in Connects \cup {NoRequest} /\ pendingFrame \in Connects \cup {NoRequest}
    /\ forwarded \subseteq Connects /\ answers \in [Connects -> Nat]

ProxyInit ==
    /\ browser = "open" /\ settings = "loading" /\ upstream = "none"
    /\ upstreamReady = FALSE /\ handshake = FALSE /\ responded = FALSE
    /\ closed = FALSE /\ orphaned = FALSE
    /\ setupError = "none" /\ request = NoRequest /\ pendingFrame = NoRequest
    /\ forwarded = {} /\ answers = [c \in Connects |-> 0]

-----------------------------------------------------------------------------
(* Helpers, called with what the handler has set so far: r is the request, *)
(* u the upstream socket, t whether the timer runs.                        *)

Unchanged == UNCHANGED <<browser, closed, orphaned, responded, answers>>

LeaveUpstream(u) == u                                  \* seeded fault
CloseUpstream(u) == CASE u = "connecting" -> "aborting"
                      [] u = "open" -> "closing"
                      [] OTHER -> u

Hangup(u, t) ==
    /\ closed' = TRUE
    /\ upstream' = IF closed THEN u ELSE CloseUpstream(u)
    /\ handshake' = (closed /\ t)
    /\ orphaned' = (orphaned \/ (~closed /\ settings = "loading"))
CloseBoth(u, t) ==
    /\ Hangup(u, t)
    /\ browser' = IF closed \/ browser = "gone" THEN browser ELSE "closing"

Deliver(c) ==
    answers' = IF browser = "open" THEN [answers EXCEPT ![c] = @ + 1] ELSE answers

Requested(r) == r # NoRequest                          \* seeded fault
Unanswered(r) == r # NoRequest /\ ~responded
SendConnectError(r, u, t) ==
    /\ IF Unanswered(r)
       THEN responded' = TRUE /\ Deliver(r)
       ELSE UNCHANGED <<responded, answers>>
    /\ CloseBoth(u, t)

\* pendingUpstreamSetupError ||= error
NoteError(e) == setupError' = IF setupError = "none" THEN e ELSE setupError

\* forwardConnectFrame: the frame goes upstream with the host's token when it
\* has no credentials of its own, or is refused when there is no token.
Forward(c, r, u, t) ==
    \/ /\ forwarded' = forwarded \cup {c}
       /\ upstream' = u /\ handshake' = t
       /\ Unchanged
    \/ SendConnectError(r, u, t) /\ UNCHANGED forwarded

Usable == upstreamReady /\ upstream = "open"

-----------------------------------------------------------------------------
(* startUpstream and the upstream socket                                   *)

\* The settings are read, a socket is opened; nobody looks whether the
\* browser is still there.
SettingsLoaded ==
    /\ settings = "loading"
    /\ settings' = "loaded" /\ upstream' = "connecting" /\ handshake' = TRUE
    /\ Unchanged /\ UNCHANGED <<upstreamReady, setupError, request, pendingFrame, forwarded>>

\* The load fails, or the URL is missing, blocked or malformed: the error is
\* kept for a connect frame still to come.
SetupFails ==
    /\ settings = "loading"
    /\ settings' = "failed" /\ setupError' = "other"
    /\ Unchanged
    /\ UNCHANGED <<upstream, upstreamReady, handshake, request, pendingFrame, forwarded>>

HandshakeTimesOut ==
    /\ handshake
    /\ setupError' = "timeout"
    /\ LET u == CloseUpstream(upstream)
       IN IF request # NoRequest THEN SendConnectError(request, u, FALSE)
          ELSE upstream' = u /\ handshake' = FALSE /\ Unchanged
    /\ UNCHANGED <<settings, upstreamReady, request, pendingFrame, forwarded>>

\* maybeForwardPendingConnect, from the open handler.
MaybeForwardPending ==
    /\ IF pendingFrame = NoRequest
       THEN upstream' = "open" /\ handshake' = FALSE /\ Unchanged /\ UNCHANGED forwarded
       ELSE Forward(pendingFrame, request, "open", FALSE)
    /\ pendingFrame' = NoRequest
UpstreamOpens ==
    /\ upstream = "connecting"
    /\ upstreamReady' = TRUE
    /\ MaybeForwardPending
    /\ UNCHANGED <<settings, setupError, request>>

\* "error" of a socket: it fails to open, or breaks when open (its "close"
\* is then still to come).
NoteFailure(u) ==                                      \* seeded fault
    NoteError("other") /\ upstream' = u /\ handshake' = FALSE /\ Unchanged
ReportFailure(u) ==
    IF request = NoRequest
    THEN NoteError("other") /\ upstream' = u /\ handshake' = FALSE /\ Unchanged
    ELSE SendConnectError(request, u, FALSE) /\ UNCHANGED setupError
UpstreamFails ==
    /\ upstream \in {"connecting", "aborting", "open"}
    /\ ReportFailure(IF upstream = "open" THEN "closing" ELSE "closed")
    /\ forwarded' = {}
    /\ UNCHANGED <<settings, upstreamReady, request, pendingFrame>>

\* "close" of a socket that was open: the browser is told and, unlike after
\* an error, its socket stays open when the connect was still unanswered.
UpstreamCloses ==
    /\ upstream \in {"open", "closing"}
    /\ CASE request = NoRequest ->
              /\ NoteError("other") /\ upstream' = "closed" /\ handshake' = FALSE
              /\ Unchanged
         [] Unanswered(request) ->
              /\ responded' = TRUE /\ Deliver(request)
              /\ upstream' = "closed" /\ handshake' = FALSE
              /\ UNCHANGED <<browser, closed, orphaned, setupError>>
         [] OTHER ->
              CloseBoth("closed", FALSE) /\ UNCHANGED <<setupError, responded, answers>>
    /\ forwarded' = {}
    /\ UNCHANGED <<settings, upstreamReady, request, pendingFrame>>

GatewayAnswers ==
    /\ upstream \in {"open", "closing"}
    /\ \E c \in forwarded :
          /\ forwarded' = forwarded \ {c}
          /\ responded' = (responded \/ c = request)
          /\ Deliver(c)
    /\ UNCHANGED <<browser, settings, upstream, upstreamReady, handshake, setupError,
                   request, pendingFrame, closed, orphaned>>

-----------------------------------------------------------------------------
(* The browser socket                                                      *)

Sends == browser # "gone"       \* frames arrive while it is closing, too

\* The first frame: a connect.  It waits for the upstream, unless the
\* upstream has failed already or is open.
FirstConnect(c) ==
    /\ Sends /\ request = NoRequest
    /\ request' = c
    /\ CASE setupError # "none" ->
              /\ SendConnectError(c, upstream, handshake)
              /\ UNCHANGED <<pendingFrame, forwarded>>
         [] setupError = "none" /\ Usable ->
              Forward(c, c, upstream, handshake) /\ UNCHANGED pendingFrame
         [] OTHER ->
              /\ pendingFrame' = c
              /\ Unchanged /\ UNCHANGED <<upstream, handshake, forwarded>>
    /\ UNCHANGED <<settings, upstreamReady, setupError>>

\* A connect repeated with another id before the first is answered.
ConnectAgain(c) ==
    /\ Sends /\ request # NoRequest /\ Usable /\ ~responded
    /\ c # request /\ c \notin forwarded /\ answers[c] = 0
    /\ pendingFrame' = NoRequest
    /\ Forward(c, request, upstream, handshake)
    /\ UNCHANGED <<settings, upstreamReady, setupError, request>>

\* A frame that costs the connection: too large, too many, not JSON, not a
\* connect when that is due, or sent before the upstream is usable.  Any
\* other frame is passed on as it is (FramePasses; no state changes here).
FrameRefused ==
    /\ Sends
    /\ CloseBoth(upstream, handshake)
    /\ UNCHANGED <<settings, upstreamReady, setupError, request, responded, pendingFrame,
                   forwarded, answers>>
FramePasses == Sends /\ request # NoRequest /\ Usable

\* "close" or "error" of the browser's socket.
BrowserGone ==
    /\ browser # "gone"
    /\ browser' = "gone"
    /\ Hangup(upstream, handshake)
    /\ UNCHANGED <<settings, upstreamReady, setupError, request, responded, pendingFrame,
                   forwarded, answers>>

-----------------------------------------------------------------------------
(* Properties                                                              *)

\* However timer, error, close and the gateway's own answer race, a connect
\* request is answered at most once.
OneConnectAnswer == \A c \in Connects : answers[c] <= 1

\* Whichever comes first, the connect frame or the open upstream, the frame
\* is not left waiting beside an upstream it could be sent to.
NoStuckConnect == pendingFrame # NoRequest => ~Usable

\* A connect request is answered or its connection closed, unless the setup
\* of the upstream fails.
ConnectSettles ==
    (request # NoRequest) ~> (responded \/ closed \/ settings = "failed")
=============================================================================
