------------------------------ MODULE OfficeLink ------------------------------
(***************************************************************************)
(* One office behind the gateway proxy: GatewayProxy and OfficeAdapter     *)
(* composed.  The proxy's upstream socket is a downlink of the adapter;    *)
(* what the office sends are frames the proxy passes on.                   *)
(***************************************************************************)
EXTENDS OfficeAdapter, GatewayProxy

CONSTANT Office   \* the only office

ASSUME LinkAssumption == Offices = {Office}

linkVars == <<vars, proxy>>
LinkTypeOK == TypeOK /\ ProxyTypeOK
LinkInit == Init /\ ProxyInit

\* The adapter's side of the socket opens with the proxy's.
Opens == UpstreamOpens /\ Connect(Office)

\* The adapter sees the end of the socket on its own: a close frame, a lost
\* network; the proxy sees it when the adapter has, or because it asked for it.
AdapterCloses == Close(Office) /\ UNCHANGED proxy
ProxySeesClose ==
    /\ Office \notin downlinks \/ upstream = "closing"
    /\ UpstreamCloses /\ UNCHANGED vars
AdapterAnswers == Office \in downlinks /\ GatewayAnswers /\ UNCHANGED vars

FromOffice ==
    /\ FramePasses /\ Office \in downlinks
    /\ \/ \E a \in Agents : ChatAbort(Office, a)
       \/ \E a \in Agents, r \in Runs : ChatSend(Office, a, r)
       \/ \E a \in Agents, r \in Runs : ChatSendFails(Office, a, r)
       \/ \E i \in Asks, d \in Decisions : Resolve(Office, i, d)
    /\ UNCHANGED proxy
InHost ==
    /\ \/ \E a \in Agents : HostSteps(a)
       \/ \E i \in Asks : OthersAnswer(i)
       \/ Unmount
    /\ UNCHANGED proxy
InProxy ==
    /\ \/ SettingsLoaded
       \/ SetupFails
       \/ HandshakeTimesOut
       \/ UpstreamFails
       \/ \E c \in Connects : FirstConnect(c)
       \/ \E c \in Connects : ConnectAgain(c)
       \/ FrameRefused
       \/ BrowserGone
    /\ UNCHANGED vars

LinkNext ==
    \/ Opens \/ AdapterCloses \/ ProxySeesClose \/ AdapterAnswers
    \/ FromOffice \/ InHost \/ InProxy

\* The timer of the handshake fires, the load of the settings ends, and the
\* adapter, which answers every request, answers the connect or is gone.
SettingsEnd == (SettingsLoaded \/ SetupFails) /\ UNCHANGED vars
HandshakeEnds == HandshakeTimesOut /\ UNCHANGED vars
AbortEnds == UpstreamFails /\ upstream = "aborting" /\ UNCHANGED vars
LinkFairness ==
    /\ WF_linkVars(SettingsEnd) /\ WF_linkVars(HandshakeEnds) /\ WF_linkVars(AbortEnds)
    /\ WF_linkVars(AdapterAnswers) /\ WF_linkVars(ProxySeesClose)
LinkSpec == LinkInit /\ [][LinkNext]_linkVars /\ LinkFairness

-----------------------------------------------------------------------------
(* The adapter takes an open downlink for a listening office and parks     *)
(* approvals for it.  So a downlink must have a browser at its other end,  *)
(* or its close must be on the way; only a connection that was closed      *)
(* while the settings were loading is an exception.                        *)
NoDeafOffice ==
    downlinks # {} => browser # "gone" \/ upstream \in {"closing", "closed"} \/ orphaned
=============================================================================
