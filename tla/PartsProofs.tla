----------------------------- MODULE PartsProofs -----------------------------
(***************************************************************************)
(* Proofs about the run that checks eight parts at once.  In it each part  *)
(* does what its own specification says, whatever the part that moves, so  *)
(* what is proved of the specification of a part holds in the run as well. *)
(***************************************************************************)
EXTENDS MCParts, OfficeAdapterProofs, StudioClientProofs, StudioEditsProofs

\* Every part, with what fairness a part asks for left out.
PartSpecs ==
    /\ Spec /\ ConnectionSpec /\ SettingsSpec /\ ApprovalsSpec
    /\ DocumentsSpec /\ MutationsSpec /\ HistorySpec
    /\ BoardInit /\ [][BoardNext]_board

\* A step of the part that was chosen is one of its own, and nothing to the rest.
THEOREM PartsAreTheirSpecs == PartsSpec => PartSpecs
<1> DEFINE all == <<part, vars, connection, settings, approvals, documents, mutations,
                    history, board>>
<1>1. PartsInit => /\ Init /\ ConnectionInit /\ SettingsInit /\ ApprovalsInit
                   /\ DocumentsInit /\ MutationsInit /\ HistoryInit /\ BoardInit
  BY DEF PartsInit
<1>2. [PartsNext]_all => [Next]_vars
  BY DEF PartsNext
<1>3. [PartsNext]_all => [ConnectionNext]_connection
  BY DEF PartsNext
<1>4. [PartsNext]_all => [SettingsNext]_settings
  BY DEF PartsNext
<1>5. [PartsNext]_all => [ApprovalsNext]_approvals
  BY DEF PartsNext
<1>6. [PartsNext]_all => [DocumentsNext]_documents
  BY DEF PartsNext
<1>7. [PartsNext]_all => [MutationsNext]_mutations
  BY DEF PartsNext
<1>8. [PartsNext]_all => [HistoryNext]_history
  BY DEF PartsNext
<1>9. [PartsNext]_all => [BoardNext]_board
  BY DEF PartsNext
<1> QED
  BY <1>1, <1>2, <1>3, <1>4, <1>5, <1>6, <1>7, <1>8, <1>9, PTL
     DEF PartsSpec, PartSpecs, Spec, ConnectionSpec, SettingsSpec, ApprovalsSpec,
         DocumentsSpec, MutationsSpec, HistorySpec

\* Whichever part moves, its variables keep their types: the adapter's and
\* the gateway documents' as much as those of the client's programs.
THEOREM PartsTypeCorrect == PartsSpec => []PartsTypeOK
<1> DEFINE all == <<part, vars, connection, settings, approvals, documents, mutations,
                    history, board>>
           chosen == part \in {"adapter", "connection", "settings", "approvals", "documents",
                               "mutations", "history", "board"}
<1>1. PartsInit => chosen
  BY DEF PartsInit
<1>2. chosen /\ [PartsNext]_all => chosen'
  BY DEF PartsNext
<1>3. ConnectionTypes => ConnectionTypeOK
  BY DEF ConnectionTypes
<1>4. SettingsTypes => SettingsTypeOK
  BY DEF SettingsTypes
<1>5. /\ chosen
      /\ TypeOK /\ ConnectionTypeOK /\ SettingsTypeOK /\ ApprovalsTypeOK
      /\ DocumentsTypeOK /\ MutationsTypeOK /\ HistoryTypeOK /\ BoardTypeOK
      => PartsTypeOK
  BY DEF PartsTypeOK
<1> QED
  BY <1>1, <1>2, <1>3, <1>4, <1>5, PartsAreTheirSpecs, TypeCorrect, ConnectionTypeCorrect,
     SettingsTypeCorrect, ApprovalsTypeCorrect, DocumentsTypeCorrect, MutationsTypeCorrect,
     HistoryTypeCorrect, BoardIsTyped, PTL
     DEF PartsSpec, PartSpecs
=============================================================================
