-------------------------- MODULE StudioEditsProofs --------------------------
(***************************************************************************)
(* Proofs about what Studios change.  StudioSettings, for any fields,      *)
(* patches, defaults and readers: no older change overwrites a newer one   *)
(* but by a late write, once every write has ended the file holds what the *)
(* patches meant and nothing dropped, and a forced read is fresh.          *)
(* TaskBoard, for any number of windows, tasks and failures: no stored     *)
(* task and no line of its history is lost to a stale, retried or stray    *)
(* request.  ConfigMutations, for any changes, agents and jobs: the block  *)
(* stands for the change that waits or runs, and a deletion takes an agent *)
(* with its jobs or leaves it whole.  GatewayDocuments, for any calls      *)
(* about any agents: no update of one agent is lost to a call about        *)
(* another, and who succeeds has done what was asked.                      *)
(***************************************************************************)
EXTENDS StudioSettings, TaskBoard, ConfigMutations, GatewayDocuments, FiniteSetTheorems, TLAPS

-----------------------------------------------------------------------------
(* StudioSettings                                                          *)

USE SettingsAssumption

-----------------------------------------------------------------------------
(* Patches and what merging does to them                                   *)

\* The fields and values of a patch.
LEMMA PatchType ==
  ASSUME NEW p \in Patches
  PROVE  /\ DOMAIN p.to \subseteq Fields /\ Sets(p) \subseteq Fields /\ p.null \subseteq Nodes
         /\ \A f \in DOMAIN p.to : p.to[f] \in Numbers \cup {Keep}
         /\ \A f \in Sets(p) : p.to[f] \in Numbers
<1>1. p.to \in FieldPatches /\ p.null \subseteq Nodes
  BY DEF Patches
<1>2. PICK D \in SUBSET Fields : p.to \in [D -> Numbers \cup {Keep}]
  BY <1>1 DEF FieldPatches
<1> QED BY <1>1, <1>2 DEF Sets

\* What is a patch.
LEMMA IsPatch ==
  ASSUME NEW D \in SUBSET Fields, NEW t \in [D -> Numbers \cup {Keep}], NEW N \in SUBSET Nodes
  PROVE  [to |-> t, null |-> N] \in Patches
<1>1. t \in FieldPatches
  BY DEF FieldPatches
<1> QED BY <1>1 DEF Patches

\* The empty patch sets nothing.
LEMMA NothingToSet == NoPatch \in Patches /\ Sets(NoPatch) = {}
<1> DEFINE t == [f \in {} |-> 0]
<1>1. t \in [{} -> Numbers \cup {Keep}]
  OBVIOUS
<1>2. {} \in SUBSET Fields /\ {} \in SUBSET Nodes
  OBVIOUS
<1>3. DOMAIN t = {}
  OBVIOUS
<1> HIDE DEF t
<1>4. [to |-> t, null |-> {}] \in Patches
  BY <1>1, <1>2, IsPatch
<1>5. NoPatch = [to |-> t, null |-> {}]
  BY DEF NoPatch, t
<1>6. Sets(NoPatch) = {}
  BY <1>3, <1>5 DEF Sets
<1> QED BY <1>4, <1>5, <1>6

\* What the host does to the file: it takes fields of the patch, and forgets
\* fields of the gateway section only, while that has no token.
LEMMA ApplyType ==
  ASSUME stored \in Settings, NEW p \in Patches, NEW d \in LocalDefaults
  PROVE  /\ Applied(p, d) \in Settings /\ Taken(p, d) \subseteq Sets(p)
         /\ \A f \in Fields : Applied(p, d)[f] = IF f \in Taken(p, d) THEN p.to[f]
                                               ELSE IF f \in Forgotten(d) THEN 0 ELSE stored[f]
         /\ \A f \in Forgotten(d) : f \in Gateway /\ GatewayToken \notin gatewayHas
<1>1. \A f \in Sets(p) : p.to[f] \in Numbers
  BY PatchType
<1>2. Taken(p, d) \subseteq Sets(p) /\ 0 \in Numbers
  BY DEF Taken, Numbers
<1>3. \A f \in Forgotten(d) : f \in Gateway /\ GatewayToken \notin gatewayHas
  BY DEF Forgotten, FillsUp
<1> QED BY <1>1, <1>2, <1>3 DEF Applied, Settings

\* Merging keeps every field the newer patch sets (mergeStudioPatch).
LEMMA MergeType ==
  ASSUME NEW old \in Patches, NEW new \in Patches
  PROVE  /\ MergedPatch(old, new) \in Patches
         /\ \A f \in Sets(new) : f \in Sets(MergedPatch(old, new))
                                /\ MergedPatch(old, new).to[f] = new.to[f]
         /\ \A f \in Sets(MergedPatch(old, new)) : f \notin Sets(new) =>
               f \in Sets(old) /\ MergedPatch(old, new).to[f] = old.to[f]
<1> DEFINE D == DOMAIN new.to \cup {g \in DOMAIN old.to : Survives(g, old, new)}
           t == [f \in D |-> IF f \in DOMAIN new.to THEN new.to[f] ELSE old.to[f]]
<1>1. D \in SUBSET Fields /\ DOMAIN new.to \subseteq D
  BY PatchType
<1>2. \A f \in D : f \in DOMAIN new.to \/ f \in DOMAIN old.to
  OBVIOUS
<1>3. MergedPatch(old, new) = [to |-> t, null |-> MergedNulls(old, new)]
  BY DEF MergedPatch
<1>4. DOMAIN t = D
      /\ \A f \in D : t[f] = IF f \in DOMAIN new.to THEN new.to[f] ELSE old.to[f]
  OBVIOUS
<1>5. t \in [D -> Numbers \cup {Keep}]
  <2>1. \A f \in D : (IF f \in DOMAIN new.to THEN new.to[f] ELSE old.to[f]) \in Numbers \cup {Keep}
    BY <1>2, PatchType
  <2> HIDE DEF D
  <2> QED BY <2>1
<1>6. MergedNulls(old, new) \in SUBSET Nodes
  BY PatchType DEF MergedNulls
<1> HIDE DEF D, t
<1>7. MergedPatch(old, new) \in Patches
  BY <1>1, <1>3, <1>5, <1>6, IsPatch
<1>8. MergedPatch(old, new).to = t
  BY <1>3
<1> QED BY <1>1, <1>2, <1>4, <1>7, <1>8 DEF Sets

\* A patch of a given shape.
LEMMA ShapeType ==
  ASSUME NEW shape \in Shapes, NEW n \in Numbers
  PROVE  /\ Patch(shape, n) \in Patches /\ Sets(Patch(shape, n)) = Covers(shape)
         /\ \A f \in Covers(shape) : Patch(shape, n).to[f] = n
         /\ Covers(shape) \subseteq Fields
<1> DEFINE D == Covers(shape) \cup shape.keep
           t == [f \in D |-> IF f \in Covers(shape) THEN n ELSE Keep]
<1>0. shape.set \subseteq Fields /\ shape.keep \subseteq Fields /\ shape.clear \subseteq Nodes
  OBVIOUS
<1>1. D \in SUBSET Fields /\ Covers(shape) \subseteq D
  BY <1>0 DEF Covers
<1>2. Patch(shape, n) = [to |-> t, null |-> shape.clear]
  BY DEF Patch
<1>3. t \in [D -> Numbers \cup {Keep}]
  OBVIOUS
<1>4. DOMAIN t = D /\ \A f \in D : t[f] = IF f \in Covers(shape) THEN n ELSE Keep
  OBVIOUS
<1>5. n # Keep
  BY DEF Numbers
<1> HIDE DEF D, t
<1>6. Patch(shape, n) \in Patches
  BY <1>0, <1>1, <1>2, <1>3, IsPatch
<1>7. Patch(shape, n).to = t
  BY <1>2
<1> QED BY <1>1, <1>4, <1>5, <1>6, <1>7 DEF Sets

-----------------------------------------------------------------------------
(* Types                                                                   *)

\* Every write and the pending patch have used up a number.
SettingsTypes ==
    /\ SettingsTypeOK
    /\ Len(writes) <= scheduled /\ (pendingPatch # NoPatch => Len(writes) < scheduled)

\* Collecting keeps a patch.
LEMMA CollectType ==
  ASSUME SettingsTypes, NEW shape \in Shapes, Note(shape)
  PROVE  /\ scheduled' = scheduled + 1 /\ scheduled' \in Numbers
         /\ Patch(shape, scheduled + 1) \in Patches /\ pendingPatch \in Patches
         /\ Collected(shape) \in Patches
         /\ meant' \in Settings /\ lost' \subseteq Fields
<1>1. scheduled' = scheduled + 1 /\ scheduled + 1 \in Numbers
  BY DEF Note, SettingsTypes, SettingsTypeOK, Numbers
<1>2. Patch(shape, scheduled + 1) \in Patches /\ pendingPatch \in Patches /\ meant \in Settings
  BY <1>1, ShapeType DEF SettingsTypes, SettingsTypeOK
<1>3. Collected(shape) \in Patches
  BY <1>2, MergeType DEF Collected
<1>4. meant' \in Settings
  BY <1>1, <1>2 DEF Note, Settings
<1>5. lost' \subseteq Fields
  BY <1>2, PatchType DEF Note, SettingsTypes, SettingsTypeOK
<1> QED BY <1>1, <1>2, <1>3, <1>4, <1>5

\* Flushing keeps the queue one of patches.
LEMMA FlushType ==
  ASSUME SettingsTypes, NEW p \in Patches, Flush(p),
         scheduled' \in Numbers, p # NoPatch => Len(writes) < scheduled',
         Len(writes) <= scheduled'
  PROVE  /\ debounce' = FALSE /\ pendingPatch' = NoPatch
         /\ writes' \in Seq(Patches) /\ write' \in Seq(WriteStates)
         /\ reply' \in Seq(Nat) /\ Len(write') = Len(writes') /\ Len(reply') = Len(writes')
         /\ Len(writes') \in Numbers /\ Len(writes') <= scheduled'
<1>2. /\ writes \in Seq(Patches) /\ write \in Seq(WriteStates)
      /\ reply \in Seq(Nat) /\ Len(write) = Len(writes) /\ Len(reply) = Len(writes)
      /\ Len(writes) \in Numbers
  BY DEF SettingsTypes, SettingsTypeOK
<1>3. debounce' = FALSE /\ pendingPatch' = NoPatch
  BY DEF Flush
<1>4. CASE p = NoPatch
  <2>1. writes' = writes /\ write' = write /\ reply' = reply
    BY <1>4 DEF Flush
  <2> QED BY <1>2, <1>3, <2>1
<1>5. CASE p # NoPatch
  <2>1. /\ writes' = Append(writes, p) /\ write' = Append(write, "queued")
        /\ reply' = Append(reply, 0)
    BY <1>5 DEF Flush
  <2>2. Len(writes') = Len(writes) + 1 /\ Len(write') = Len(write) + 1
        /\ Len(reply') = Len(reply) + 1
    BY <1>2, <2>1
  <2>3. Len(writes') \in Numbers /\ Len(writes') <= scheduled'
    BY <1>2, <1>5, <2>2 DEF Numbers
  <2>4. writes' \in Seq(Patches) /\ write' \in Seq(WriteStates)
        /\ reply' \in Seq(Nat)
    <3>1. "queued" \in WriteStates /\ 0 \in Nat
      BY DEF WriteStates
    <3> QED BY <1>2, <2>1, <3>1
  <2> QED BY <1>2, <1>3, <2>2, <2>3, <2>4
<1> QED BY <1>4, <1>5

\* A step of the write i keeps the types of write and reply.
LEMMA StepOfWrite ==
  ASSUME SettingsTypes, NEW i \in 1..Len(writes),
         NEW s \in WriteStates, NEW a \in Nat
  PROVE  /\ [write EXCEPT ![i] = s] \in Seq(WriteStates)
         /\ Len([write EXCEPT ![i] = s]) = Len(writes)
         /\ [reply EXCEPT ![i] = a] \in Seq(Nat)
         /\ Len([reply EXCEPT ![i] = a]) = Len(writes)
BY DEF SettingsTypes, SettingsTypeOK

\* Steps of the writes leave the readers typed.
LEMMA ReadersTyped ==
  ASSUME SettingsTypes, UNCHANGED reading
  PROVE  /\ loading' \in Readers \cup {Nobody} /\ awaits' \in [Readers -> Readers \cup {Nobody}]
         /\ load' \in [Readers -> {"unused", "sent", "read", "over"}]
         /\ saw' \in [Readers -> Nat] /\ known' \in [Readers -> Nat]
         /\ got' \in [Readers -> Nat \cup {NoSettings}]
BY DEF reading, SettingsTypes, SettingsTypeOK

\* The file stays typed where it is left alone.
LEMMA FileTyped ==
  ASSUME SettingsTypes, UNCHANGED hostFile
  PROVE  stored' \in Settings /\ gatewayHas' \subseteq {GatewayUrl, GatewayToken} /\ fileVersion' \in Nat
BY DEF hostFile, SettingsTypes, SettingsTypeOK

\* Type correctness of coordinator, host and readers.
THEOREM SettingsTypeCorrect == SettingsSpec => []SettingsTypes
<1>1. SettingsInit => SettingsTypes
  <2> SUFFICES ASSUME SettingsInit PROVE SettingsTypes
    OBVIOUS
  <2>1. scheduled \in Numbers /\ Len(writes) \in Numbers /\ Len(writes) = 0 /\ Len(write) = 0
        /\ Len(reply) = 0
    BY DEF SettingsInit, Numbers
  <2>2. /\ awaits \in [Readers -> Readers \cup {Nobody}]
        /\ load \in [Readers -> {"unused", "sent", "read", "over"}]
        /\ saw \in [Readers -> Nat] /\ known \in [Readers -> Nat]
        /\ got \in [Readers -> Nat \cup {NoSettings}]
    BY DEF SettingsInit
  <2>3. writes \in Seq(Patches) /\ write \in Seq(WriteStates)
        /\ reply \in Seq(Nat) /\ Len(writes) <= scheduled /\ pendingPatch = NoPatch
        /\ Len(write) = Len(writes) /\ Len(reply) = Len(writes)
    BY DEF SettingsInit
  <2>4. {stored, meant} \subseteq Settings
    BY DEF SettingsInit, Blank, Settings, Numbers
  <2>5. /\ {debounce, disposed} \subseteq BOOLEAN /\ gatewayHas \subseteq {GatewayUrl, GatewayToken}
    <3>1. debounce = FALSE /\ disposed = FALSE /\ gatewayHas = {}
      BY DEF SettingsInit
    <3> QED BY <3>1
  <2>6. /\ {fileVersion, acked} \subseteq Nat /\ cached \in Nat \cup {NoSettings}
        /\ loading \in Readers \cup {Nobody} /\ lost \subseteq Fields
    <3>1. fileVersion = 0 /\ acked = 0 /\ cached = NoSettings /\ loading = Nobody /\ lost = {}
      BY DEF SettingsInit
    <3> QED BY <3>1
  <2> QED BY <2>1, <2>2, <2>3, <2>4, <2>5, <2>6, NothingToSet DEF SettingsTypes, SettingsTypeOK
<1>2. SettingsTypes /\ [SettingsNext]_settings => SettingsTypes'
  <2> SUFFICES ASSUME SettingsTypes, [SettingsNext]_settings PROVE SettingsTypes'
    OBVIOUS
  <2>t. SettingsTypeOK /\ Len(writes) <= scheduled /\ (pendingPatch # NoPatch => Len(writes) < scheduled)
        /\ Len(writes) \in Nat /\ scheduled \in Nat
    BY DEF SettingsTypes, SettingsTypeOK, Numbers
  <2>1. ASSUME NEW shape \in Shapes, SchedulePatch(shape) PROVE SettingsTypes'
    <3>1. Note(shape)
      BY <2>1 DEF SchedulePatch
    <3> QED BY <2>1, <2>t, <3>1, CollectType, ReadersTyped, FileTyped
            DEF SchedulePatch, SettingsTypes, SettingsTypeOK
  <2>2. ASSUME NEW shape \in Shapes, ApplyPatchNow(shape) PROVE SettingsTypes'
    <3>1. Note(shape) /\ Flush(Collected(shape))
      BY <2>2 DEF ApplyPatchNow
    <3>2. Collected(shape) \in Patches /\ scheduled' \in Numbers /\ scheduled' = scheduled + 1
      BY <3>1, CollectType
    <3>3. Len(writes) < scheduled'
      BY <2>t, <3>2
    <3>4. Len(writes) <= scheduled' /\ (Collected(shape) # NoPatch => Len(writes) < scheduled')
      BY <2>t, <3>2, <3>3 DEF Numbers
    <3>5. /\ debounce' = FALSE /\ pendingPatch' = NoPatch
          /\ writes' \in Seq(Patches) /\ write' \in Seq(WriteStates)
          /\ reply' \in Seq(Nat) /\ Len(write') = Len(writes') /\ Len(reply') = Len(writes')
          /\ Len(writes') \in Numbers /\ Len(writes') <= scheduled'
      BY <3>1, <3>2, <3>4, FlushType
    <3>6. meant' \in Settings /\ lost' \subseteq Fields
      BY <3>1, CollectType
    <3>7. UNCHANGED reading
      BY <2>2 DEF ApplyPatchNow
    <3> QED BY <2>2, <2>t, <3>2, <3>5, <3>6, <3>7, NothingToSet, ReadersTyped, FileTyped
            DEF ApplyPatchNow, SettingsTypes, SettingsTypeOK
  <2>3. CASE FlushPending
    <3>1. Flush(pendingPatch) /\ UNCHANGED scheduled /\ pendingPatch \in Patches /\ scheduled \in Numbers
      BY <2>3, <2>t DEF FlushPending, SettingsTypeOK
    <3>2. scheduled' \in Numbers /\ Len(writes) <= scheduled'
          /\ (pendingPatch # NoPatch => Len(writes) < scheduled')
      BY <2>t, <3>1
    <3>3. /\ debounce' = FALSE /\ pendingPatch' = NoPatch
          /\ writes' \in Seq(Patches) /\ write' \in Seq(WriteStates)
          /\ reply' \in Seq(Nat) /\ Len(write') = Len(writes') /\ Len(reply') = Len(writes')
          /\ Len(writes') \in Numbers /\ Len(writes') <= scheduled'
      BY <3>1, <3>2, FlushType
    <3>4. UNCHANGED reading
      BY <2>3 DEF FlushPending
    <3> QED BY <2>3, <2>t, <3>2, <3>3, <3>4, NothingToSet, ReadersTyped, FileTyped
            DEF FlushPending, SettingsTypes, SettingsTypeOK
  <2>4. ASSUME NEW i \in 1..Len(writes), SendWrite(i) PROVE SettingsTypes'
    <3>1. write' \in Seq(WriteStates) /\ Len(write') = Len(writes)
      BY <2>4, StepOfWrite DEF SendWrite, WriteStates
    <3> QED BY <2>4, <2>t, <3>1, ReadersTyped, FileTyped DEF SendWrite, SettingsTypes, SettingsTypeOK
  <2>5. ASSUME NEW i \in 1..Len(writes), HostWrites(i) PROVE SettingsTypes'
    <3>1. writes[i] \in Patches /\ stored \in Settings /\ fileVersion \in Nat /\ lost \subseteq Fields
      BY <2>t DEF SettingsTypeOK
    <3>2. PICK d \in LocalDefaults :
            /\ stored' = Applied(writes[i], d) /\ fileVersion' = fileVersion + 1
            /\ gatewayHas' = IF GatewayUrl \in Left(writes[i], d) THEN Left(writes[i], d) ELSE {}
            /\ write' = [write EXCEPT ![i] = IF write[i] = "sent" THEN "applied" ELSE "over"]
            /\ reply' = [reply EXCEPT ![i] = IF write[i] = "sent" THEN fileVersion' ELSE 0]
            /\ lost' \subseteq lost \cup Sets(writes[i]) \cup Forgotten(d) \cup Taken(writes[i], d)
            /\ UNCHANGED <<pendingPatch, debounce, writes, disposed, cached, reading, scheduled,
                           acked, meant>>
      BY <2>5 DEF HostWrites
    <3>3. stored' \in Settings /\ fileVersion' \in Nat
      <4>1. Applied(writes[i], d) \in Settings
        BY <3>1, ApplyType
      <4> QED BY <3>1, <3>2, <4>1
    <3>4. gatewayHas' \subseteq {GatewayUrl, GatewayToken}
      BY <2>t, <3>2 DEF Left, Loaded, SettingsTypeOK
    <3>5. lost' \subseteq Fields
      BY <3>1, <3>2, ApplyType, PatchType
    <3>6. /\ write' \in Seq(WriteStates) /\ Len(write') = Len(writes)
          /\ reply' \in Seq(Nat) /\ Len(reply') = Len(writes)
      <4>1. (IF write[i] = "sent" THEN "applied" ELSE "over") \in WriteStates
        BY DEF WriteStates
      <4>2. (IF write[i] = "sent" THEN fileVersion' ELSE 0) \in Nat
        BY <3>3
      <4> QED BY <3>2, <4>1, <4>2, StepOfWrite
    <3> QED BY <2>t, <3>2, <3>3, <3>4, <3>5, <3>6, ReadersTyped, FileTyped DEF SettingsTypes, SettingsTypeOK
  <2>6. ASSUME NEW i \in 1..Len(writes), WriteAnswered(i) PROVE SettingsTypes'
    <3>1. reply[i] \in Nat
      BY <2>t DEF SettingsTypeOK
    <3>2. /\ write' \in Seq(WriteStates) /\ Len(write') = Len(writes)
          /\ reply' \in Seq(Nat) /\ Len(reply') = Len(writes)
      BY <2>6, StepOfWrite DEF WriteAnswered, WriteStates
    <3> QED BY <2>6, <2>t, <3>1, <3>2, ReadersTyped, FileTyped
            DEF WriteAnswered, SettingsTypes, SettingsTypeOK
  <2>7. ASSUME NEW i \in 1..Len(writes), WriteFails(i) PROVE SettingsTypes'
    <3>1. writes[i] \in Patches
      BY <2>t DEF SettingsTypeOK
    <3>2. lost' \subseteq Fields
      BY <2>7, <2>t, <3>1, PatchType DEF WriteFails, SettingsTypeOK
    <3>3. /\ write' \in Seq(WriteStates) /\ Len(write') = Len(writes)
          /\ reply' \in Seq(Nat) /\ Len(reply') = Len(writes)
      <4>1. PICK how \in {"over", "late"} : write' = [write EXCEPT ![i] = how]
        BY <2>7 DEF WriteFails
      <4>2. how \in WriteStates /\ reply' = [reply EXCEPT ![i] = 0]
        BY <2>7 DEF WriteFails, WriteStates
      <4> QED BY <4>1, <4>2, StepOfWrite
    <3> QED BY <2>7, <2>t, <3>2, <3>3, ReadersTyped, FileTyped
            DEF WriteFails, SettingsTypes, SettingsTypeOK
  <2>8. CASE Dispose
    <3>1. lost' \subseteq Fields
      BY <2>8, <2>t, PatchType DEF Dispose, SettingsTypeOK
    <3> QED BY <2>8, <2>t, <3>1, NothingToSet, FileTyped DEF Dispose, SettingsTypes, SettingsTypeOK
  <2>9. ASSUME NEW r \in Readers, LoadSettings(r) PROVE SettingsTypes'
    <3>1. /\ known' \in [Readers -> Nat] /\ load' \in [Readers -> {"unused", "sent", "read", "over"}]
          /\ loading' \in Readers \cup {Nobody} /\ awaits' \in [Readers -> Readers \cup {Nobody}]
          /\ got' \in [Readers -> Nat \cup {NoSettings}]
      <4>t. /\ acked \in Nat /\ known \in [Readers -> Nat] /\ cached \in Nat \cup {NoSettings}
            /\ load \in [Readers -> {"unused", "sent", "read", "over"}]
            /\ loading \in Readers \cup {Nobody} /\ awaits \in [Readers -> Readers \cup {Nobody}]
            /\ got \in [Readers -> Nat \cup {NoSettings}]
        BY <2>t DEF SettingsTypeOK
      <4>1. known' \in [Readers -> Nat]
        BY <2>9, <4>t DEF LoadSettings
      <4>2. CASE StartsOwn(r)
        <5>1. /\ load' = [load EXCEPT ![r] = "sent"] /\ loading' = r
              /\ awaits' = [awaits EXCEPT ![r] = r] /\ got' = got
          BY <2>9, <4>2 DEF LoadSettings
        <5> QED BY <4>t, <4>1, <5>1
      <4>3. CASE ~StartsOwn(r)
        <5>1. /\ load' = load /\ loading' = loading
              /\ \/ got' = [got EXCEPT ![r] = cached] /\ awaits' = awaits
                 \/ awaits' = [awaits EXCEPT ![r] = loading] /\ got' = got
          BY <2>9, <4>3 DEF LoadSettings
        <5> QED BY <4>t, <4>1, <5>1
      <4> QED BY <4>2, <4>3
    <3> QED BY <2>9, <2>t, <3>1, FileTyped DEF LoadSettings, SettingsTypes, SettingsTypeOK
  <2>10. ASSUME NEW r \in Readers, HostReads(r) PROVE SettingsTypes'
    BY <2>10, <2>t, FileTyped DEF HostReads, SettingsTypes, SettingsTypeOK
  <2>11. ASSUME NEW r \in Readers, LoadAnswered(r) \/ LoadFails(r) PROVE SettingsTypes'
    <3>0. LoadOver(r)
      BY <2>11 DEF LoadAnswered, LoadFails
    <3>1. saw[r] \in Nat /\ saw' \in [Readers -> Nat]
          /\ load' \in [Readers -> {"unused", "sent", "read", "over"}]
      BY <2>t, <3>0 DEF LoadOver, SettingsTypeOK
    <3>2. got' \in [Readers -> Nat \cup {NoSettings}] /\ cached' \in Nat \cup {NoSettings}
      BY <2>11, <2>t, <3>1 DEF LoadAnswered, LoadFails, SettingsTypeOK
    <3>3. /\ awaits' \in [Readers -> Readers \cup {Nobody}] /\ loading' \in Readers \cup {Nobody}
      BY <2>t, <3>0 DEF LoadOver, SettingsTypeOK
    <3> QED BY <2>t, <3>0, <3>1, <3>2, <3>3, FileTyped DEF LoadOver, SettingsTypes, SettingsTypeOK
  <2>12. CASE CacheExpires
    BY <2>12, <2>t, ReadersTyped, FileTyped DEF CacheExpires, SettingsTypes, SettingsTypeOK
  <2>13. CASE UNCHANGED settings
    BY <2>13, <2>t DEF settings, hostFile, reading, SettingsTypes, SettingsTypeOK
  <2> QED BY <2>1, <2>2, <2>3, <2>4, <2>5, <2>6, <2>7, <2>8, <2>9, <2>10, <2>11, <2>12, <2>13
          DEF SettingsNext
<1> QED BY <1>1, <1>2, PTL DEF SettingsSpec

-----------------------------------------------------------------------------
(* The way of a change from the pending patch through a write to the file. *)
(* With p as the pending patch, ws and w as the writes and their states, s *)
(* as the file, m as what the patches meant and n patches so far:          *)

Unapplied == {"queued", "sent"}
EndedWrite == {"late", "over"}
\* One write after the other.
InTurn(ws, w) == \A i, j \in 1..Len(ws) : i < j /\ w[j] # "queued" => w[i] \in EndedWrite
\* Newer patches carry newer changes, the file only older ones.
Ordered(p, ws, w, s, m, n) ==
    /\ \A f \in Fields : s[f] <= m[f] /\ m[f] <= n
    /\ \A f \in Sets(p) : s[f] <= p.to[f] /\ p.to[f] <= m[f]
    /\ \A i \in 1..Len(ws) : \A f \in Sets(ws[i]) :
          /\ ws[i].to[f] <= m[f]
          /\ f \in Sets(p) => ws[i].to[f] <= p.to[f]
          /\ w[i] \in Unapplied => s[f] <= ws[i].to[f]
          /\ \A j \in 1..Len(ws) : i < j /\ f \in Sets(ws[j]) => ws[i].to[f] <= ws[j].to[f]
\* What a field means and is not lost is on its way or in the file.
Carried(p, ws, w, s, m, l) ==
    \A f \in Fields \ l :
        \/ f \in Sets(p) /\ p.to[f] = m[f]
        \/ \E i \in 1..Len(ws) : w[i] \in Unapplied /\ f \in Sets(ws[i]) /\ ws[i].to[f] = m[f]
        \/ s[f] = m[f]

OnTheWay ==
    /\ InTurn(writes, write)
    /\ Ordered(pendingPatch, writes, write, stored, meant, scheduled)
    /\ Carried(pendingPatch, writes, write, stored, meant, lost)
WayInvariant == SettingsTypes /\ OnTheWay

\* What SettingsTypeCorrect says in the words of the proofs below.
LEMMA WayTypes ==
  ASSUME SettingsTypes
  PROVE  /\ pendingPatch \in Patches /\ writes \in Seq(Patches) /\ Len(writes) \in Nat
         /\ write \in Seq(WriteStates) /\ Len(write) = Len(writes)
         /\ stored \in Settings /\ meant \in Settings /\ scheduled \in Numbers
         /\ \A f \in Fields : stored[f] \in Nat /\ meant[f] \in Nat
         /\ \A i \in 1..Len(writes) : writes[i] \in Patches
         /\ \A i \in 1..Len(writes) : \A f \in Sets(writes[i]) : f \in Fields /\ writes[i].to[f] \in Nat
         /\ \A f \in Sets(pendingPatch) : f \in Fields /\ pendingPatch.to[f] \in Nat
<1>1. /\ pendingPatch \in Patches /\ writes \in Seq(Patches) /\ Len(writes) \in Nat
      /\ write \in Seq(WriteStates) /\ Len(write) = Len(writes)
      /\ stored \in Settings /\ meant \in Settings /\ scheduled \in Numbers
  BY DEF SettingsTypes, SettingsTypeOK, Numbers
<1>2. \A i \in 1..Len(writes) : writes[i] \in Patches
  BY <1>1
<1>3. \A f \in Fields : stored[f] \in Nat /\ meant[f] \in Nat
  BY <1>1 DEF Settings, Numbers
<1>4. \A q \in Patches : \A f \in Sets(q) : f \in Fields /\ q.to[f] \in Nat
  BY PatchType DEF Numbers
<1> QED BY <1>1, <1>2, <1>3, <1>4

\* A new patch, merged into the pending one.
LEMMA CollectKeeps ==
  ASSUME WayInvariant, NEW shape \in Shapes, Note(shape)
  PROVE  /\ Ordered(Collected(shape), writes, write, stored, meant', scheduled')
         /\ Carried(Collected(shape), writes, write, stored, meant', lost')
<1> DEFINE q == Patch(shape, scheduled + 1)
           c == Collected(shape)
<1>1. SettingsTypes /\ scheduled' = scheduled + 1 /\ scheduled + 1 \in Numbers
      /\ pendingPatch \in Patches /\ q \in Patches /\ c \in Patches
  BY CollectType DEF WayInvariant
<1>2. /\ \A f \in Sets(q) : f \in Sets(c) /\ c.to[f] = q.to[f]
      /\ \A f \in Sets(c) : f \notin Sets(q) => f \in Sets(pendingPatch) /\ c.to[f] = pendingPatch.to[f]
  BY <1>1, MergeType DEF Collected
<1>3. Sets(q) = Covers(shape) /\ \A f \in Covers(shape) : q.to[f] = scheduled + 1
  BY <1>1, ShapeType
<1>4. \A f \in Fields : meant'[f] = IF f \in Covers(shape) THEN scheduled + 1 ELSE meant[f]
  BY DEF Note
<1>5. \A f \in Sets(c) : f \in Fields
  BY <1>1, PatchType
<1>6. lost' = (lost \ Covers(shape)) \cup (Sets(pendingPatch) \ Sets(c))
  BY DEF Note
<1> HIDE DEF q, c
<1>7. /\ \A f \in Covers(shape) : f \in Sets(c) /\ c.to[f] = scheduled + 1
      /\ \A f \in Sets(c) : f \notin Covers(shape) => f \in Sets(pendingPatch) /\ c.to[f] = pendingPatch.to[f]
  BY <1>2, <1>3
<1>8. scheduled \in Nat
  BY <1>1, WayTypes DEF Numbers
<1>9. Ordered(c, writes, write, stored, meant', scheduled')
  <2>1. \A f \in Fields : stored[f] <= meant'[f] /\ meant'[f] <= scheduled'
    BY <1>1, <1>4, <1>8, WayTypes DEF WayInvariant, OnTheWay, Ordered
  <2>2. \A f \in Sets(c) : stored[f] <= c.to[f] /\ c.to[f] <= meant'[f]
    <3> SUFFICES ASSUME NEW f \in Sets(c) PROVE stored[f] <= c.to[f] /\ c.to[f] <= meant'[f]
      OBVIOUS
    <3>1. f \in Fields /\ stored[f] <= meant[f] /\ meant[f] <= scheduled /\ stored[f] \in Nat
          /\ meant[f] \in Nat
      BY <1>1, <1>5, WayTypes DEF WayInvariant, OnTheWay, Ordered
    <3>2. CASE f \in Covers(shape)
      BY <1>4, <1>7, <1>8, <3>1, <3>2
    <3>3. CASE f \notin Covers(shape)
      <4>1. c.to[f] = pendingPatch.to[f] /\ meant'[f] = meant[f] /\ f \in Sets(pendingPatch)
        BY <1>4, <1>7, <3>1, <3>3
      <4> QED BY <4>1 DEF WayInvariant, OnTheWay, Ordered
    <3> QED BY <3>2, <3>3
  <2>3. ASSUME NEW i \in 1..Len(writes), NEW f \in Sets(writes[i])
        PROVE  /\ writes[i].to[f] <= meant'[f]
               /\ f \in Sets(c) => writes[i].to[f] <= c.to[f]
    <3>1. f \in Fields /\ writes[i].to[f] \in Nat /\ writes[i].to[f] <= meant[f] /\ meant[f] <= scheduled
          /\ meant[f] \in Nat
      BY <1>1, WayTypes DEF WayInvariant, OnTheWay, Ordered
    <3>2. CASE f \in Covers(shape)
      BY <1>4, <1>7, <1>8, <3>1, <3>2
    <3>3. CASE f \notin Covers(shape)
      <4>1. meant'[f] = meant[f] /\ (f \in Sets(c) => f \in Sets(pendingPatch) /\ c.to[f] = pendingPatch.to[f])
        BY <1>4, <1>7, <3>1, <3>3
      <4> QED BY <3>1, <4>1 DEF WayInvariant, OnTheWay, Ordered
    <3> QED BY <3>2, <3>3
  <2>4. \A i \in 1..Len(writes) : \A f \in Sets(writes[i]) :
          /\ write[i] \in Unapplied => stored[f] <= writes[i].to[f]
          /\ \A j \in 1..Len(writes) : i < j /\ f \in Sets(writes[j]) => writes[i].to[f] <= writes[j].to[f]
    BY DEF WayInvariant, OnTheWay, Ordered
  <2> QED BY <2>1, <2>2, <2>3, <2>4 DEF Ordered
<1>10. Carried(c, writes, write, stored, meant', lost')
  <2> SUFFICES ASSUME NEW f \in Fields \ lost'
               PROVE  \/ f \in Sets(c) /\ c.to[f] = meant'[f]
                      \/ \E i \in 1..Len(writes) : write[i] \in Unapplied /\ f \in Sets(writes[i])
                                                  /\ writes[i].to[f] = meant'[f]
                      \/ stored[f] = meant'[f]
    BY DEF Carried
  <2>1. CASE f \in Covers(shape)
    BY <1>4, <1>7, <2>1
  <2>2. CASE f \notin Covers(shape)
    <3>1. f \notin lost /\ meant'[f] = meant[f] /\ (f \in Sets(pendingPatch) => f \in Sets(c))
      BY <1>4, <1>6, <2>2
    <3>2. f \in Sets(pendingPatch) => f \in Sets(c) /\ c.to[f] = pendingPatch.to[f]
      BY <1>7, <2>2, <3>1
    <3> QED BY <3>1, <3>2 DEF WayInvariant, OnTheWay, Carried
  <2> QED BY <2>1, <2>2
<1> QED BY <1>9, <1>10 DEF c

\* Handing the pending patch over as the last write.
LEMMA FlushKeeps ==
  ASSUME SettingsTypes, InTurn(writes, write), NEW p \in Patches, Flush(p),
         NEW m, NEW n, NEW l,
         Ordered(p, writes, write, stored, m, n), Carried(p, writes, write, stored, m, l)
  PROVE  /\ InTurn(writes', write') /\ Ordered(pendingPatch', writes', write', stored, m, n)
         /\ Carried(pendingPatch', writes', write', stored, m, l)
<1>1. pendingPatch' = NoPatch /\ Sets(pendingPatch') = {}
  BY NothingToSet DEF Flush
<1>2. CASE p = NoPatch
  <2>1. writes' = writes /\ write' = write
    BY <1>2 DEF Flush
  <2> QED BY <1>1, <1>2, <2>1
<1>3. CASE p # NoPatch
  <2> DEFINE N == Len(writes)
  <2>1. writes' = Append(writes, p) /\ write' = Append(write, "queued")
    BY <1>3 DEF Flush
  <2>2. /\ N \in Nat /\ Len(writes') = N + 1 /\ 1..(N + 1) = (1..N) \cup {N + 1}
        /\ writes'[N + 1] = p /\ write'[N + 1] = "queued"
        /\ \A i \in 1..N : writes'[i] = writes[i] /\ write'[i] = write[i]
    BY <2>1, WayTypes
  <2>3. InTurn(writes', write')
    BY <2>2 DEF InTurn
  <2>4. Ordered(NoPatch, writes', write', stored, m, n)
    <3>1. \A i \in 1..(N + 1) : \A f \in Sets(writes'[i]) :
             writes'[i].to[f] <= m[f] /\ (write'[i] \in Unapplied => stored[f] <= writes'[i].to[f])
      BY <2>2 DEF Ordered
    <3>2. ASSUME NEW i \in 1..(N + 1), NEW j \in 1..(N + 1), i < j,
                 NEW f \in Sets(writes'[i]), f \in Sets(writes'[j])
          PROVE  writes'[i].to[f] <= writes'[j].to[f]
      <4>1. i \in 1..N
        BY <2>2, <3>2
      <4>2. CASE j \in 1..N
        BY <2>2, <3>2, <4>1, <4>2 DEF Ordered
      <4>3. CASE j = N + 1
        BY <2>2, <3>2, <4>1, <4>3 DEF Ordered
      <4> QED BY <2>2, <4>2, <4>3
    <3>3. \A f \in Fields : stored[f] <= m[f] /\ m[f] <= n
      BY DEF Ordered
    <3> QED BY <2>2, <3>1, <3>2, <3>3, NothingToSet DEF Ordered
  <2>5. Carried(NoPatch, writes', write', stored, m, l)
    <3> SUFFICES ASSUME NEW f \in Fields \ l
                 PROVE  \/ \E i \in 1..(N + 1) : write'[i] \in Unapplied /\ f \in Sets(writes'[i])
                                               /\ writes'[i].to[f] = m[f]
                        \/ stored[f] = m[f]
      BY <2>2 DEF Carried
    <3>1. CASE f \in Sets(p) /\ p.to[f] = m[f]
      BY <2>2, <3>1 DEF Unapplied
    <3>2. CASE \E i \in 1..N : write[i] \in Unapplied /\ f \in Sets(writes[i]) /\ writes[i].to[f] = m[f]
      BY <2>2, <3>2
    <3> QED BY <3>1, <3>2 DEF Carried
  <2> QED BY <1>1, <2>3, <2>4, <2>5
<1> QED BY <1>2, <1>3

\* A write that moves on without touching the file.
LEMMA MovesOn ==
  ASSUME WayInvariant, NEW i \in 1..Len(writes), NEW t \in {"sent", "late", "over"},
         write' = [write EXCEPT ![i] = t], write[i] \notin EndedWrite,
         t = "sent" => \A j \in 1..(i - 1) : write[j] \in EndedWrite,
         t = "sent" \/ write[i] # "queued",
         t \in Unapplied => write[i] \in Unapplied,
         UNCHANGED <<pendingPatch, writes, stored, meant, scheduled>>
  PROVE  /\ InTurn(writes', write')
         /\ Ordered(pendingPatch', writes', write', stored', meant', scheduled')
<1>1. /\ Len(writes) \in Nat /\ Len(write) = Len(writes)
      /\ \A j \in 1..Len(writes) : write'[j] = IF j = i THEN t ELSE write[j]
      /\ SettingsTypes
  BY WayTypes DEF WayInvariant
<1>2. InTurn(writes, write) /\ Ordered(pendingPatch, writes, write, stored, meant, scheduled)
  BY DEF WayInvariant, OnTheWay
<1>3. InTurn(writes', write')
  <2> SUFFICES ASSUME NEW k \in 1..Len(writes), NEW j \in 1..Len(writes), k < j, write'[j] # "queued"
               PROVE  write'[k] \in EndedWrite
    BY DEF InTurn
  <2>1. write[k] \in EndedWrite
    <3>1. CASE j = i /\ t = "sent"
      <4>1. k \in 1..(i - 1)
        BY <1>1, <3>1
      <4> QED BY <3>1, <4>1
    <3>2. CASE j = i /\ t # "sent"
      BY <1>2, <3>2 DEF InTurn
    <3>3. CASE j # i
      BY <1>1, <1>2, <3>3 DEF InTurn
    <3> QED BY <3>1, <3>2, <3>3
  <2> QED BY <1>1, <2>1
<1>4. Ordered(pendingPatch', writes', write', stored', meant', scheduled')
  <2>1. \A j \in 1..Len(writes) : write'[j] \in Unapplied => write[j] \in Unapplied
    BY <1>1
  <2> QED BY <1>2, <2>1 DEF Ordered
<1> QED BY <1>3, <1>4

\* The host writes the patch i, in turn or late: this keeps what is on its
\* way, and it is why the file advances.
LEMMA HostKeeps ==
  ASSUME WayInvariant, NEW i \in 1..Len(writes), HostWrites(i)
  PROVE  /\ OnTheWay'
         /\ \A f \in Fields : \/ stored'[f] >= stored[f]
                              \/ f \in Gateway /\ GatewayToken \notin gatewayHas
                              \/ LateArrives(f)
<1> DEFINE q == writes[i]
<1>1. /\ Len(writes) \in Nat /\ Len(write) = Len(writes) /\ SettingsTypes
      /\ q \in Patches /\ stored \in Settings
      /\ \A f \in Fields : stored[f] \in Nat /\ meant[f] \in Nat
      /\ \A j \in 1..Len(writes) : \A f \in Sets(writes[j]) : f \in Fields /\ writes[j].to[f] \in Nat
      /\ \A f \in Sets(pendingPatch) : f \in Fields /\ pendingPatch.to[f] \in Nat
  BY WayTypes DEF WayInvariant
<1>2. PICK d \in LocalDefaults :
        /\ stored' = Applied(q, d)
        /\ write' = [write EXCEPT ![i] = IF write[i] = "sent" THEN "applied" ELSE "over"]
        /\ lost \subseteq lost'
        /\ \A f \in Sets(q) \ Taken(q, d) : q.to[f] = meant[f] => f \in lost'
        /\ \A f \in Forgotten(d) \ Taken(q, d) : stored[f] = meant[f] => f \in lost'
        /\ write[i] = "late" => \A f \in Taken(q, d) : stored[f] = meant[f] => f \in lost'
  BY DEF HostWrites
<1> DEFINE taken == Taken(q, d)
<1>3. write[i] \in {"sent", "late"} /\ UNCHANGED <<pendingPatch, writes, meant, scheduled>>
  BY DEF HostWrites
<1>4. /\ taken \subseteq Sets(q)
      /\ \A f \in Fields : stored'[f] = IF f \in taken THEN q.to[f]
                                      ELSE IF f \in Forgotten(d) THEN 0 ELSE stored[f]
      /\ \A f \in Forgotten(d) : f \in Gateway /\ GatewayToken \notin gatewayHas
  BY <1>1, <1>2, ApplyType
<1>5. /\ InTurn(writes, write) /\ Ordered(pendingPatch, writes, write, stored, meant, scheduled)
      /\ Carried(pendingPatch, writes, write, stored, meant, lost)
  BY DEF WayInvariant, OnTheWay
<1>6. \A j \in 1..Len(writes) :
         /\ j = i => write'[j] \in {"applied", "over"} /\ (write[i] = "late" => write'[j] = "over")
         /\ j # i => write'[j] = write[j]
  BY <1>1, <1>2
<1> HIDE DEF taken
<1>7. \A f \in taken : q.to[f] \in Nat /\ q.to[f] <= meant[f] /\ f \in Fields
                       /\ (write[i] = "sent" => stored[f] <= q.to[f])
  BY <1>1, <1>3, <1>4, <1>5 DEF Ordered, Unapplied
<1>8. \A f \in Fields : stored'[f] \in Nat /\ stored'[f] <= meant[f]
  <2> SUFFICES ASSUME NEW f \in Fields PROVE stored'[f] \in Nat /\ stored'[f] <= meant[f]
    OBVIOUS
  <2>1. stored[f] \in Nat /\ meant[f] \in Nat /\ stored[f] <= meant[f]
    BY <1>1, <1>5 DEF Ordered
  <2> HIDE DEF q
  <2> QED BY <1>4, <1>7, <2>1
<1>9. InTurn(writes', write')
  <2> SUFFICES ASSUME NEW k \in 1..Len(writes), NEW j \in 1..Len(writes), k < j, write'[j] # "queued"
               PROVE  write'[k] \in EndedWrite
    BY <1>3 DEF InTurn
  <2>1. write[j] # "queued"
    BY <1>3, <1>6
  <2>2. write[k] \in EndedWrite
    BY <1>5, <2>1 DEF InTurn
  <2>3. k = i => write[i] = "late"
    BY <1>3, <2>2 DEF EndedWrite
  <2> QED BY <1>6, <2>2, <2>3 DEF EndedWrite
<1>10. Ordered(pendingPatch', writes', write', stored', meant', scheduled')
  <2>1. \A f \in Fields : stored'[f] <= meant'[f] /\ meant'[f] <= scheduled'
    BY <1>3, <1>5, <1>8 DEF Ordered
  <2>2. \A f \in Sets(pendingPatch) : stored'[f] <= pendingPatch.to[f]
                                      /\ pendingPatch.to[f] <= meant[f]
    <3> SUFFICES ASSUME NEW f \in Sets(pendingPatch) PROVE stored'[f] <= pendingPatch.to[f]
      BY <1>5 DEF Ordered
    <3>1. /\ f \in Fields /\ pendingPatch.to[f] \in Nat /\ stored[f] <= pendingPatch.to[f]
          /\ f \in Sets(q) => q.to[f] <= pendingPatch.to[f]
      BY <1>1, <1>5 DEF Ordered
    <3> HIDE DEF q
    <3> QED BY <1>4, <3>1
  <2>3. ASSUME NEW j \in 1..Len(writes), NEW f \in Sets(writes[j]), write'[j] \in Unapplied
        PROVE  stored'[f] <= writes[j].to[f]
    <3>1. j # i /\ write[j] \in Unapplied
      BY <1>6, <2>3 DEF Unapplied
    <3>2. i < j
      <4>1. ~(j < i)
        BY <1>3, <1>5, <3>1 DEF InTurn, Unapplied, EndedWrite
      <4> QED BY <3>1, <4>1
    <3>3. /\ f \in Fields /\ writes[j].to[f] \in Nat /\ stored[f] <= writes[j].to[f]
          /\ f \in Sets(q) => q.to[f] <= writes[j].to[f]
      BY <1>1, <1>5, <3>1, <3>2 DEF Ordered
    <3> HIDE DEF q
    <3> QED BY <1>4, <3>3
  <2>4. \A j \in 1..Len(writes) : \A f \in Sets(writes[j]) :
          /\ writes[j].to[f] <= meant[f]
          /\ f \in Sets(pendingPatch) => writes[j].to[f] <= pendingPatch.to[f]
          /\ \A k \in 1..Len(writes) : j < k /\ f \in Sets(writes[k])
                                       => writes[j].to[f] <= writes[k].to[f]
    BY <1>5 DEF Ordered
  <2> QED BY <1>3, <2>1, <2>2, <2>3, <2>4 DEF Ordered
<1>11. Carried(pendingPatch', writes', write', stored', meant', lost')
  <2> SUFFICES ASSUME NEW f \in Fields \ lost'
               PROVE  \/ f \in Sets(pendingPatch) /\ pendingPatch.to[f] = meant[f]
                      \/ \E j \in 1..Len(writes) : write'[j] \in Unapplied /\ f \in Sets(writes[j])
                                                  /\ writes[j].to[f] = meant[f]
                      \/ stored'[f] = meant[f]
    BY <1>3 DEF Carried
  <2>0. f \notin lost
    BY <1>2
  <2>1. CASE f \in Sets(pendingPatch) /\ pendingPatch.to[f] = meant[f]
    BY <2>1
  <2>2. CASE stored[f] = meant[f]
    <3>1. CASE f \in taken
      <4>1. write[i] = "sent"
        BY <1>2, <1>3, <2>2, <3>1 DEF taken
      <4>2. stored[f] <= q.to[f] /\ q.to[f] <= meant[f] /\ q.to[f] \in Nat /\ meant[f] \in Nat
        BY <1>1, <1>7, <3>1, <4>1
      <4>3. q.to[f] = meant[f]
        BY <2>2, <4>2
      <4> QED BY <1>4, <3>1, <4>3
    <3>2. CASE f \notin taken
      <4>1. f \notin Forgotten(d)
        BY <1>2, <2>2, <3>2 DEF taken
      <4> QED BY <1>4, <2>2, <3>2, <4>1
    <3> QED BY <3>1, <3>2
  <2>3. ASSUME NEW j \in 1..Len(writes), write[j] \in Unapplied, f \in Sets(writes[j]),
               writes[j].to[f] = meant[f]
        PROVE  \/ \E k \in 1..Len(writes) : write'[k] \in Unapplied /\ f \in Sets(writes[k])
                                           /\ writes[k].to[f] = meant[f]
               \/ stored'[f] = meant[f]
    <3>1. CASE j = i
      <4>1. f \in taken
        BY <1>2, <2>3, <3>1 DEF taken
      <4> QED BY <1>4, <2>3, <3>1, <4>1
    <3>2. CASE j # i
      BY <1>6, <2>3, <3>2
    <3> QED BY <3>1, <3>2
  <2> QED BY <1>5, <2>0, <2>1, <2>2, <2>3 DEF Carried
<1>12. ASSUME NEW f \in Fields
       PROVE  \/ stored'[f] >= stored[f]
              \/ f \in Gateway /\ GatewayToken \notin gatewayHas
              \/ LateArrives(f)
  <2>0. stored[f] \in Nat
    BY <1>1
  <2>1. CASE f \in taken /\ write[i] = "sent"
    <3>1. stored'[f] = q.to[f] /\ stored[f] <= q.to[f] /\ q.to[f] \in Nat
      BY <1>4, <1>7, <2>1
    <3> QED BY <2>0, <3>1
  <2>2. CASE f \in taken /\ write[i] = "late"
    BY <1>4, <1>6, <2>2 DEF LateArrives
  <2>3. CASE f \notin taken
    BY <1>4, <2>0, <2>3
  <2> QED BY <1>3, <2>1, <2>2, <2>3
<1> QED BY <1>9, <1>10, <1>11, <1>12 DEF OnTheWay

\* A failed write keeps the rest on its way.
LEMMA FailsKeeps ==
  ASSUME WayInvariant, NEW i \in 1..Len(writes), WriteFails(i) PROVE OnTheWay'
<1>1. Len(writes) \in Nat /\ Len(write) = Len(writes)
  BY WayTypes DEF WayInvariant
<1>2. /\ UNCHANGED <<pendingPatch, writes, stored, meant, scheduled>> /\ write[i] \in {"sent", "applied"}
      /\ \E how \in {"late", "over"} : write' = [write EXCEPT ![i] = how]
      /\ lost \subseteq lost'
      /\ write[i] = "sent" => \A f \in Sets(writes[i]) : writes[i].to[f] = meant[f] => f \in lost'
  BY DEF WriteFails, hostFile
<1>3. PICK how \in {"late", "over"} : write' = [write EXCEPT ![i] = how]
  BY <1>2
<1>4. /\ InTurn(writes', write') /\ Ordered(pendingPatch', writes', write', stored', meant', scheduled')
  BY <1>2, <1>3, MovesOn DEF Unapplied, EndedWrite
<1>5. Carried(pendingPatch', writes', write', stored', meant', lost')
  <2> SUFFICES ASSUME NEW f \in Fields \ lost'
               PROVE  \/ f \in Sets(pendingPatch) /\ pendingPatch.to[f] = meant[f]
                      \/ \E j \in 1..Len(writes) : write'[j] \in Unapplied /\ f \in Sets(writes[j])
                                                  /\ writes[j].to[f] = meant[f]
                      \/ stored[f] = meant[f]
    BY <1>2 DEF Carried
  <2>1. f \notin lost
    BY <1>2
  <2>2. ~(write[i] \in Unapplied /\ f \in Sets(writes[i]) /\ writes[i].to[f] = meant[f])
    BY <1>2 DEF Unapplied
  <2>3. \A j \in 1..Len(writes) : j # i => write'[j] = write[j]
    BY <1>1, <1>3
  <2> QED BY <2>1, <2>2, <2>3 DEF WayInvariant, OnTheWay, Carried
<1> QED BY <1>4, <1>5 DEF OnTheWay

\* Sending a write keeps what is on its way.
LEMMA SendKeeps ==
  ASSUME WayInvariant, NEW i \in 1..Len(writes), SendWrite(i) PROVE OnTheWay'
<1>1. /\ Len(writes) \in Nat /\ Len(write) = Len(writes)
      /\ \A j \in 1..Len(writes) : write'[j] = IF j = i THEN "sent" ELSE write[j]
  BY WayTypes DEF WayInvariant, SendWrite
<1>2. UNCHANGED <<pendingPatch, writes, stored, meant, scheduled, lost>> /\ write[i] = "queued"
      /\ write' = [write EXCEPT ![i] = "sent"] /\ \A j \in 1..(i - 1) : write[j] \in EndedWrite
  BY DEF SendWrite, MaySend, EndedWrite, hostFile
<1>3. /\ InTurn(writes', write') /\ Ordered(pendingPatch', writes', write', stored', meant', scheduled')
  BY <1>2, MovesOn DEF Unapplied, EndedWrite
<1>4. Carried(pendingPatch', writes', write', stored', meant', lost')
  <2>1. \A j \in 1..Len(writes) : write[j] \in Unapplied => write'[j] \in Unapplied
    BY <1>1 DEF Unapplied
  <2> QED BY <1>2, <2>1 DEF WayInvariant, OnTheWay, Carried
<1> QED BY <1>3, <1>4 DEF OnTheWay

\* An answer keeps what is on its way.
LEMMA AnswerKeeps ==
  ASSUME WayInvariant, NEW i \in 1..Len(writes), WriteAnswered(i) PROVE OnTheWay'
<1>1. /\ Len(writes) \in Nat /\ Len(write) = Len(writes)
      /\ \A j \in 1..Len(writes) : write'[j] = IF j = i THEN "over" ELSE write[j]
  BY WayTypes DEF WayInvariant, WriteAnswered
<1>2. UNCHANGED <<pendingPatch, writes, stored, meant, scheduled, lost>> /\ write[i] = "applied"
      /\ write' = [write EXCEPT ![i] = "over"]
  BY DEF WriteAnswered, hostFile
<1>3. /\ InTurn(writes', write') /\ Ordered(pendingPatch', writes', write', stored', meant', scheduled')
  BY <1>2, MovesOn DEF Unapplied, EndedWrite
<1>4. Carried(pendingPatch', writes', write', stored', meant', lost')
  <2>1. \A j \in 1..Len(writes) : write[j] \in Unapplied => write'[j] = write[j]
    BY <1>1, <1>2 DEF Unapplied
  <2> QED BY <1>2, <2>1 DEF WayInvariant, OnTheWay, Carried
<1> QED BY <1>3, <1>4 DEF OnTheWay

-----------------------------------------------------------------------------
(* The theorems about writing                                              *)

\* Whatever is meant and not lost is in the file or on its way, in order.
THEOREM WayHolds == SettingsSpec => []WayInvariant
<1>1. SettingsInit /\ SettingsTypes => OnTheWay
  <2> SUFFICES ASSUME SettingsInit PROVE OnTheWay
    OBVIOUS
  <2>1. Len(writes) = 0 /\ 1..Len(writes) = {} /\ Sets(pendingPatch) = {}
    BY NothingToSet DEF SettingsInit
  <2>2. stored = Blank /\ meant = Blank /\ scheduled = 0 /\ \A f \in Fields : Blank[f] = 0
    BY DEF SettingsInit, Blank
  <2> QED BY <2>1, <2>2 DEF OnTheWay, InTurn, Ordered, Carried
<1>2. SettingsTypes /\ OnTheWay /\ [SettingsNext]_settings => OnTheWay'
  <2> SUFFICES ASSUME WayInvariant, [SettingsNext]_settings PROVE OnTheWay'
    BY DEF WayInvariant
  <2>1. ASSUME NEW shape \in Shapes, SchedulePatch(shape) PROVE OnTheWay'
    <3>1. Note(shape) /\ pendingPatch' = Collected(shape) /\ UNCHANGED <<writes, write, stored>>
      BY <2>1 DEF SchedulePatch, hostFile
    <3>2. /\ Ordered(Collected(shape), writes, write, stored, meant', scheduled')
          /\ Carried(Collected(shape), writes, write, stored, meant', lost')
      BY <3>1, CollectKeeps
    <3> QED BY <3>1, <3>2 DEF WayInvariant, OnTheWay, InTurn
  <2>2. ASSUME NEW shape \in Shapes, ApplyPatchNow(shape) PROVE OnTheWay'
    <3>1. Note(shape) /\ Flush(Collected(shape)) /\ UNCHANGED stored
      BY <2>2 DEF ApplyPatchNow, hostFile
    <3>2. /\ Ordered(Collected(shape), writes, write, stored, meant', scheduled')
          /\ Carried(Collected(shape), writes, write, stored, meant', lost')
      BY <3>1, CollectKeeps
    <3>3. Collected(shape) \in Patches
      BY <3>1, CollectType DEF WayInvariant
    <3>4. /\ InTurn(writes', write') /\ Ordered(pendingPatch', writes', write', stored, meant', scheduled')
          /\ Carried(pendingPatch', writes', write', stored, meant', lost')
      BY <3>1, <3>2, <3>3, FlushKeeps DEF WayInvariant, OnTheWay
    <3> QED BY <3>1, <3>4 DEF OnTheWay
  <2>3. CASE FlushPending
    <3>1. Flush(pendingPatch) /\ pendingPatch \in Patches /\ UNCHANGED <<stored, meant, scheduled, lost>>
      BY <2>3, WayTypes DEF FlushPending, hostFile, WayInvariant
    <3>2. /\ InTurn(writes', write') /\ Ordered(pendingPatch', writes', write', stored, meant, scheduled)
          /\ Carried(pendingPatch', writes', write', stored, meant, lost)
      BY <3>1, FlushKeeps DEF WayInvariant, OnTheWay
    <3> QED BY <3>1, <3>2 DEF OnTheWay
  <2>4. ASSUME NEW i \in 1..Len(writes),
               SendWrite(i) \/ HostWrites(i) \/ WriteAnswered(i) \/ WriteFails(i)
        PROVE  OnTheWay'
    BY <2>4, SendKeeps, HostKeeps, AnswerKeeps, FailsKeeps
  <2>5. CASE Dispose
    <3>1. Sets(pendingPatch') = {} /\ lost' = lost \cup Sets(pendingPatch)
          /\ UNCHANGED <<writes, write, stored, meant, scheduled>>
      BY <2>5, NothingToSet DEF Dispose, hostFile
    <3> QED BY <3>1 DEF WayInvariant, OnTheWay, InTurn, Ordered, Carried
  <2>6. CASE UNCHANGED <<pendingPatch, writes, write, stored, meant, scheduled, lost>>
    BY <2>6 DEF WayInvariant, OnTheWay
  <2>7. \/ CacheExpires \/ UNCHANGED settings
        \/ \E r \in Readers : LoadSettings(r) \/ HostReads(r) \/ LoadAnswered(r) \/ LoadFails(r)
        => UNCHANGED <<pendingPatch, writes, write, stored, meant, scheduled, lost>>
    BY DEF CacheExpires, settings, LoadSettings, HostReads, LoadAnswered, LoadFails, LoadOver, hostFile
  <2> QED BY <2>1, <2>2, <2>3, <2>4, <2>5, <2>6, <2>7 DEF SettingsNext
<1> QED BY <1>1, <1>2, SettingsTypeCorrect, PTL DEF SettingsSpec, WayInvariant

\* Once every write has ended, the file holds what the patches meant.
THEOREM NothingIsForgotten == SettingsSpec => []SettledIsMeant
<1>1. WayInvariant => SettledIsMeant
  BY NothingToSet DEF WayInvariant, OnTheWay, Carried, SettledIsMeant, Unapplied
<1> QED BY <1>1, WayHolds, PTL

\* No step puts an older change over a newer one, but a write that had failed
\* and the loading of a file whose gateway has no token.
THEOREM NewestStays == SettingsSpec => StoredAdvances
<1> DEFINE Newer == \A f \in Fields :
                      \/ stored'[f] >= stored[f]
                      \/ f \in Gateway /\ GatewayToken \notin gatewayHas
                      \/ LateArrives(f)
<1>1. WayInvariant /\ [SettingsNext]_settings => Newer
  <2> SUFFICES ASSUME WayInvariant, [SettingsNext]_settings PROVE Newer
    OBVIOUS
  <2>1. CASE UNCHANGED stored
    BY <2>1, WayTypes DEF WayInvariant
  <2>2. ASSUME NEW i \in 1..Len(writes), HostWrites(i) PROVE Newer
    BY <2>2, HostKeeps
  <2>3. UNCHANGED stored \/ \E i \in 1..Len(writes) : HostWrites(i)
    BY DEF SettingsNext, settings, SchedulePatch, ApplyPatchNow, FlushPending, SendWrite,
           WriteAnswered, WriteFails, Dispose, LoadSettings, HostReads, LoadAnswered, LoadFails,
           LoadOver, CacheExpires, hostFile
  <2> QED BY <2>1, <2>2, <2>3
<1> QED BY <1>1, WayHolds, PTL DEF StoredAdvances, SettingsSpec

-----------------------------------------------------------------------------
(* Reading: what was answered is in the file, and whoever forces a read    *)
(* waits for its own request.                                              *)

AnswersStored ==
    /\ acked <= fileVersion
    /\ \A r \in Readers : known[r] <= fileVersion
    /\ \A i \in 1..Len(writes) : write[i] = "applied" => reply[i] <= fileVersion
ForcedReads ==
    \A r \in Forcing :
        /\ awaits[r] \in {r, Nobody}
        /\ got[r] # NoSettings => got[r] >= known[r]
        /\ awaits[r] = r /\ load[r] = "read" => saw[r] >= known[r]
Fresh == AnswersStored /\ ForcedReads

\* The types that reading is about.
LEMMA ReadTypes ==
  ASSUME SettingsTypes
  PROVE  /\ fileVersion \in Nat /\ acked \in Nat
         /\ \A i \in 1..Len(writes) : reply[i] \in Nat
         /\ Len(write) = Len(writes) /\ Len(writes) \in Nat /\ Len(reply) = Len(writes)
         /\ writes \in Seq(Patches) /\ write \in Seq(WriteStates) /\ reply \in Seq(Nat)
         /\ load \in [Readers -> {"unused", "sent", "read", "over"}]
         /\ saw \in [Readers -> Nat] /\ known \in [Readers -> Nat]
         /\ got \in [Readers -> Nat \cup {NoSettings}]
         /\ awaits \in [Readers -> Readers \cup {Nobody}]
BY DEF SettingsTypes, SettingsTypeOK

\* Steps of the writes.
LEMMA WritesKeepFresh ==
  ASSUME SettingsTypes, Fresh, NEW i \in 1..Len(writes),
         SendWrite(i) \/ HostWrites(i) \/ WriteAnswered(i) \/ WriteFails(i)
  PROVE  Fresh'
<1>1. UNCHANGED <<writes, reading>>
  BY DEF SendWrite, HostWrites, WriteAnswered, WriteFails
<1>2. ForcedReads'
  BY <1>1 DEF Fresh, ForcedReads, reading
<1>3. /\ fileVersion \in Nat /\ fileVersion' \in Nat /\ fileVersion <= fileVersion'
      /\ acked' \in Nat /\ acked' <= fileVersion'
  BY ReadTypes DEF SendWrite, HostWrites, WriteAnswered, WriteFails, hostFile, Fresh, AnswersStored
<1>4. \A r \in Readers : known'[r] <= fileVersion'
  BY <1>1, <1>3, ReadTypes DEF reading, Fresh, AnswersStored
<1>5. ASSUME NEW j \in 1..Len(writes), write'[j] = "applied" PROVE reply'[j] <= fileVersion'
  <2>1. CASE j # i
    <3>1. write'[j] = write[j] /\ reply'[j] = reply[j]
      BY <2>1, ReadTypes DEF SendWrite, HostWrites, WriteAnswered, WriteFails
    <3> QED BY <1>3, <1>5, <3>1, ReadTypes DEF Fresh, AnswersStored
  <2>2. CASE j = i
    BY <1>3, <1>5, <2>2, ReadTypes DEF SendWrite, HostWrites, WriteAnswered, WriteFails
  <2> QED BY <2>1, <2>2
<1> QED BY <1>1, <1>2, <1>3, <1>4, <1>5 DEF Fresh, AnswersStored

\* Steps of the patches: new writes are queued, nothing is answered.
LEMMA PatchesKeepFresh ==
  ASSUME SettingsTypes, Fresh,
         FlushPending \/ Dispose \/ \E shape \in Shapes : SchedulePatch(shape) \/ ApplyPatchNow(shape)
  PROVE  Fresh'
<1>1. UNCHANGED <<fileVersion, acked, known, awaits, got, load, saw>>
  BY DEF FlushPending, Dispose, SchedulePatch, ApplyPatchNow, reading, hostFile
<1>2. \/ UNCHANGED <<writes, write, reply>>
      \/ \E p : writes' = Append(writes, p) /\ write' = Append(write, "queued")
                /\ reply' = Append(reply, 0)
  BY DEF FlushPending, Dispose, SchedulePatch, ApplyPatchNow, Flush
<1>3. ForcedReads'
  BY <1>1 DEF Fresh, ForcedReads
<1>4. ASSUME NEW j \in 1..Len(writes'), write'[j] = "applied"
      PROVE  j \in 1..Len(writes) /\ write[j] = "applied" /\ reply'[j] = reply[j]
  <2>1. CASE UNCHANGED <<writes, write, reply>>
    BY <1>4, <2>1
  <2>2. ASSUME NEW p, writes' = Append(writes, p), write' = Append(write, "queued"),
               reply' = Append(reply, 0)
        PROVE  j \in 1..Len(writes) /\ write[j] = "applied" /\ reply'[j] = reply[j]
    <3>1. Len(writes') = Len(writes) + 1
      BY <2>2, ReadTypes
    <3>2. write'[Len(writes) + 1] = "queued"
          /\ \A k \in 1..Len(writes) : write'[k] = write[k] /\ reply'[k] = reply[k]
      BY <2>2, <3>1, ReadTypes
    <3> QED BY <1>4, <3>1, <3>2, ReadTypes
  <2> QED BY <1>2, <2>1, <2>2
<1> QED BY <1>1, <1>3, <1>4 DEF Fresh, AnswersStored

\* A call of loadSettings keeps forced reads fresh.
LEMMA LoadKeepsFresh ==
  ASSUME SettingsTypes, Fresh, NEW r \in Readers, LoadSettings(r)
  PROVE  Fresh'
<1>1. /\ UNCHANGED <<fileVersion, acked, writes, write, reply, saw>>
      /\ \A q \in Readers : known'[q] = IF q # r THEN known[q]
                                        ELSE IF r \in Forcing THEN acked ELSE 0
      /\ \A q \in Readers : q # r => awaits'[q] = awaits[q] /\ got'[q] = got[q] /\ load'[q] = load[q]
      /\ r \in Forcing => awaits'[r] = r /\ load'[r] = "sent" /\ got'[r] = NoSettings
  BY ReadTypes DEF LoadSettings, StartsOwn, hostFile
<1>2. AnswersStored'
  BY <1>1, ReadTypes DEF Fresh, AnswersStored
<1>3. ForcedReads'
  BY <1>1 DEF Fresh, ForcedReads
<1> QED BY <1>2, <1>3 DEF Fresh

\* The host's answer to a load, or its failure, keeps forced reads fresh.
LEMMA ReadKeepsFresh ==
  ASSUME SettingsTypes, Fresh, NEW r \in Readers, HostReads(r) \/ LoadAnswered(r) \/ LoadFails(r)
  PROVE  Fresh'
<1>1. UNCHANGED <<fileVersion, acked, writes, write, reply, known>>
  BY DEF HostReads, LoadAnswered, LoadFails, LoadOver, hostFile
<1>2. AnswersStored'
  BY <1>1 DEF Fresh, AnswersStored
<1>3. ForcedReads'
  <2> SUFFICES ASSUME NEW q \in Forcing
               PROVE  /\ awaits'[q] \in {q, Nobody}
                      /\ got'[q] # NoSettings => got'[q] >= known[q]
                      /\ awaits'[q] = q /\ load'[q] = "read" => saw'[q] >= known[q]
    BY <1>1 DEF ForcedReads
  <2>f. /\ q \in Readers /\ q # Nobody /\ awaits[q] \in {q, Nobody}
        /\ got[q] # NoSettings => got[q] >= known[q]
        /\ awaits[q] = q /\ load[q] = "read" => saw[q] >= known[q]
        /\ known[q] <= fileVersion /\ known[q] \in Nat /\ fileVersion \in Nat
    BY ReadTypes DEF Fresh, AnswersStored, ForcedReads
  <2>1. CASE HostReads(r)
    <3>1. /\ UNCHANGED <<awaits, got>>
          /\ load'[q] = IF q = r THEN "read" ELSE load[q]
          /\ saw'[q] = IF q = r THEN fileVersion ELSE saw[q]
      BY <2>1, <2>f, ReadTypes DEF HostReads
    <3> QED BY <2>f, <3>1
  <2>2. CASE LoadAnswered(r)
    <3>1. /\ load[r] = "read"
          /\ load'[q] = IF q = r THEN "over" ELSE load[q]
          /\ saw'[q] = IF q = r THEN 0 ELSE saw[q]
          /\ got'[q] = IF awaits[q] = r THEN saw[r] ELSE got[q]
          /\ awaits'[q] = IF awaits[q] = r THEN Nobody ELSE awaits[q]
      BY <2>2, <2>f, ReadTypes DEF LoadAnswered, LoadOver
    <3>2. awaits[q] = r => q = r
      BY <2>f
    <3> QED BY <2>f, <3>1, <3>2
  <2>3. CASE LoadFails(r)
    <3>1. /\ load'[q] = IF q = r THEN "over" ELSE load[q]
          /\ saw'[q] = IF q = r THEN 0 ELSE saw[q]
          /\ got'[q] = got[q] /\ awaits'[q] = IF awaits[q] = r THEN Nobody ELSE awaits[q]
      BY <2>3, <2>f, ReadTypes DEF LoadFails, LoadOver
    <3> QED BY <2>f, <3>1
  <2> QED BY <2>1, <2>2, <2>3
<1> QED BY <1>2, <1>3 DEF Fresh

\* A forced read is at least as new as every write answered before it began.
THEOREM ForcedReadsAreFresh == SettingsSpec => []ForcedIsFresh
<1>1. SettingsInit => Fresh
  BY DEF SettingsInit, Fresh, AnswersStored, ForcedReads
<1>2. SettingsTypes /\ Fresh /\ [SettingsNext]_settings => Fresh'
  <2> SUFFICES ASSUME SettingsTypes, Fresh, [SettingsNext]_settings PROVE Fresh'
    OBVIOUS
  <2>1. CASE CacheExpires \/ UNCHANGED settings
    <3>1. UNCHANGED <<fileVersion, acked, writes, write, reply, known, awaits, got, load, saw>>
      BY <2>1 DEF CacheExpires, settings, reading, hostFile
    <3> QED BY <3>1 DEF Fresh, AnswersStored, ForcedReads
  <2> QED BY <2>1, WritesKeepFresh, PatchesKeepFresh, LoadKeepsFresh, ReadKeepsFresh DEF SettingsNext
<1>3. Fresh => ForcedIsFresh
  BY DEF Fresh, ForcedReads, ForcedIsFresh
<1> QED BY <1>1, <1>2, <1>3, SettingsTypeCorrect, PTL DEF SettingsSpec

HIDE SettingsAssumption

-----------------------------------------------------------------------------
(* TaskBoard                                                               *)

\* A set of positions has a least one (a prefix of the naturals for each
\* position, and no chain of strict prefixes descends for ever).
LEMMA MinIsMember ==
  ASSUME NEW n \in Nat, NEW A \in SUBSET (1..n), A # {}
  PROVE  Min(A) \in A
<1> DEFINE T == {1..i : i \in A}
           R == StrictSubsetOrdering(1..n)
<1>1. IsFiniteSet(1..n)
  BY FS_Interval
<1>2. IsWellFoundedOn(R, FiniteSubsetsOf(1..n))
  BY FS_StrictSubsetOrderingWellFounded
<1>3. T \subseteq FiniteSubsetsOf(1..n) /\ T # {}
  <2>1. ASSUME NEW i \in A PROVE (1..i) \in FiniteSubsetsOf(1..n)
    <3>1. IsFiniteSet(1..i)
      BY FS_Interval
    <3>2. (1..i) \subseteq (1..n)
      OBVIOUS
    <3> QED BY <3>1, <3>2 DEF FiniteSubsetsOf
  <2> QED BY <2>1
<1>4. PICK x \in T : \A y \in T : <<y, x>> \notin R
  BY <1>2, <1>3, WFMin
<1>5. PICK i \in A : x = 1..i
  OBVIOUS
<1>6. \A j \in A : i <= j
  <2> SUFFICES ASSUME NEW j \in A, j < i PROVE FALSE
    OBVIOUS
  <2>1. (1..j) \subseteq (1..i) /\ (1..j) # (1..i)
    OBVIOUS
  <2>2. <<1..j, x>> \in R
    BY <2>1, <1>5, <1>3 DEF StrictSubsetOrdering, FiniteSubsetsOf
  <2> QED BY <2>2, <1>4
<1> QED BY <1>6 DEF Min

\* A sequence begins what is appended to it.
LEMMA PrefixOfLonger ==
  ASSUME NEW S, NEW s \in Seq(S), NEW t \in Seq(S) PROVE IsPrefix(s, s \o t)
BY DEF IsPrefix

\* Removing one place shifts those behind it.
LEMMA Removal ==
  ASSUME NEW S, NEW s \in Seq(S), NEW k \in 1..Len(s)
  PROVE  /\ RemoveAt(s, k) \in Seq(S) /\ Len(RemoveAt(s, k)) = Len(s) - 1
         /\ \A i \in 1..(Len(s) - 1) : RemoveAt(s, k)[i] = IF i < k THEN s[i] ELSE s[i + 1]
<1> DEFINE a == SubSeq(s, 1, k - 1)
           b == SubSeq(s, k + 1, Len(s))
<1>1. a \in Seq(S) /\ Len(a) = k - 1 /\ \A i \in 1..(k - 1) : a[i] = s[i]
  OBVIOUS
<1>2. b \in Seq(S) /\ Len(b) = Len(s) - k /\ \A i \in 1..(Len(s) - k) : b[i] = s[k + i]
  OBVIOUS
<1>3. RemoveAt(s, k) = a \o b
  BY DEF RemoveAt
<1> HIDE DEF a, b
<1>4. a \o b \in Seq(S) /\ Len(a \o b) = Len(s) - 1
  <2>0. a \in Seq(S) /\ b \in Seq(S)
    BY <1>1, <1>2
  <2>1. a \o b \in Seq(S) /\ Len(a \o b) = Len(a) + Len(b)
    BY <2>0
  <2>2. Len(s) \in Nat
    OBVIOUS
  <2> QED BY <1>1, <1>2, <2>1, <2>2
<1>5. ASSUME NEW i \in 1..(Len(s) - 1)
      PROVE  (a \o b)[i] = IF i < k THEN s[i] ELSE s[i + 1]
  <2>1. CASE i < k
    BY <1>1, <1>2, <2>1
  <2>2. CASE ~(i < k)
    <3>1. (a \o b)[i] = b[i - (k - 1)]
      BY <1>1, <1>2, <2>2
    <3>2. i - (k - 1) \in 1..(Len(s) - k) /\ k + (i - (k - 1)) = i + 1
      BY <2>2
    <3>3. b[i - (k - 1)] = s[k + (i - (k - 1))]
      BY <1>2, <3>2
    <3> QED BY <2>2, <3>1, <3>2, <3>3
  <2> QED BY <2>1, <2>2
<1> QED BY <1>3, <1>4, <1>5

\* What a history says of a change.
Marks == {"created", "archived", "status_changed", "updated"}
Records == [id : Cards, status : Statuses, archived : BOOLEAN, at : Nat, history : Seq(Marks)]

\* A file of tasks: each task once, and no more than fit.
FileFits(ts) ==
    /\ ts \in Seq(Records) /\ Len(ts) <= StoreLimit
    /\ \A i, j \in DOMAIN ts : ts[i].id = ts[j].id => i = j

\* A request and what a window remembers with it: whoever may still be answered
\* has a task and a window, and a card to put back.
Posted == [stage : {"none", "sent", "answered", "missing", "over"},
           kind : {"none", "create", "capture", "move", "remove"},
           win : Windows \cup {NoCard}, card : Cards \cup {NoCard},
           content : Contents, before : Contents \cup {NoCard},
           answer : Contents \cup {NoCard}, tries : Nat, strays : Nat]
StillOpen(q) == q.stage \in {"sent", "answered", "missing"}
PostFits(q) ==
    /\ q \in Posted
    /\ q.kind # "none" => q.win \in Windows /\ q.card \in Cards
    /\ StillOpen(q) \/ q.strays > 0 => q.kind # "none"
    /\ q.stage = "answered" => q.answer \in Contents
    /\ StillOpen(q) /\ q.kind \in {"move", "remove"} => q.before \in Contents

\* The inductive invariant: all of the file, the requests, the lists and the
\* boards is well formed, and an unspoilt file can be read.
BoardInvariant ==
    /\ FileFits(tasks)
    /\ intact \in BOOLEAN /\ damages \in Nat /\ (damages = 0 => intact)
    /\ boards \in [Windows -> Sheets]
    /\ posts \in [Changes -> Posted] /\ \A c \in Changes : PostFits(posts[c])
    /\ lists \in [Windows -> [stage : {"none", "sent", "answered"}, cards : Sheets]]
    /\ polling \in [Windows -> BOOLEAN]
    /\ \A w \in Windows : polling[w] <=> lists[w].stage # "none"

\* A task is found by its id, for there is only one.
LEMMA TheOne ==
  ASSUME NEW ts, FileFits(ts), NEW k \in DOMAIN ts
  PROVE  /\ Has(ts, ts[k].id) /\ The(ts, ts[k].id) = ts[k]
         /\ ts[k] \in Records
<1>1. ts[k] \in Range(ts) /\ \A r \in Range(ts) : r.id = ts[k].id => r = ts[k]
  BY DEF FileFits, Range
<1>2. Has(ts, ts[k].id)
  BY DEF Has
<1>3. The(ts, ts[k].id) = ts[k]
  BY <1>1 DEF The
<1>4. ts[k] \in Records
  BY DEF FileFits
<1> QED BY <1>2, <1>3, <1>4

\* What the host writes into a history goes behind what is there.
LEMMA HistoryGrows ==
  ASSUME NEW old \in Records, NEW new \in Records
  PROVE  /\ HistoryOf(old, new) \in Seq(Marks)
         /\ IsPrefix(old.history, HistoryOf(old, new))
<1>1. old.history \in Seq(Marks)
  BY DEF Records
<1>2. Gains(old, new) \in Seq(Marks)
  <2>1. <<>> \in Seq(Marks) /\ \A m \in Marks : <<m>> \in Seq(Marks)
    OBVIOUS
  <2>2. Gains(old, new) \in {<<"archived">>, <<"status_changed">>, <<"updated">>, <<>>}
    BY DEF Gains
  <2> QED BY <2>1, <2>2 DEF Marks
<1> QED BY <1>1, <1>2, PrefixOfLonger DEF HistoryOf

\* Writing a task that is stored keeps all the others and its own history.
LEMMA KnownIsReplaced ==
  ASSUME NEW ts, FileFits(ts), NEW new \in Records, Has(ts, new.id)
  PROVE  LET us == Upserted(ts, new) IN
         /\ FileFits(us) /\ DOMAIN us = DOMAIN ts
         /\ \A i \in DOMAIN ts : us[i].id = ts[i].id /\ IsPrefix(ts[i].history, us[i].history)
<1> DEFINE us == Upserted(ts, new)
<1>1. us = [i \in DOMAIN ts |->
             IF ts[i].id = new.id THEN [new EXCEPT !.history = HistoryOf(ts[i], new)] ELSE ts[i]]
  BY DEF Upserted
<1>2. ts \in Seq(Records) /\ DOMAIN ts = 1..Len(ts) /\ Len(ts) \in Nat
  BY DEF FileFits
<1> HIDE DEF us
<1>3. ASSUME NEW i \in DOMAIN ts
      PROVE  us[i] \in Records /\ us[i].id = ts[i].id /\ IsPrefix(ts[i].history, us[i].history)
  <2>1. ts[i] \in Records
    BY <1>2
  <2>2. CASE ts[i].id = new.id
    <3>1. us[i] = [new EXCEPT !.history = HistoryOf(ts[i], new)]
      BY <1>1, <2>2
    <3>2. HistoryOf(ts[i], new) \in Seq(Marks) /\ IsPrefix(ts[i].history, HistoryOf(ts[i], new))
      BY <2>1, HistoryGrows
    <3>3. us[i] \in Records /\ us[i].id = new.id /\ us[i].history = HistoryOf(ts[i], new)
      BY <3>1, <3>2 DEF Records
    <3> QED BY <2>2, <3>2, <3>3
  <2>3. CASE ts[i].id # new.id
    <3>1. us[i] = ts[i]
      BY <1>1, <2>3
    <3>2. ts[i].history \in Seq(Marks)
      BY <2>1 DEF Records
    <3>3. IsPrefix(ts[i].history, ts[i].history)
      BY <3>2 DEF IsPrefix
    <3> QED BY <2>1, <3>1, <3>3
  <2> QED BY <2>2, <2>3
<1>4. DOMAIN us = 1..Len(ts)
  BY <1>1, <1>2
<1>5. us \in Seq(Records) /\ Len(us) = Len(ts)
  <2>1. us \in [1..Len(ts) -> Records]
    BY <1>1, <1>2, <1>3
  <2> QED BY <2>1, <1>2
<1>6. FileFits(us)
  BY <1>2, <1>3, <1>4, <1>5 DEF FileFits
<1> QED BY <1>2, <1>3, <1>4, <1>6 DEF us

\* Where there is room a new task goes behind the others.
LEMMA NewIsAppended ==
  ASSUME NEW ts \in Seq(Records), FileFits(ts), NEW new \in Records, ~Has(ts, new.id),
         Len(ts) < StoreLimit, BoardAssumption
  PROVE  LET us == Append(ts, [new EXCEPT !.history = <<"created">>]) IN
         /\ FileFits(us) /\ Has(us, new.id)
         /\ Len(us) = Len(ts) + 1 /\ us[Len(us)].id = new.id
         /\ \A i \in DOMAIN ts : i \in DOMAIN us /\ us[i] = ts[i]
<1> DEFINE last == [new EXCEPT !.history = <<"created">>]
           us == Append(ts, last)
<1>1. last \in Records /\ last.id = new.id
  <2>1. <<"created">> \in Seq(Marks)
    BY DEF Marks
  <2> QED BY <2>1 DEF Records
<1> HIDE DEF last
<1>2. us \in Seq(Records) /\ Len(us) = Len(ts) + 1 /\ us[Len(ts) + 1] = last
  BY <1>1
<1>3. \A i \in 1..Len(ts) : us[i] = ts[i]
  BY <1>1
<1>4. Len(us) <= StoreLimit
  BY <1>2 DEF BoardAssumption
<1> HIDE DEF us
<1>5. DOMAIN ts = 1..Len(ts) /\ DOMAIN us = 1..(Len(ts) + 1) /\ Len(ts) \in Nat
  BY <1>2
<1>6. \A i \in DOMAIN ts : ts[i].id # new.id
  BY DEF Has
<1>7. ASSUME NEW i \in DOMAIN us, NEW j \in DOMAIN us, us[i].id = us[j].id PROVE i = j
  <2>1. CASE i \in DOMAIN ts /\ j \in DOMAIN ts
    BY <1>3, <1>5, <1>7, <2>1 DEF FileFits
  <2>2. CASE i \notin DOMAIN ts \/ j \notin DOMAIN ts
    BY <1>1, <1>2, <1>3, <1>5, <1>6, <1>7, <2>2
  <2> QED BY <2>1, <2>2
<1>8. FileFits(us)
  BY <1>2, <1>4, <1>7 DEF FileFits
<1>9. Has(us, new.id)
  BY <1>1, <1>2, <1>5 DEF Has
<1> QED BY <1>1, <1>2, <1>3, <1>5, <1>8, <1>9 DEF us, last

\* Where there is none, an archived task leaves, or the first of open ones.
LEMMA OneLeaves ==
  ASSUME NEW ts, FileFits(ts), Len(ts) >= StoreLimit, BoardAssumption
  PROVE  LET k == Leaver(ts)
             rest == RemoveAt(ts, k)
         IN /\ k \in DOMAIN ts
            /\ ts[k].archived \/ \A j \in DOMAIN ts : ~ts[j].archived
            /\ rest \in Seq(Records) /\ FileFits(rest) /\ Len(rest) = StoreLimit - 1
            /\ ~Has(rest, ts[k].id)
            /\ \A j \in DOMAIN ts \ {k} : \E i \in DOMAIN rest : rest[i] = ts[j]
            /\ \A i \in DOMAIN rest : \E j \in DOMAIN ts \ {k} : rest[i] = ts[j]
<1> DEFINE k == Leaver(ts)
           rest == RemoveAt(ts, k)
           gone == {i \in DOMAIN ts : ts[i].archived}
<1>1. /\ ts \in Seq(Records) /\ DOMAIN ts = 1..Len(ts)
      /\ Len(ts) = StoreLimit /\ StoreLimit \in Nat \ {0}
  BY DEF FileFits, BoardAssumption
<1>2. k \in DOMAIN ts /\ (ts[k].archived \/ \A j \in DOMAIN ts : ~ts[j].archived)
  <2>1. CASE gone = {}
    <3>1. k = 1
      BY <2>1 DEF Leaver
    <3> QED BY <1>1, <2>1, <3>1
  <2>2. CASE gone # {}
    <3>1. k = Min(gone)
      BY <2>2 DEF Leaver
    <3>2. Min(gone) \in gone
      BY <1>1, <2>2, MinIsMember
    <3> QED BY <3>1, <3>2
  <2> QED BY <2>1, <2>2
<1> HIDE DEF k
<1>3. /\ rest \in Seq(Records) /\ Len(rest) = Len(ts) - 1
      /\ \A i \in 1..(Len(ts) - 1) : rest[i] = IF i < k THEN ts[i] ELSE ts[i + 1]
  BY <1>1, <1>2, Removal
<1> HIDE DEF rest
<1>4. DOMAIN rest = 1..(Len(ts) - 1)
  BY <1>3
<1>5. ASSUME NEW j \in DOMAIN ts \ {k} PROVE \E i \in DOMAIN rest : rest[i] = ts[j]
  <2>1. CASE j < k
    <3>1. j \in DOMAIN rest /\ rest[j] = ts[j]
      BY <1>1, <1>2, <1>3, <1>4, <2>1
    <3> QED BY <3>1
  <2>2. CASE j > k
    <3>1. j - 1 \in 1..(Len(ts) - 1) /\ ~(j - 1 < k) /\ (j - 1) + 1 = j
      BY <1>1, <1>2, <2>2
    <3>2. rest[j - 1] = ts[(j - 1) + 1]
      BY <1>3, <3>1
    <3> QED BY <1>4, <3>1, <3>2
  <2> QED BY <1>1, <1>2, <2>1, <2>2
<1>6. ASSUME NEW i \in DOMAIN rest
      PROVE  LET j == IF i < k THEN i ELSE i + 1
             IN j \in DOMAIN ts \ {k} /\ rest[i] = ts[j]
  BY <1>1, <1>2, <1>3, <1>4
<1>7. ~Has(rest, ts[k].id)
  BY <1>2, <1>6 DEF Has, FileFits
<1>8. ASSUME NEW i \in DOMAIN rest, NEW j \in DOMAIN rest, rest[i].id = rest[j].id PROVE i = j
  <2>1. (IF i < k THEN i ELSE i + 1) = (IF j < k THEN j ELSE j + 1)
    BY <1>6, <1>8 DEF FileFits
  <2> QED BY <1>1, <1>2, <1>4, <2>1
<1>9. FileFits(rest)
  BY <1>1, <1>3, <1>8 DEF FileFits
<1>10. \A i \in DOMAIN rest : \E j \in DOMAIN ts \ {k} : rest[i] = ts[j]
  BY <1>6
<1> QED BY <1>1, <1>2, <1>3, <1>5, <1>7, <1>9, <1>10 DEF k, rest

\* What is written has what was there, or lets one go for the new one.
LEMMA UpsertKeeps ==
  ASSUME NEW ts, FileFits(ts), NEW new \in Records, BoardAssumption
  PROVE  LET us == Upserted(ts, new) IN
         /\ FileFits(us) /\ Has(us, new.id)
         /\ \A i \in DOMAIN ts :
               \/ \E k \in DOMAIN us : us[k].id = ts[i].id /\ IsPrefix(ts[i].history, us[k].history)
               \/ /\ Len(ts) = StoreLimit /\ Len(us) = StoreLimit
                  /\ ~Has(us, ts[i].id)
                  /\ \A j \in DOMAIN ts \ {i} : Has(us, ts[j].id)
                  /\ ts[i].archived \/ \A j \in DOMAIN ts : ~ts[j].archived
<1> DEFINE us == Upserted(ts, new)
           last == [new EXCEPT !.history = <<"created">>]
<1>1. ts \in Seq(Records) /\ Len(ts) \in Nat /\ Len(ts) <= StoreLimit /\ StoreLimit \in Nat
  BY DEF FileFits, BoardAssumption
<1>2. \A i \in DOMAIN ts : ts[i].history \in Seq(Marks) /\ IsPrefix(ts[i].history, ts[i].history)
  <2> SUFFICES ASSUME NEW i \in DOMAIN ts
               PROVE  ts[i].history \in Seq(Marks) /\ IsPrefix(ts[i].history, ts[i].history)
    OBVIOUS
  <2>1. ts[i] \in Records
    BY <1>1
  <2>2. ts[i].history \in Seq(Marks)
    BY <2>1 DEF Records
  <2> QED BY <2>2 DEF IsPrefix
<1>3. CASE Has(ts, new.id)
  <2>1. /\ FileFits(us) /\ DOMAIN us = DOMAIN ts
        /\ \A i \in DOMAIN ts : us[i].id = ts[i].id /\ IsPrefix(ts[i].history, us[i].history)
    BY <1>3, KnownIsReplaced
  <2>2. Has(us, new.id)
    BY <1>3, <2>1 DEF Has
  <2> QED BY <2>1, <2>2
<1>4. CASE ~Has(ts, new.id) /\ Len(ts) < StoreLimit
  <2>1. us = Append(ts, last)
    BY <1>1, <1>4 DEF Upserted
  <2>2. /\ FileFits(Append(ts, last)) /\ Has(Append(ts, last), new.id)
        /\ \A i \in DOMAIN ts : i \in DOMAIN Append(ts, last) /\ Append(ts, last)[i] = ts[i]
    BY <1>1, <1>4, NewIsAppended
  <2> HIDE DEF us, last
  <2>3. /\ FileFits(us) /\ Has(us, new.id)
        /\ \A i \in DOMAIN ts : i \in DOMAIN us /\ us[i] = ts[i]
    BY <2>1, <2>2
  <2> QED BY <1>2, <2>3 DEF us
<1>5. CASE ~Has(ts, new.id) /\ Len(ts) >= StoreLimit
  <2> DEFINE k == Leaver(ts)
             rest == RemoveAt(ts, k)
  <2>1. us = Append(rest, last)
    BY <1>1, <1>5 DEF Upserted
  <2>2. /\ k \in DOMAIN ts
        /\ ts[k].archived \/ \A j \in DOMAIN ts : ~ts[j].archived
        /\ rest \in Seq(Records) /\ FileFits(rest) /\ Len(rest) = StoreLimit - 1
        /\ ~Has(rest, ts[k].id)
        /\ \A j \in DOMAIN ts \ {k} : \E i \in DOMAIN rest : rest[i] = ts[j]
        /\ \A i \in DOMAIN rest : \E j \in DOMAIN ts \ {k} : rest[i] = ts[j]
    BY <1>5, OneLeaves
  <2> HIDE DEF k, rest
  <2>3. ~Has(rest, new.id)
    BY <1>5, <2>2 DEF Has
  <2>4. /\ FileFits(Append(rest, last)) /\ Has(Append(rest, last), new.id)
        /\ Len(Append(rest, last)) = Len(rest) + 1
        /\ Append(rest, last)[Len(Append(rest, last))].id = new.id
        /\ \A i \in DOMAIN rest : i \in DOMAIN Append(rest, last) /\ Append(rest, last)[i] = rest[i]
    <3>1. Len(rest) < StoreLimit
      BY <1>1, <2>2
    <3> QED BY <2>2, <2>3, <3>1, NewIsAppended
  <2> HIDE DEF us, last
  <2>5. /\ FileFits(us) /\ Has(us, new.id)
        /\ Len(us) = Len(rest) + 1 /\ us[Len(us)].id = new.id
        /\ \A i \in DOMAIN rest : i \in DOMAIN us /\ us[i] = rest[i]
    BY <2>1, <2>4
  <2>6. ASSUME NEW j \in DOMAIN ts \ {k} PROVE \E i \in DOMAIN us : us[i] = ts[j]
    BY <2>2, <2>5
  <2>7. \A j \in DOMAIN ts \ {k} : Has(us, ts[j].id)
    BY <2>6 DEF Has
  <2>8. ~Has(us, ts[k].id)
    <3> SUFFICES ASSUME NEW i \in DOMAIN us, us[i].id = ts[k].id PROVE FALSE
      BY DEF Has
    <3>1. us \in Seq(Records) /\ rest \in Seq(Records)
      BY <2>2, <2>5 DEF FileFits
    <3>2. i \in DOMAIN rest \/ i = Len(us)
      BY <2>5, <3>1
    <3>3. i \notin DOMAIN rest
      BY <2>2, <2>5 DEF Has
    <3>4. new.id = ts[k].id
      BY <2>5, <3>2, <3>3
    <3> QED BY <1>5, <2>2, <3>4 DEF Has
  <2>9. Len(ts) = StoreLimit /\ Len(us) = StoreLimit
    BY <1>1, <1>5, <2>2, <2>5
  <2> QED BY <1>2, <2>2, <2>5, <2>6, <2>7, <2>8, <2>9 DEF us
<1> QED BY <1>1, <1>3, <1>4, <1>5

\* The file of before has each task once.
LEMMA BoardStarts == ASSUME BoardAssumption, BoardInit PROVE BoardInvariant
<1>1. New \in Contents /\ NoSheet \in Sheets
  BY DEF New, Contents, NoSheet, Sheets, BoardAssumption
<1>2. FileFits(tasks)
  <2>1. CASE tasks = <<>>
    BY <2>1 DEF FileFits, BoardAssumption
  <2>2. CASE tasks # <<>>
    <3> DEFINE old == SetToSeq(Old)
               n == Cardinality(Old)
    <3>1. n \in Nat /\ \E f \in [1..n -> Old] : IsInjective(f)
      BY FS_CardinalityType DEF BoardAssumption, ExistsBijection, Bijection, Injection
    <3>2. old \in [1..n -> Old] /\ IsInjective(old)
      BY <3>1 DEF SetToSeq
    <3>3. PICK gone \in [Old -> BOOLEAN] :
             tasks = [i \in DOMAIN old |->
                        [id |-> old[i], status |-> "todo", archived |-> gone[old[i]],
                         at |-> 0, history |-> <<"created">>]]
      BY <2>2 DEF BoardInit
    <3> HIDE DEF old, n
    <3>4. <<"created">> \in Seq(Marks)
      BY DEF Marks
    <3>5. tasks \in [1..n -> Records]
      BY <3>2, <3>3, <3>4 DEF Records, Cards, BoardAssumption
    <3>6. \A i, j \in DOMAIN tasks : tasks[i].id = tasks[j].id => i = j
      BY <3>2, <3>3 DEF IsInjective
    <3>7. tasks \in Seq(Records) /\ Len(tasks) = n
      BY <3>1, <3>5
    <3> QED BY <3>6, <3>7 DEF FileFits, BoardAssumption, n
  <2> QED BY <2>1, <2>2
<1>3. boards \in [Windows -> Sheets]
  <2>1. [t \in Cards |-> IF t \in Old THEN New ELSE NoCard] \in Sheets
    BY <1>1 DEF Sheets
  <2> QED BY <1>1, <2>1 DEF BoardInit
<1>4. PostFits(Unsent)
  <2>1. Unsent \in Posted
    BY <1>1 DEF Unsent, Posted
  <2> QED BY <2>1 DEF PostFits, Unsent, StillOpen
<1>5. posts \in [Changes -> Posted] /\ \A c \in Changes : PostFits(posts[c])
  BY <1>4 DEF BoardInit, PostFits
<1>6. NoList \in [stage : {"none", "sent", "answered"}, cards : Sheets] /\ NoList.stage = "none"
  BY <1>1 DEF NoList
<1> QED BY <1>2, <1>3, <1>5, <1>6 DEF BoardInvariant, BoardInit

-----------------------------------------------------------------------------
(* The windows' steps.                                                     *)

\* A request that is over is still a request, for its strays.
LEMMA PostIsOver ==
  ASSUME NEW q \in Posted, q.kind # "none" => q.win \in Windows /\ q.card \in Cards,
         q.strays > 0 => q.kind # "none", BoardAssumption
  PROVE  PostFits(PostOver(q))
<1>1. New \in Contents
  BY DEF New, Contents, BoardAssumption
<1>2. PostOver(q) \in Posted
  BY <1>1 DEF PostOver, Posted
<1>3. /\ PostOver(q).stage = "over" /\ PostOver(q).kind = q.kind /\ PostOver(q).win = q.win
      /\ PostOver(q).card = q.card /\ PostOver(q).strays = q.strays
  BY DEF PostOver, Posted
<1> QED BY <1>2, <1>3 DEF PostFits, StillOpen

\* Showing a card.
LEMMA CardShown ==
  ASSUME boards \in [Windows -> Sheets], NEW w \in Windows, NEW t \in Cards,
         NEW content \in Contents, Shows(w, t, content)
  PROVE  boards' \in [Windows -> Sheets]
<1>1. boards[w] \in Sheets
  OBVIOUS
<1>2. [boards[w] EXCEPT ![t] = content] \in Sheets
  BY <1>1 DEF Sheets
<1>3. boards' = [boards EXCEPT ![w] = [boards[w] EXCEPT ![t] = content]]
  BY DEF Shows
<1> QED BY <1>2, <1>3

\* Putting one back.
LEMMA CardPutBack ==
  ASSUME boards \in [Windows -> Sheets], NEW q \in Posted, q.kind # "none",
         q.win \in Windows, q.card \in Cards, q.kind \in {"move", "remove"} => q.before \in Contents,
         PutsBack(q), BoardAssumption
  PROVE  boards' \in [Windows -> Sheets]
<1>1. New \in Contents
  BY DEF New, Contents, BoardAssumption
<1>2. CASE q.kind = "create"
  <2>1. Shows(q.win, q.card, New)
    BY <1>2 DEF PutsBack
  <2> QED BY <1>1, <2>1, CardShown
<1>3. CASE q.kind = "capture"
  BY <1>3 DEF PutsBack
<1>4. CASE q.kind \in {"move", "remove"}
  <2>1. Shows(q.win, q.card, q.before)
    BY <1>4 DEF PutsBack
  <2> QED BY <1>4, <2>1, CardShown
<1> QED BY <1>2, <1>3, <1>4 DEF Posted

\* What a window sends is a request as the host expects it.
LEMMA ChangePosted ==
  ASSUME BoardInvariant, BoardAssumption,
         NEW kind \in {"create", "capture", "move", "remove"}, NEW w \in Windows, NEW t \in Cards,
         NEW content \in Contents, NEW before \in Contents \cup {NoCard},
         kind \in {"move", "remove"} => before \in Contents,
         Posts(kind, w, t, content, before)
  PROVE  /\ posts' \in [Changes -> Posted] /\ \A c \in Changes : PostFits(posts'[c])
         /\ UNCHANGED <<tasks, intact, lists, polling, damages>>
<1> DEFINE q == [Unsent EXCEPT !.stage = "sent", !.kind = kind, !.win = w, !.card = t,
                               !.content = content, !.before = before]
<1>1. PICK c \in Changes : posts' = [posts EXCEPT ![c] = q]
  BY DEF Posts, NextChange
<1>2. PostFits(q)
  <2>1. q \in Posted
    BY DEF Posted, Unsent
  <2>2. /\ q.stage = "sent" /\ q.kind = kind /\ q.win = w /\ q.card = t /\ q.before = before
    BY DEF Unsent
  <2> HIDE DEF q
  <2> QED BY <2>1, <2>2 DEF PostFits, StillOpen
<1>3. q \in Posted
  BY <1>2 DEF PostFits
<1> HIDE DEF q
<1>4. posts' \in [Changes -> Posted] /\ \A d \in Changes : PostFits(posts'[d])
  BY <1>1, <1>2, <1>3 DEF BoardInvariant
<1>5. UNCHANGED <<tasks, intact, lists, polling, damages>>
  BY DEF Posts, NextChange
<1> QED BY <1>4, <1>5

-----------------------------------------------------------------------------
(* The host's steps.                                                       *)

\* What the host makes of an attempt is a record of the task it is about.
LEMMA ArrivedFits ==
  ASSUME BoardInvariant, BoardAssumption, NEW c \in Changes, NEW stray \in BOOLEAN,
         Arrived(c, stray), ~Missing(posts[c])
  PROVE  LET q == posts[c]
             new == IF q.kind = "remove" THEN Archived(Stored, q, c) ELSE Given(q, c)
         IN /\ PostFits(q) /\ q.kind # "none" /\ q.win \in Windows /\ q.card \in Cards
            /\ FileFits(Stored) /\ new \in Records /\ new.id = q.card
            /\ Written(Stored, q, c) = Upserted(Stored, new)
<1> DEFINE q == posts[c]
<1>1. PostFits(q) /\ q.kind # "none"
  BY DEF BoardInvariant, PostFits, Arrived, StillOpen
<1>2. q \in Posted /\ q.win \in Windows /\ q.card \in Cards
  BY <1>1 DEF PostFits
<1>3. FileFits(Stored)
  <2>1. FileFits(<<>>)
    BY DEF FileFits, BoardAssumption
  <2> QED BY <2>1 DEF Stored, BoardInvariant
<1>4. CASE q.kind = "remove"
  <2>1. PICK k \in DOMAIN Stored : Stored[k].id = q.card
    BY <1>4 DEF Missing, Has
  <2>2. The(Stored, q.card) \in Records /\ The(Stored, q.card).id = q.card
    BY <1>3, <2>1, TheOne
  <2>3. MaxChanges + c + q.tries \in Nat
    BY <1>2 DEF Posted, Changes, BoardAssumption
  <2> HIDE DEF q
  <2>4. Archived(Stored, q, c) \in Records /\ Archived(Stored, q, c).id = q.card
    BY <2>2, <2>3 DEF Archived, Records
  <2> QED BY <1>1, <1>2, <1>3, <1>4, <2>4 DEF Written, q
<1>5. CASE q.kind # "remove"
  <2>1. q.content \in Contents /\ c \in Nat
    BY <1>2 DEF Posted, Changes, BoardAssumption
  <2>2. <<>> \in Seq(Marks)
    OBVIOUS
  <2> HIDE DEF q
  <2>3. Given(q, c) \in Records /\ Given(q, c).id = q.card
    BY <1>2, <2>1, <2>2 DEF Given, Records, Contents
  <2> QED BY <1>1, <1>2, <1>3, <1>5, <2>3 DEF Written, q
<1> QED BY <1>4, <1>5

\* The host takes it, strays included.
LEMMA StoreTakesStep ==
  ASSUME BoardInvariant, BoardAssumption, NEW c \in Changes, NEW stray \in BOOLEAN,
         StoreTakes(c, stray)
  PROVE  BoardInvariant'
<1> DEFINE q == posts[c]
           new == IF q.kind = "remove" THEN Archived(Stored, q, c) ELSE Given(q, c)
           us == Upserted(Stored, new)
<1>1. /\ PostFits(q) /\ q.kind # "none" /\ q.win \in Windows /\ q.card \in Cards
      /\ FileFits(Stored) /\ new \in Records /\ new.id = q.card
      /\ Written(Stored, q, c) = us
  BY ArrivedFits DEF StoreTakes
<1>2. tasks' = us /\ intact' = TRUE /\ UNCHANGED <<boards, lists, polling, damages>>
  BY <1>1 DEF StoreTakes
<1>3. FileFits(us) /\ Has(us, q.card)
  <2> HIDE DEF new, q
  <2> QED BY <1>1, UpsertKeeps
<1>4. posts' = [posts EXCEPT ![c] =
                  IF stray THEN [q EXCEPT !.strays = @ - 1]
                  ELSE [q EXCEPT !.stage = "answered", !.answer = Content(The(us, q.card))]]
  BY <1>1 DEF StoreTakes
<1> HIDE DEF us, new
<1>5. Content(The(us, q.card)) \in Contents
  <2>1. PICK k \in DOMAIN us : us[k].id = q.card
    BY <1>3 DEF Has
  <2>2. The(us, q.card) \in Records
    BY <1>3, <2>1, TheOne
  <2> QED BY <2>2 DEF Records, Content, Contents
<1>6. posts[c] \in Posted /\ Arrived(c, stray)
  BY DEF StoreTakes, BoardInvariant
<1>7. PostFits(posts'[c])
  <2>1. CASE stray
    <3>1. posts'[c] = [q EXCEPT !.strays = @ - 1] /\ q.strays > 0 /\ q.strays \in Nat
      BY <1>4, <1>6, <2>1 DEF BoardInvariant, Arrived, Posted
    <3> HIDE DEF q
    <3> QED BY <1>1, <3>1 DEF PostFits, Posted, StillOpen
  <2>2. CASE ~stray
    <3>1. /\ posts'[c] = [q EXCEPT !.stage = "answered", !.answer = Content(The(us, q.card))]
          /\ q.stage = "sent"
      BY <1>4, <1>6, <2>2 DEF BoardInvariant, Arrived
    <3> HIDE DEF q
    <3> QED BY <1>1, <1>5, <3>1 DEF PostFits, Posted, StillOpen
  <2> QED BY <2>1, <2>2
<1>8. posts' \in [Changes -> Posted] /\ \A d \in Changes : PostFits(posts'[d])
  BY <1>4, <1>7 DEF BoardInvariant, PostFits
<1> QED BY <1>2, <1>3, <1>8 DEF BoardInvariant

\* An attempt that fails leaves again or is given up.
LEMMA FailsStep ==
  ASSUME BoardInvariant, BoardAssumption, NEW c \in Changes, NEW stray \in BOOLEAN,
         NEW final \in BOOLEAN, StillOpen(posts[c]), Fails(c, stray, final)
  PROVE  /\ posts' \in [Changes -> Posted] /\ \A d \in Changes : PostFits(posts'[d])
         /\ boards' \in [Windows -> Sheets]
<1> DEFINE q == [posts[c] EXCEPT !.strays = @ + (IF stray THEN 1 ELSE 0), !.answer = NoCard]
<1>1. /\ PostFits(posts[c]) /\ posts[c] \in Posted /\ posts[c].kind # "none"
      /\ boards \in [Windows -> Sheets] /\ posts \in [Changes -> Posted]
  BY DEF BoardInvariant, PostFits
<1>2. q \in Posted
  <2>1. posts[c].strays + (IF stray THEN 1 ELSE 0) \in Nat
    BY <1>1 DEF Posted
  <2>2. NoCard \in Contents \cup {NoCard}
    OBVIOUS
  <2> QED BY <1>1, <2>1, <2>2 DEF Posted
<1>3. /\ q.stage = posts[c].stage /\ q.kind = posts[c].kind /\ q.win = posts[c].win
      /\ q.card = posts[c].card /\ q.before = posts[c].before
  BY <1>1 DEF Posted
<1>4. /\ q.kind # "none" /\ q.win \in Windows /\ q.card \in Cards
      /\ q.kind \in {"move", "remove"} => q.before \in Contents
  BY <1>1, <1>3 DEF PostFits
<1>5. \/ posts' = [posts EXCEPT ![c] = [q EXCEPT !.stage = "sent", !.tries = @ + 1]] /\ UNCHANGED boards
      \/ posts' = [posts EXCEPT ![c] = PostOver(q)] /\ PutsBack(q)
  BY DEF Fails
<1> HIDE DEF q
<1>6. CASE posts' = [posts EXCEPT ![c] = [q EXCEPT !.stage = "sent", !.tries = @ + 1]] /\ UNCHANGED boards
  <2>1. [q EXCEPT !.stage = "sent", !.tries = @ + 1] \in Posted
    <3>1. q.tries + 1 \in Nat
      BY <1>2 DEF Posted
    <3> QED BY <1>2, <3>1 DEF Posted
  <2>2. PostFits([q EXCEPT !.stage = "sent", !.tries = @ + 1])
    <3> DEFINE r == [q EXCEPT !.stage = "sent", !.tries = @ + 1]
    <3>1. r.stage = "sent" /\ r.kind = q.kind /\ r.win = q.win /\ r.card = q.card /\ r.before = q.before
      BY <1>2 DEF Posted
    <3> HIDE DEF r
    <3> QED BY <1>4, <2>1, <3>1 DEF PostFits, r
  <2>3. posts' \in [Changes -> Posted] /\ \A d \in Changes : PostFits(posts'[d])
    BY <1>1, <1>6, <2>1, <2>2 DEF BoardInvariant
  <2> QED BY <1>1, <1>6, <2>3
<1>7. CASE posts' = [posts EXCEPT ![c] = PostOver(q)] /\ PutsBack(q)
  <2>1. PostFits(PostOver(q)) /\ PostOver(q) \in Posted
    BY <1>2, <1>4, PostIsOver DEF PostFits
  <2>2. boards' \in [Windows -> Sheets]
    BY <1>1, <1>2, <1>4, <1>7, CardPutBack
  <2>3. posts' \in [Changes -> Posted] /\ \A d \in Changes : PostFits(posts'[d])
    BY <1>1, <1>7, <2>1 DEF BoardInvariant
  <2> QED BY <2>2, <2>3
<1> QED BY <1>5, <1>6, <1>7

\* Every step keeps the invariant.
LEMMA BoardStep == ASSUME BoardInvariant, BoardAssumption, [BoardNext]_board PROVE BoardInvariant'
<1>1. CASE Spoils
  <2>1. damages' \in Nat /\ damages' # 0
    BY <1>1 DEF Spoils, BoardInvariant
  <2>2. intact' = FALSE /\ UNCHANGED <<tasks, boards, posts, lists, polling>>
    BY <1>1 DEF Spoils
  <2> QED BY <2>1, <2>2 DEF BoardInvariant
<1>2. ASSUME NEW w \in Windows, Polls(w) PROVE BoardInvariant'
  <2>1. NoSheet \in Sheets
    BY DEF NoSheet, Sheets
  <2>2. [NoList EXCEPT !.stage = "sent"] = [stage |-> "sent", cards |-> NoSheet]
    BY DEF NoList
  <2> QED BY <1>2, <2>1, <2>2 DEF Polls, BoardInvariant
<1>3. ASSUME NEW w \in Windows, StoreLists(w) PROVE BoardInvariant'
  <2> DEFINE sheet == [t \in Cards |-> IF Has(Stored, t) THEN Content(The(Stored, t)) ELSE NoCard]
  <2>1. FileFits(Stored)
    <3>1. FileFits(<<>>)
      BY DEF FileFits, BoardAssumption
    <3> QED BY <3>1 DEF Stored, BoardInvariant
  <2>2. ASSUME NEW t \in Cards, Has(Stored, t) PROVE Content(The(Stored, t)) \in Contents
    <3>1. PICK k \in DOMAIN Stored : Stored[k].id = t
      BY <2>2 DEF Has
    <3>2. The(Stored, t) \in Records
      BY <2>1, <3>1, TheOne
    <3> QED BY <3>2 DEF Records, Content, Contents
  <2>3. sheet \in Sheets
    BY <2>2 DEF Sheets
  <2>4. lists' = [lists EXCEPT ![w] = [[lists[w] EXCEPT !.stage = "answered"] EXCEPT !.cards = sheet]]
    BY <1>3 DEF StoreLists, BoardInvariant
  <2>5. /\ lists[w].stage = "sent"
        /\ UNCHANGED <<tasks, intact, boards, posts, polling, damages>>
    BY <1>3 DEF StoreLists
  <2> HIDE DEF sheet
  <2>6. lists[w] \in [stage : {"none", "sent", "answered"}, cards : Sheets]
    BY DEF BoardInvariant
  <2>7. lists'[w] \in [stage : {"none", "sent", "answered"}, cards : Sheets] /\ lists'[w].stage = "answered"
    BY <2>3, <2>4, <2>6 DEF BoardInvariant
  <2>8. /\ lists' \in [Windows -> [stage : {"none", "sent", "answered"}, cards : Sheets]]
        /\ \A v \in Windows \ {w} : lists'[v] = lists[v]
    BY <2>4, <2>7 DEF BoardInvariant
  <2> QED BY <2>5, <2>7, <2>8 DEF BoardInvariant
<1>4. ASSUME NEW w \in Windows, ShowsList(w) PROVE BoardInvariant'
  <2>1. NoSheet \in Sheets
    BY DEF NoSheet, Sheets
  <2>2. lists[w].cards \in Sheets /\ boards[w] \in Sheets
    BY DEF BoardInvariant
  <2>3. [t \in Cards |-> IF lists[w].cards[t] = NoCard THEN boards[w][t] ELSE lists[w].cards[t]] \in Sheets
    BY <2>2 DEF Sheets
  <2>4. boards' \in [Windows -> Sheets]
    BY <1>4, <2>3 DEF ShowsList, BoardInvariant
  <2> QED BY <1>4, <2>1, <2>4 DEF ShowsList, NoList, BoardInvariant
<1>5. ASSUME NEW w \in Windows, ListFails(w) PROVE BoardInvariant'
  <2>1. NoSheet \in Sheets
    BY DEF NoSheet, Sheets
  <2> QED BY <1>5, <2>1 DEF ListFails, PollsAgain, NoList, BoardInvariant
<1>6. ASSUME NEW w \in Windows, NEW t \in Cards, Creates(w, t) \/ Captures(w, t) PROVE BoardInvariant'
  <2>1. New \in Contents
    BY DEF New, Contents, BoardAssumption
  <2>2. \/ Posts("create", w, t, New, NoCard) /\ UNCHANGED boards
        \/ Posts("capture", w, t, New, NoCard) /\ (UNCHANGED boards \/ Shows(w, t, New))
    BY <1>6 DEF Creates, Captures
  <2>3. /\ posts' \in [Changes -> Posted] /\ \A c \in Changes : PostFits(posts'[c])
        /\ UNCHANGED <<tasks, intact, lists, polling, damages>>
    BY <2>1, <2>2, ChangePosted
  <2>4. boards' \in [Windows -> Sheets]
    BY <2>1, <2>2, CardShown DEF BoardInvariant
  <2> QED BY <2>3, <2>4 DEF BoardInvariant
<1>7. ASSUME NEW w \in Windows, NEW t \in Cards, Moves(w, t) \/ Removes(w, t) PROVE BoardInvariant'
  <2>1. boards[w][t] \in Contents
    BY <1>7 DEF Moves, Removes, Open, BoardInvariant, Sheets
  <2>2. PICK kind \in {"move", "remove"}, sent \in Contents, shown \in Contents :
           Posts(kind, w, t, sent, boards[w][t]) /\ Shows(w, t, shown)
    BY <1>7, <2>1 DEF Moves, Removes, Contents
  <2>3. /\ posts' \in [Changes -> Posted] /\ \A c \in Changes : PostFits(posts'[c])
        /\ UNCHANGED <<tasks, intact, lists, polling, damages>>
    BY <2>1, <2>2, ChangePosted
  <2>4. boards' \in [Windows -> Sheets]
    BY <2>2, CardShown DEF BoardInvariant
  <2> QED BY <2>3, <2>4 DEF BoardInvariant
<1>8. ASSUME NEW w \in Windows, NEW t \in Cards, Follows(w, t) PROVE BoardInvariant'
  <2>1. New \in Contents
    BY DEF New, Contents, BoardAssumption
  <2>2. boards[w][t] \in Contents
    BY <1>8 DEF Follows, BoardInvariant, Sheets
  <2>3. PICK shown \in Contents : Shows(w, t, shown)
    BY <1>8, <2>2 DEF Follows, Contents
  <2>4. PostFits([Unsent EXCEPT !.stage = "over"]) /\ [Unsent EXCEPT !.stage = "over"] \in Posted
    BY <2>1 DEF Unsent, PostFits, Posted, StillOpen
  <2>5. PICK c \in Changes : posts' = [posts EXCEPT ![c] = [Unsent EXCEPT !.stage = "over"]]
    BY <1>8 DEF Follows, NextChange
  <2>6. posts' \in [Changes -> Posted] /\ \A d \in Changes : PostFits(posts'[d])
    BY <2>4, <2>5 DEF BoardInvariant
  <2>7. UNCHANGED <<tasks, intact, lists, polling, damages>>
    BY <1>8 DEF Follows, NextChange
  <2>8. boards' \in [Windows -> Sheets]
    BY <2>3, CardShown DEF BoardInvariant
  <2> QED BY <2>6, <2>7, <2>8 DEF BoardInvariant
<1>9. ASSUME NEW c \in Changes, NEW stray \in BOOLEAN, StoreMisses(c, stray) PROVE BoardInvariant'
  <2>1. /\ posts[c] \in Posted /\ PostFits(posts[c]) /\ Arrived(c, stray)
        /\ posts' = [posts EXCEPT ![c] = IF stray THEN [posts[c] EXCEPT !.strays = @ - 1]
                                         ELSE [posts[c] EXCEPT !.stage = "missing"]]
    BY <1>9 DEF StoreMisses, BoardInvariant
  <2>2. PostFits(posts'[c])
    <3>1. CASE stray
      <4>1. /\ posts'[c] = [posts[c] EXCEPT !.strays = @ - 1]
            /\ posts[c].strays > 0 /\ posts[c].strays \in Nat
        BY <2>1, <3>1 DEF BoardInvariant, Arrived, Posted
      <4> QED BY <2>1, <4>1 DEF PostFits, Posted, StillOpen
    <3>2. CASE ~stray
      <4>1. posts'[c] = [posts[c] EXCEPT !.stage = "missing"] /\ posts[c].stage = "sent"
        BY <2>1, <3>2 DEF BoardInvariant, Arrived
      <4> QED BY <2>1, <4>1 DEF PostFits, Posted, StillOpen
    <3> QED BY <3>1, <3>2
  <2>3. posts' \in [Changes -> Posted] /\ \A d \in Changes : PostFits(posts'[d])
    BY <2>1, <2>2 DEF BoardInvariant, PostFits
  <2> QED BY <1>9, <2>3 DEF StoreMisses, BoardInvariant
<1>10. ASSUME NEW c \in Changes, StoreFails(c) \/ AttemptFails(c) PROVE BoardInvariant'
  <2>1. \E stray, final \in BOOLEAN : StillOpen(posts[c]) /\ Fails(c, stray, final)
    BY <1>10 DEF StoreFails, AttemptFails, StillOpen
  <2>2. /\ posts' \in [Changes -> Posted] /\ \A d \in Changes : PostFits(posts'[d])
        /\ boards' \in [Windows -> Sheets]
    BY <2>1, FailsStep
  <2> QED BY <1>10, <2>2 DEF StoreFails, AttemptFails, AsBefore, BoardInvariant
<1>11. ASSUME NEW c \in Changes, ShowsAnswer(c) \/ NotFound(c) PROVE BoardInvariant'
  <2>1. /\ posts[c] \in Posted /\ PostFits(posts[c]) /\ StillOpen(posts[c])
        /\ posts' = [posts EXCEPT ![c] = PostOver(posts[c])]
        /\ UNCHANGED <<tasks, intact, lists, polling, damages>>
    BY <1>11 DEF ShowsAnswer, NotFound, BoardInvariant, StillOpen
  <2>2. PostFits(PostOver(posts[c])) /\ PostOver(posts[c]) \in Posted
    BY <2>1, PostIsOver DEF PostFits
  <2>3. boards' \in [Windows -> Sheets]
    <3>1. CASE ShowsAnswer(c)
      BY <2>1, <3>1, CardShown DEF ShowsAnswer, PostFits, BoardInvariant
    <3>2. CASE NotFound(c)
      BY <2>1, <3>2, CardPutBack DEF NotFound, PostFits, BoardInvariant
    <3> QED BY <1>11, <3>1, <3>2
  <2>4. posts' \in [Changes -> Posted] /\ \A d \in Changes : PostFits(posts'[d])
    BY <2>1, <2>2 DEF BoardInvariant
  <2> QED BY <2>1, <2>3, <2>4 DEF BoardInvariant
<1>12. CASE UNCHANGED board
  BY <1>12 DEF board, BoardInvariant
<1> QED
  BY <1>1, <1>2, <1>3, <1>4, <1>5, <1>6, <1>7, <1>8, <1>9, <1>10, <1>11, <1>12, StoreTakesStep
  DEF BoardNext

\* Well formed even without the fairness of the windows.
LEMMA BoardIsTyped == BoardInit /\ [][BoardNext]_board => []BoardTypeOK
<1>1. BoardInit => BoardInvariant
  BY BoardAssumption, BoardStarts
<1>2. BoardInvariant /\ [BoardNext]_board => BoardInvariant'
  BY BoardAssumption, BoardStep
<1>3. BoardInvariant => BoardTypeOK
  <2> SUFFICES ASSUME BoardInvariant PROVE BoardTypeOK
    OBVIOUS
  <2>1. \A i \in DOMAIN tasks : tasks[i] \in Records
    BY DEF BoardInvariant, FileFits
  <2>2. \A i \in DOMAIN tasks : tasks[i].id \in Cards /\ Content(tasks[i]) \in Contents
    BY <2>1 DEF Records, Content, Contents
  <2>3. \A c \in Changes : posts[c].stage \in {"none", "sent", "answered", "missing", "over"}
    BY DEF BoardInvariant, Posted
  <2> QED BY <2>2, <2>3 DEF BoardInvariant, BoardTypeOK, FileFits
<1> QED BY <1>1, <1>2, <1>3, PTL

\* BoardTypeOK: the file has each task once and at most StoreLimit of them, the
\* boards show cards, and a window polls exactly while a list is awaited, for
\* any windows, tasks, limits, retries and failures.
THEOREM BoardTypeCorrect == BoardSpec => []BoardTypeOK
BY BoardIsTyped, PTL DEF BoardSpec

\* TasksKept (upsertSharedTask, appendHistory): as long as nobody else spoils the
\* file, no request of any window, on time, retried or stray, takes a stored
\* task or a line of its history away, but for the one that a full file lets go.
THEOREM NoTaskLost == BoardSpec => TasksKept
<1> USE BoardAssumption
<1> DEFINE Kept == damages' = 0 =>
        \A i \in DOMAIN Stored :
            \/ /\ Has(Stored', Stored[i].id)
               /\ IsPrefix(Stored[i].history, The(Stored', Stored[i].id).history)
            \/ LetGo(i)
<1>1. BoardInit => BoardInvariant
  BY BoardStarts
<1>2. BoardInvariant /\ [BoardNext]_board => BoardInvariant'
  BY BoardStep
<1>3. ASSUME BoardInvariant, BoardInvariant', [BoardNext]_board PROVE [Kept]_board
  <2> SUFFICES ASSUME damages' = 0, NEW i \in DOMAIN Stored
               PROVE  \/ /\ Has(Stored', Stored[i].id)
                         /\ IsPrefix(Stored[i].history, The(Stored', Stored[i].id).history)
                      \/ LetGo(i)
    OBVIOUS
  <2>1. \/ UNCHANGED <<tasks, intact>>
        \/ damages' = damages + 1
        \/ \E c \in Changes, stray \in BOOLEAN : StoreTakes(c, stray)
    <3>1. CASE Spoils
      BY <3>1 DEF Spoils
    <3>2. ASSUME NEW w \in Windows, Polls(w) \/ StoreLists(w) \/ ShowsList(w) \/ ListFails(w)
          PROVE  UNCHANGED <<tasks, intact>>
      BY <3>2 DEF Polls, StoreLists, ShowsList, ListFails
    <3>3. ASSUME NEW w \in Windows, NEW t \in Cards,
                 Creates(w, t) \/ Captures(w, t) \/ Moves(w, t) \/ Removes(w, t) \/ Follows(w, t)
          PROVE  UNCHANGED <<tasks, intact>>
      BY <3>3 DEF Creates, Captures, Moves, Removes, Follows, Posts, NextChange
    <3>4. ASSUME NEW c \in Changes, NEW stray \in BOOLEAN, StoreMisses(c, stray)
          PROVE  UNCHANGED <<tasks, intact>>
      BY <3>4 DEF StoreMisses
    <3>5. ASSUME NEW c \in Changes, StoreFails(c) \/ ShowsAnswer(c) \/ NotFound(c) \/ AttemptFails(c)
          PROVE  UNCHANGED <<tasks, intact>>
      BY <3>5 DEF StoreFails, ShowsAnswer, NotFound, AttemptFails, AsBefore
    <3>6. CASE UNCHANGED board
      BY <3>6 DEF board
    <3> QED BY <1>3, <3>1, <3>2, <3>3, <3>4, <3>5, <3>6 DEF BoardNext
  <2>2. FileFits(Stored) /\ FileFits(Stored')
    <3>1. FileFits(<<>>)
      BY DEF FileFits, BoardAssumption
    <3> QED BY <1>3, <3>1 DEF Stored, BoardInvariant
  <2>3. CASE UNCHANGED <<tasks, intact>>
    <3>1. Stored' = Stored
      BY <2>3 DEF Stored
    <3>2. Has(Stored', Stored[i].id) /\ The(Stored', Stored[i].id) = Stored[i] /\ Stored[i] \in Records
      BY <2>2, <3>1, TheOne
    <3>3. Stored[i].history \in Seq(Marks)
      BY <3>2 DEF Records
    <3>4. IsPrefix(Stored[i].history, Stored[i].history)
      BY <3>3 DEF IsPrefix
    <3> QED BY <3>2, <3>4
  <2>4. CASE damages' = damages + 1
    BY <1>3, <2>4 DEF BoardInvariant
  <2>5. ASSUME NEW c \in Changes, NEW stray \in BOOLEAN, StoreTakes(c, stray)
        PROVE  \/ /\ Has(Stored', Stored[i].id)
                  /\ IsPrefix(Stored[i].history, The(Stored', Stored[i].id).history)
               \/ LetGo(i)
    <3>1. PICK new \in Records : Stored' = Upserted(Stored, new)
      BY <1>3, <2>5, ArrivedFits DEF StoreTakes, Stored
    <3>2. \/ \E k \in DOMAIN Stored' :
                Stored'[k].id = Stored[i].id /\ IsPrefix(Stored[i].history, Stored'[k].history)
          \/ /\ Len(Stored) = StoreLimit /\ Len(Stored') = StoreLimit
             /\ ~Has(Stored', Stored[i].id)
             /\ \A j \in DOMAIN Stored \ {i} : Has(Stored', Stored[j].id)
             /\ Stored[i].archived \/ \A j \in DOMAIN Stored : ~Stored[j].archived
      BY <2>2, <3>1, UpsertKeeps
    <3>3. ASSUME NEW k \in DOMAIN Stored', Stored'[k].id = Stored[i].id
          PROVE  Has(Stored', Stored[i].id) /\ The(Stored', Stored[i].id) = Stored'[k]
      BY <2>2, <3>3, TheOne
    <3> QED BY <3>2, <3>3 DEF LetGo
  <2> QED BY <2>1, <2>3, <2>4, <2>5
<1> QED BY <1>1, <1>2, <1>3, PTL DEF BoardSpec, TasksKept

-----------------------------------------------------------------------------
(* ConfigMutations                                                         *)
-----------------------------------------------------------------------------
(* The changes of agents.                                                  *)

\* The queue is of those that wait, each once; one change at most has its
\* turn; none has sent a request before its turn; and a block is of a change
\* that has one.
TurnsFit ==
    /\ \A i \in 1..Len(queue) : life[queue[i]] = "queued"
    /\ \A i, k \in 1..Len(queue) : queue[i] = queue[k] => i = k
    /\ \A m \in Mutations : life[m] \in {"running", "reloading"} => active = m
    /\ \A m \in Mutations : life[m] \in {"new", "queued"} => call[m] = "none"
    /\ block # NoMutation => Blocking(block)

\* Of two changes of one kind and agent that wait or run together, one has
\* outlived its block.
NoneTwice ==
    \A m, n \in Mutations : Blocking(m) /\ Same(m, n) /\ Pending(m) /\ Pending(n) /\ m # n =>
        \E k \in expired : Same(k, m)

BlockInvariant == MutationsTypeOK /\ TurnsFit /\ NoneTwice /\ BlockFits

JobsOf(a) == {j \in ScheduledJobs : Owner[j] = a}
JobsDue(a) == IF a \in present THEN JobsOf(a) ELSE {}
JobsHere(a) == jobs \cap JobsOf(a)
Deleting(m) == Kind[m] = "delete" /\ call[m] \notin {"none", "over"}

\* A deletion works on the jobs of its agent and has a copy of none of them
\* before the first is removed.
OnItsJobs(m) ==
    /\ todo[m] \cup backup[m] \subseteq JobsOf(Target[m])
    /\ call[m] \in {"none", "sent"} => backup[m] = {}
    /\ call[m] \in {"removing", "restoring"} => Kind[m] = "delete"

\* What a deletion has taken away it has a copy of, and what it has yet to
\* take away is there.
Undoable(m) ==
    LET a == Target[m] IN
    /\ \A n \in Mutations : Deleting(n) /\ Target[n] = a => n = m
    /\ JobsHere(a) \cup backup[m] = JobsDue(a)
    /\ call[m] = "sent" => JobsHere(a) = JobsDue(a)
    /\ call[m] = "removing" => todo[m] = JobsHere(a)
DeletionInvariant ==
    /\ \A m \in Mutations : OnItsJobs(m)
    /\ \A m \in Mutations : Deleting(m) /\ Target[m] \notin troubled => Undoable(m)
    /\ \A a \in Targets \ troubled :
          (\A m \in Mutations : Target[m] = a => ~Deleting(m)) => JobsHere(a) = JobsDue(a)

-----------------------------------------------------------------------------
(* What a step does.                                                       *)

Lives == {"new", "queued", "running", "reloading", "done", "failed"}

\* The types of the queue and the blocks, and those of the deletions.
QueueTypes ==
    /\ connected \in BOOLEAN /\ agentsRunning \in BOOLEAN /\ createBusy \in BOOLEAN
    /\ drops \in 0..MaxDrops
    /\ queue \in Seq(Mutations) /\ active \in Mutations \cup {NoMutation}
    /\ life \in [Mutations -> Lives]
    /\ block \in Mutations \cup {NoMutation} /\ blockPhase \in {"none", "queued", "mutating"}
    /\ createBlock \in {"none", "queued", "creating"} /\ expired \subseteq Mutations
DeletionTypes ==
    /\ call \in [Mutations -> {"none", "sent", "removing", "restoring", "over"}]
    /\ todo \in [Mutations -> SUBSET ScheduledJobs] /\ backup \in [Mutations -> SUBSET ScheduledJobs]
    /\ present \subseteq Targets /\ jobs \subseteq ScheduledJobs /\ troubled \subseteq Targets

\* The type invariant is that of the queue with that of the deletions.
LEMMA MutationsApart == MutationsTypeOK <=> QueueTypes /\ DeletionTypes
BY DEF MutationsTypeOK, QueueTypes, DeletionTypes, Lives

\* The turn of m ends, goes on to the reload, or is not concerned.
EndsTurn(m) == \E outcome \in {"done", "failed"} : Ends(m, outcome)
TurnReloads(m) ==
    /\ life' = [life EXCEPT ![m] = "reloading"]
    /\ UNCHANGED <<connected, drops, agentsRunning, queue, active, blocks>>
TurnGoesOn(m) ==
    \/ UNCHANGED <<mutationQueue, blocks>>
    \/ life[m] \in {"running", "reloading"} /\ (TurnReloads(m) \/ EndsTurn(m))

\* What a request means for the turn.
LEMMA SettlesTurn ==
  ASSUME NEW m \in Mutations, NEW ok \in BOOLEAN, Settles(m, ok) PROVE TurnGoesOn(m)
BY DEF Settles, TurnGoesOn, TurnReloads, EndsTurn

\* A request of m changes nobody else's, and its turn at most goes on.
LEMMA RequestSteps ==
  ASSUME DeletionTypes, NEW m \in Mutations, Requests(m)
  PROVE  /\ TurnGoesOn(m) /\ call[m] # "none"
         /\ \A n \in Mutations \ {m} : call'[n] = call[n]
<1>t. call \in [Mutations -> {"none", "sent", "removing", "restoring", "over"}]
  BY DEF DeletionTypes
<1>f. FALSE \in BOOLEAN /\ TRUE \in BOOLEAN
  OBVIOUS
<1>1. ASSUME NEW ok \in BOOLEAN, Answer(m, ok) \/ ListJobs(m, ok)
      PROVE  /\ TurnGoesOn(m) /\ call[m] # "none"
             /\ \A n \in Mutations \ {m} : call'[n] = call[n]
  <2>1. TurnGoesOn(m)
    BY <1>1, <1>f, SettlesTurn DEF Answer, ListJobs, TurnGoesOn
  <2> QED BY <1>1, <1>t, <2>1 DEF Answer, ListJobs
<1>2. ASSUME NEW ok \in BOOLEAN, NEW applied \in BOOLEAN, DeleteAgent(m, ok, applied)
      PROVE  /\ TurnGoesOn(m) /\ call[m] # "none"
             /\ \A n \in Mutations \ {m} : call'[n] = call[n]
  <2>1. TurnGoesOn(m)
    BY <1>2, <1>f, SettlesTurn DEF DeleteAgent, TurnGoesOn
  <2> QED BY <1>2, <1>t, <2>1 DEF DeleteAgent
<1>3. ASSUME NEW ok \in BOOLEAN, NEW applied \in BOOLEAN, NEW j \in ScheduledJobs,
             RemoveJob(m, j, ok, applied)
      PROVE  /\ TurnGoesOn(m) /\ call[m] # "none"
             /\ \A n \in Mutations \ {m} : call'[n] = call[n]
  BY <1>3, <1>t DEF RemoveJob, TurnGoesOn
<1>4. ASSUME NEW ok \in BOOLEAN, NEW j \in ScheduledJobs, RestoreJob(m, j, ok)
      PROVE  /\ TurnGoesOn(m) /\ call[m] # "none"
             /\ \A n \in Mutations \ {m} : call'[n] = call[n]
  <2>1. TurnGoesOn(m)
    BY <1>4, <1>f, SettlesTurn DEF RestoreJob, TurnGoesOn
  <2> QED BY <1>4, <1>t, <2>1 DEF RestoreJob
<1>5. CASE Restored(m)
  <2>1. TurnGoesOn(m)
    BY <1>5, <1>f, SettlesTurn DEF Restored
  <2> QED BY <1>5, <1>t, <2>1 DEF Restored
<1> QED BY <1>1, <1>2, <1>3, <1>4, <1>5 DEF Requests

\* A request of m keeps the types of the deletions.
LEMMA RequestTypes ==
  ASSUME DeletionTypes, NEW m \in Mutations, Requests(m) PROVE DeletionTypes'
<1> USE DEF DeletionTypes
<1>a. Target[m] \in Targets
  BY DEF Targets
<1>1. ASSUME NEW ok \in BOOLEAN, Answer(m, ok) PROVE DeletionTypes'
  BY <1>1 DEF Answer
<1>2. ASSUME NEW ok \in BOOLEAN, ListJobs(m, ok) PROVE DeletionTypes'
  <2>1. {j \in jobs : Owner[j] = Target[m]} \in SUBSET ScheduledJobs
    OBVIOUS
  <2> QED BY <1>2, <2>1 DEF ListJobs
<1>3. ASSUME NEW ok \in BOOLEAN, NEW applied \in BOOLEAN, DeleteAgent(m, ok, applied)
      PROVE  DeletionTypes'
  BY <1>3, <1>a DEF DeleteAgent
<1>4. ASSUME NEW ok \in BOOLEAN, NEW applied \in BOOLEAN, NEW j \in ScheduledJobs,
             RemoveJob(m, j, ok, applied)
      PROVE  DeletionTypes'
  BY <1>4, <1>a DEF RemoveJob, BackedUp
<1>5. ASSUME NEW ok \in BOOLEAN, NEW j \in ScheduledJobs, RestoreJob(m, j, ok) PROVE DeletionTypes'
  BY <1>5, <1>a DEF RestoreJob
<1>6. CASE Restored(m)
  BY <1>6 DEF Restored
<1> QED BY <1>1, <1>2, <1>3, <1>4, <1>5, <1>6 DEF Requests

\* A turn that goes on keeps the types of the queue and the blocks.
LEMMA TurnTypes ==
  ASSUME QueueTypes, NEW m \in Mutations, TurnGoesOn(m) PROVE QueueTypes'
<1>1. CASE UNCHANGED <<mutationQueue, blocks>>
  BY <1>1 DEF QueueTypes, mutationQueue, blocks
<1>2. CASE TurnReloads(m)
  BY <1>2 DEF QueueTypes, TurnReloads, blocks, Lives
<1>3. CASE EndsTurn(m)
  <2>1. PICK outcome \in {"done", "failed"} : Ends(m, outcome)
    BY <1>3 DEF EndsTurn
  <2>2. createBusy' \in BOOLEAN /\ connected' \in BOOLEAN /\ agentsRunning' \in BOOLEAN
    BY <2>1 DEF QueueTypes, Ends
  <2> QED BY <2>1, <2>2 DEF QueueTypes, Ends, ActiveAfter, NoBlock, Lives
<1> QED BY <1>1, <1>2, <1>3 DEF TurnGoesOn

-----------------------------------------------------------------------------
(* The block.                                                              *)

\* What the invariant says beside the types.
BlocksFit == TurnsFit /\ NoneTwice /\ BlockFits

\* A change asked for comes to the end of the queue, its block before it.
LEMMA AskKeeps ==
  ASSUME QueueTypes, DeletionTypes, BlocksFit, NEW m \in Mutations, Ask(m)
  PROVE  QueueTypes' /\ DeletionTypes' /\ BlocksFit'
<1>t. /\ queue \in Seq(Mutations) /\ life \in [Mutations -> Lives] /\ life[m] = "new"
      /\ queue' = Append(queue, m) /\ life' = [life EXCEPT ![m] = "queued"]
      /\ UNCHANGED <<connected, drops, agentsRunning, active, expired, deletion>>
      /\ block \in Mutations \cup {NoMutation}
  BY DEF QueueTypes, Ask
<1>1. QueueTypes'
  <2>1. createBusy' \in BOOLEAN /\ createBlock' \in {"none", "queued", "creating"}
    BY DEF QueueTypes, Ask
  <2>2. block' \in Mutations \cup {NoMutation} /\ blockPhase' \in {"none", "queued", "mutating"}
    BY DEF QueueTypes, Ask
  <2> QED BY <1>t, <2>1, <2>2 DEF QueueTypes, Lives
<1>2. DeletionTypes'
  BY <1>t DEF DeletionTypes, deletion
<1>3. TurnsFit'
  <2>1. /\ Len(queue') = Len(queue) + 1 /\ Len(queue) \in Nat /\ queue'[Len(queue) + 1] = m
        /\ \A i \in 1..Len(queue) : queue'[i] = queue[i] /\ queue[i] \in Mutations
    BY <1>t
  <2>2. \A i \in 1..Len(queue) : queue[i] # m
    BY <1>t DEF BlocksFit, TurnsFit
  <2>3. \A n \in Mutations : life'[n] = IF n = m THEN "queued" ELSE life[n]
    BY <1>t
  <2>4. \A i \in 1..Len(queue') : i \in 1..Len(queue) \/ i = Len(queue) + 1
    BY <2>1
  <2>5. \A i \in 1..Len(queue') : life'[queue'[i]] = "queued"
    BY <2>1, <2>2, <2>3, <2>4 DEF BlocksFit, TurnsFit
  <2>6. \A i, k \in 1..Len(queue') : queue'[i] = queue'[k] => i = k
    BY <2>1, <2>2, <2>4 DEF BlocksFit, TurnsFit
  <2>7. \A n \in Mutations : /\ life'[n] \in {"running", "reloading"} => active' = n
                             /\ life'[n] \in {"new", "queued"} => call'[n] = "none"
    BY <1>t, <2>3 DEF BlocksFit, TurnsFit, deletion
  <2>8. block' # NoMutation => Blocking(block')
    BY DEF BlocksFit, TurnsFit, Ask
  <2> QED BY <2>5, <2>6, <2>7, <2>8 DEF TurnsFit
<1>4. \A n \in Mutations \ {m} : Pending(n)' <=> Pending(n)
  BY <1>t DEF Pending
<1>5. Pending(m)'
  BY <1>t DEF Pending
<1>6. CASE Blocking(m)
  <2>1. block = NoMutation /\ createBlock = "none" /\ block' = m /\ blockPhase' = "queued"
        /\ UNCHANGED createBlock
    BY <1>6 DEF Ask, StartGuard, Blocking
  <2>2. ASSUME NEW n \in Mutations \ {m}, Blocking(n), Pending(n)
        PROVE  \E k \in expired : Same(k, n)
    BY <2>1, <2>2 DEF BlocksFit, BlockFits, BlockCovers, ItsBlock
  <2>3. NoneTwice'
    <3>1. \A n \in Mutations \ {m} : Same(m, n) => Blocking(n)
      BY <1>6 DEF Same, Blocking
    <3> QED BY <1>t, <1>4, <2>2, <3>1 DEF BlocksFit, NoneTwice, Same
  <2>4. BlockCovers'
    BY <1>t, <1>4, <2>1, <2>2, MutationsAssumption DEF BlockCovers, ItsBlock, Same
  <2>5. NoBlockIsLeft'
    BY <1>5, <2>1 DEF NoBlockIsLeft, Same
  <2> QED BY <1>1, <1>2, <1>3, <2>3, <2>4, <2>5 DEF BlocksFit, BlockFits
<1>7. CASE ~Blocking(m)
  <2>1. UNCHANGED <<block, blockPhase>>
    BY <1>7 DEF Ask
  <2>2. NoneTwice'
    <3>1. \A n \in Mutations \ {m} : Same(n, m) => ~Blocking(n)
      BY <1>7 DEF Same, Blocking
    <3> QED BY <1>t, <1>4, <1>7, <3>1 DEF BlocksFit, NoneTwice
  <2>3. BlockCovers'
    BY <1>t, <1>4, <1>7, <2>1 DEF BlocksFit, BlockFits, BlockCovers, ItsBlock
  <2>4. NoBlockIsLeft'
    <3>1. block' # NoMutation => \E n \in Mutations : Pending(n)' /\ Same(n, block')
      BY <1>4, <1>5, <2>1 DEF BlocksFit, BlockFits, NoBlockIsLeft
    <3>2. createBlock' # "none" => \E n \in Mutations : Pending(n)' /\ Kind[n] = "create"
      BY <1>4, <1>5 DEF BlocksFit, BlockFits, NoBlockIsLeft, Ask
    <3> QED BY <3>1, <3>2 DEF NoBlockIsLeft
  <2> QED BY <1>1, <1>2, <1>3, <2>2, <2>3, <2>4 DEF BlocksFit, BlockFits
<1> QED BY <1>6, <1>7

\* The head of the queue comes to its turn.
LEMMA StartKeeps ==
  ASSUME QueueTypes, DeletionTypes, BlocksFit, StartNext
  PROVE  QueueTypes' /\ DeletionTypes' /\ BlocksFit'
<1> DEFINE m == Head(queue)
<1>t. /\ queue \in Seq(Mutations) /\ queue # <<>> /\ life \in [Mutations -> Lives]
      /\ call \in [Mutations -> {"none", "sent", "removing", "restoring", "over"}]
      /\ queue' = Tail(queue) /\ active' = m /\ life' = [life EXCEPT ![m] = "running"]
      /\ call' = [call EXCEPT ![m] = "sent"] /\ active = NoMutation
      /\ blockPhase' = (IF Blocking(m) /\ ItsBlock(m) THEN "mutating" ELSE blockPhase)
      /\ UNCHANGED <<connected, drops, agentsRunning, block, createBusy, expired, todo, backup,
                     present, jobs>>
      /\ createBlock' = IF Kind[m] = "create" /\ createBlock # "none" THEN "creating"
                         ELSE createBlock
      /\ troubled' \in {troubled, troubled \cup {Target[m]}}
  BY DEF QueueTypes, DeletionTypes, StartNext, Gate
<1>m. /\ m \in Mutations /\ Len(queue) \in Nat /\ Len(queue) # 0 /\ m = queue[1]
      /\ Tail(queue) \in Seq(Mutations)
      /\ Len(Tail(queue)) = Len(queue) - 1
      /\ \A i \in 1..Len(Tail(queue)) : Tail(queue)[i] = queue[i + 1]
  BY <1>t
<1>l. life[m] = "queued" /\ \A n \in Mutations : life[n] \notin {"running", "reloading"}
  BY <1>t, <1>m, MutationsAssumption DEF BlocksFit, TurnsFit
<1> HIDE DEF m
<1>1. QueueTypes'
  BY <1>t, <1>m DEF QueueTypes, Lives
<1>2. DeletionTypes'
  BY <1>t, <1>m DEF DeletionTypes, Targets
<1>3. TurnsFit'
  <2>1. \A i \in 1..Len(queue') : i + 1 \in 1..Len(queue) /\ queue'[i] = queue[i + 1] /\ i + 1 # 1
    BY <1>t, <1>m
  <2>2. \A i \in 1..Len(queue') : queue'[i] # m
    BY <1>m, <2>1 DEF BlocksFit, TurnsFit
  <2>3. \A n \in Mutations : /\ life'[n] = IF n = m THEN "running" ELSE life[n]
                             /\ call'[n] = IF n = m THEN "sent" ELSE call[n]
    BY <1>t
  <2>4. \A i \in 1..Len(queue') : queue'[i] \in Mutations
    BY <1>t, <1>m
  <2>5. \A i \in 1..Len(queue') : life'[queue'[i]] = "queued"
    BY <2>1, <2>2, <2>3, <2>4 DEF BlocksFit, TurnsFit
  <2>6. \A i, k \in 1..Len(queue') : queue'[i] = queue'[k] => i = k
    <3> SUFFICES ASSUME NEW i \in 1..Len(queue'), NEW k \in 1..Len(queue'), queue'[i] = queue'[k]
                 PROVE  i = k
      OBVIOUS
    <3>1. \A j, l \in 1..Len(queue) : queue[j] = queue[l] => j = l
      BY DEF BlocksFit, TurnsFit
    <3>2. /\ i + 1 \in 1..Len(queue) /\ queue'[i] = queue[i + 1]
          /\ k + 1 \in 1..Len(queue) /\ queue'[k] = queue[k + 1]
      BY <2>1
    <3>3. i + 1 = k + 1
      BY <3>1, <3>2
    <3> QED BY <3>3
  <2>7. \A n \in Mutations : /\ life'[n] \in {"running", "reloading"} => active' = n
                             /\ life'[n] \in {"new", "queued"} => call'[n] = "none"
    BY <1>t, <1>l, <2>3 DEF BlocksFit, TurnsFit
  <2>8. block' # NoMutation => Blocking(block')
    BY <1>t DEF BlocksFit, TurnsFit
  <2> QED BY <2>5, <2>6, <2>7, <2>8 DEF TurnsFit
<1>4. \A n \in Mutations : (Pending(n)' <=> Pending(n)) /\ (n # m => life'[n] = life[n])
  BY <1>t, <1>m, <1>l DEF Pending
<1>5. NoneTwice'
  BY <1>t, <1>4 DEF BlocksFit, NoneTwice
<1>6. BlockCovers'
  <2> SUFFICES ASSUME NEW n \in Mutations, Blocking(n), Pending(n)'
               PROVE  \/ ItsBlock(n)' /\ (blockPhase' = "queued" <=> life'[n] = "queued")
                      \/ \E k \in expired' : Same(k, n)
    BY DEF BlockCovers
  <2>1. \/ ItsBlock(n) /\ (blockPhase = "queued" <=> life[n] = "queued")
        \/ \E k \in expired : Same(k, n)
    BY <1>4 DEF BlocksFit, BlockFits, BlockCovers
  <2>2. CASE \E k \in expired : Same(k, n)
    BY <1>t, <2>2
  <2>3. CASE ItsBlock(n) /\ (blockPhase = "queued" <=> life[n] = "queued")
    <3>1. ItsBlock(n)'
      BY <1>t, <2>3 DEF ItsBlock, Same
    <3>2. CASE n = m
      BY <1>t, <1>m, <2>3, <3>1, <3>2
    <3>3. CASE n # m /\ Same(m, n)
      <4>1. Blocking(m) /\ Pending(m) /\ Pending(n)
        BY <1>4, <1>l, <3>3 DEF Blocking, Same, Pending
      <4>2. \E k \in expired : Same(k, m)
        BY <1>m, <3>3, <4>1 DEF BlocksFit, NoneTwice
      <4> QED BY <1>t, <3>3, <4>2 DEF Same
    <3>4. CASE n # m /\ ~Same(m, n)
      <4>1. ~ItsBlock(m)
        BY <2>3, <3>4 DEF ItsBlock, Same
      <4> QED BY <1>t, <1>4, <2>3, <3>1, <3>4, <4>1
    <3> QED BY <3>2, <3>3, <3>4
  <2> QED BY <2>1, <2>2, <2>3
<1>7. NoBlockIsLeft'
  BY <1>t, <1>4 DEF BlocksFit, BlockFits, NoBlockIsLeft
<1> QED BY <1>1, <1>2, <1>3, <1>5, <1>6, <1>7 DEF BlocksFit, BlockFits

\* The turn of m goes on, whatever else the step does to the deletions.
LEMMA TurnKeeps ==
  ASSUME QueueTypes, BlocksFit, NEW m \in Mutations, TurnGoesOn(m),
         \A n \in Mutations \ {m} : call'[n] = call[n],
         life[m] \in {"new", "queued"} => UNCHANGED call
  PROVE  BlocksFit'
<1>t. queue \in Seq(Mutations) /\ life \in [Mutations -> Lives]
  BY DEF QueueTypes
<1>q. \A i \in 1..Len(queue) : queue[i] \in Mutations
  BY <1>t
<1>1. CASE UNCHANGED <<mutationQueue, blocks>>
  <2>1. UNCHANGED <<queue, active, life, block, blockPhase, createBlock, expired>>
    BY <1>1 DEF mutationQueue, blocks
  <2>2. TurnsFit'
    BY <2>1 DEF BlocksFit, TurnsFit
  <2>3. NoneTwice' /\ BlockFits'
    BY <2>1 DEF BlocksFit, NoneTwice, BlockFits, BlockCovers, NoBlockIsLeft, Pending, ItsBlock
  <2> QED BY <2>2, <2>3 DEF BlocksFit
<1>2. CASE life[m] \in {"running", "reloading"} /\ TurnReloads(m)
  <2>1. /\ UNCHANGED <<queue, active, block, blockPhase, createBlock, expired>>
        /\ \A n \in Mutations : life'[n] = IF n = m THEN "reloading" ELSE life[n]
    BY <1>2, <1>t DEF TurnReloads, blocks
  <2>2. \A n \in Mutations : (Pending(n)' <=> Pending(n)) /\ (life'[n] = "queued" <=> life[n] = "queued")
    BY <2>1, <1>2 DEF Pending
  <2>3. TurnsFit'
    BY <2>1, <1>2, <1>q DEF BlocksFit, TurnsFit
  <2>4. NoneTwice'
    BY <2>1, <2>2 DEF BlocksFit, NoneTwice
  <2>5. BlockFits'
    BY <2>1, <2>2 DEF BlocksFit, BlockFits, BlockCovers, NoBlockIsLeft, ItsBlock
  <2> QED BY <2>3, <2>4, <2>5 DEF BlocksFit
<1>3. CASE life[m] \in {"running", "reloading"} /\ EndsTurn(m)
  <2>1. PICK outcome \in {"done", "failed"} : Ends(m, outcome)
    BY <1>3 DEF EndsTurn
  <2>2. /\ UNCHANGED <<queue, expired>> /\ active' = NoMutation
        /\ \A n \in Mutations : life'[n] = IF n = m THEN outcome ELSE life[n]
        /\ IF Blocking(m) /\ ItsBlock(m) THEN NoBlock ELSE UNCHANGED <<block, blockPhase>>
        /\ IF Kind[m] = "create" THEN createBlock' = "none" ELSE UNCHANGED createBlock
    BY <2>1, <1>t DEF Ends, ActiveAfter, ClearsBlock
  <2>3. ~Pending(m)' /\ Pending(m) /\ \A n \in Mutations \ {m} : Pending(n)' <=> Pending(n)
    BY <2>2, <1>3 DEF Pending
  <2>4. \A n \in Mutations \ {m} : life[n] \notin {"running", "reloading"}
    BY <1>3, MutationsAssumption DEF BlocksFit, TurnsFit
  <2>5. TurnsFit'
    BY <2>2, <2>4, <1>3, <1>q DEF BlocksFit, TurnsFit, NoBlock
  <2>6. NoneTwice'
    BY <2>2, <2>3 DEF BlocksFit, NoneTwice
  <2>7. BlockCovers'
    <3> SUFFICES ASSUME NEW n \in Mutations, Blocking(n), Pending(n)'
                 PROVE  \/ ItsBlock(n)' /\ (blockPhase' = "queued" <=> life'[n] = "queued")
                        \/ \E k \in expired' : Same(k, n)
      BY DEF BlockCovers
    <3>1. n # m /\ Pending(n) /\ life'[n] = life[n]
      BY <2>2, <2>3
    <3>2. \/ ItsBlock(n) /\ (blockPhase = "queued" <=> life[n] = "queued")
          \/ \E k \in expired : Same(k, n)
      BY <3>1 DEF BlocksFit, BlockFits, BlockCovers
    <3>3. CASE \E k \in expired : Same(k, n)
      BY <2>2, <3>3
    <3>4. CASE ItsBlock(n) /\ Blocking(m) /\ ItsBlock(m)
      <4>1. Same(m, n)
        BY <3>4 DEF ItsBlock, Same
      <4>2. \E k \in expired : Same(k, m)
        BY <2>3, <3>1, <3>4, <4>1 DEF BlocksFit, NoneTwice
      <4> QED BY <2>2, <4>1, <4>2 DEF Same
    <3>5. CASE /\ ItsBlock(n) /\ (blockPhase = "queued" <=> life[n] = "queued")
               /\ ~(Blocking(m) /\ ItsBlock(m))
      BY <2>2, <3>1, <3>5 DEF ItsBlock
    <3> QED BY <3>2, <3>3, <3>4, <3>5
  <2>8. NoBlockIsLeft'
    <3>1. ASSUME block' # NoMutation PROVE \E n \in Mutations : Pending(n)' /\ Same(n, block')
      <4>1. UNCHANGED block /\ ~(Blocking(m) /\ ItsBlock(m))
        BY <2>2, <3>1 DEF NoBlock
      <4>2. PICK n \in Mutations : Pending(n) /\ Same(n, block)
        BY <3>1, <4>1 DEF BlocksFit, BlockFits, NoBlockIsLeft
      <4>3. Blocking(block)
        BY <3>1, <4>1 DEF BlocksFit, TurnsFit
      <4>4. n # m
        BY <3>1, <4>1, <4>2, <4>3 DEF ItsBlock, Same, Blocking
      <4> QED BY <2>3, <4>1, <4>2, <4>4
    <3>2. ASSUME createBlock' # "none" PROVE \E n \in Mutations : Pending(n)' /\ Kind[n] = "create"
      BY <2>2, <2>3, <3>2 DEF BlocksFit, BlockFits, NoBlockIsLeft
    <3> QED BY <3>1, <3>2 DEF NoBlockIsLeft
  <2> QED BY <2>5, <2>6, <2>7, <2>8 DEF BlocksFit, BlockFits
<1> QED BY <1>1, <1>2, <1>3 DEF TurnGoesOn

\* A timeout takes a block away and puts the change that has its turn on
\* record; the block of the others is that change's.
LEMMA BlockTimeoutKeeps ==
  ASSUME QueueTypes, DeletionTypes, BlocksFit, BlockTimesOut
  PROVE  QueueTypes' /\ DeletionTypes' /\ BlocksFit'
<1>t. /\ UNCHANGED <<connected, drops, agentsRunning, queue, active, life, createBlock, createBusy,
                     call, todo, backup, present, jobs, troubled>>
      /\ block' = NoMutation /\ blockPhase' = "none" /\ blockPhase = "mutating"
      /\ expired' = expired \cup {m \in Mutations : m = active}
  BY DEF BlockTimesOut, NoBlock, mutationQueue, deletion
<1>1. QueueTypes' /\ DeletionTypes'
  BY <1>t DEF QueueTypes, DeletionTypes
<1>2. TurnsFit' /\ NoneTwice'
  BY <1>t DEF BlocksFit, TurnsFit, NoneTwice, Pending
<1>3. BlockCovers'
  <2> SUFFICES ASSUME NEW m \in Mutations, Blocking(m), Pending(m)
               PROVE  \E k \in expired' : Same(k, m)
    BY <1>t DEF BlockCovers, Pending
  <2>1. CASE \E k \in expired : Same(k, m)
    BY <1>t, <2>1
  <2>2. CASE life[m] # "queued"
    <3>1. active = m
      BY <2>2 DEF Pending, BlocksFit, TurnsFit
    <3> QED BY <1>t, <3>1 DEF Same
  <2> QED BY <1>t, <2>1, <2>2 DEF BlocksFit, BlockFits, BlockCovers
<1>4. NoBlockIsLeft'
  BY <1>t DEF BlocksFit, BlockFits, NoBlockIsLeft, Pending
<1> QED BY <1>1, <1>2, <1>3, <1>4 DEF BlocksFit, BlockFits

\* Those of the queue's surroundings and of a creation touch no block.
LEMMA AroundKeeps ==
  ASSUME QueueTypes, DeletionTypes, BlocksFit, ConnectionChanges \/ RunsChange \/ CreateBlockTimesOut
  PROVE  QueueTypes' /\ DeletionTypes' /\ BlocksFit'
<1>t. UNCHANGED <<queue, active, life, block, blockPhase, createBusy, expired, call, todo, backup,
                  present, jobs, troubled>>
  BY DEF ConnectionChanges, RunsChange, CreateBlockTimesOut, mutationQueue, blocks, deletion
<1>c. createBlock' \in {createBlock, "none"}
  BY DEF ConnectionChanges, RunsChange, CreateBlockTimesOut, blocks
<1>b. connected' \in BOOLEAN /\ agentsRunning' \in BOOLEAN
  BY DEF ConnectionChanges, RunsChange, CreateBlockTimesOut, QueueTypes, mutationQueue
<1>d. drops' \in 0..MaxDrops
  BY MutationsAssumption
  DEF ConnectionChanges, RunsChange, CreateBlockTimesOut, QueueTypes, mutationQueue
<1>1. QueueTypes' /\ DeletionTypes'
  BY <1>t, <1>c, <1>b, <1>d DEF QueueTypes, DeletionTypes
<1>2. TurnsFit' /\ NoneTwice'
  BY <1>t DEF BlocksFit, TurnsFit, NoneTwice, Pending
<1>3. BlockFits'
  BY <1>t, <1>c DEF BlocksFit, BlockFits, BlockCovers, NoBlockIsLeft, ItsBlock, Pending
<1> QED BY <1>1, <1>2, <1>3 DEF BlocksFit

\* At first nothing is asked for.
LEMMA MutationsInitially == MutationsInit => QueueTypes /\ DeletionTypes /\ BlocksFit
<1> SUFFICES ASSUME MutationsInit PROVE QueueTypes /\ DeletionTypes /\ BlocksFit
  OBVIOUS
<1>1. QueueTypes
  <2>1. connected \in BOOLEAN /\ agentsRunning \in BOOLEAN /\ createBusy \in BOOLEAN
    BY DEF MutationsInit
  <2>2. queue \in Seq(Mutations) /\ life \in [Mutations -> Lives] /\ drops \in 0..MaxDrops
    BY MutationsAssumption DEF MutationsInit, Lives
  <2> QED BY <2>1, <2>2 DEF MutationsInit, QueueTypes
<1>2. DeletionTypes
  BY MutationsAssumption DEF MutationsInit, DeletionTypes, Targets
<1>3. BlocksFit
  <2>1. Len(queue) = 0
    BY DEF MutationsInit
  <2>2. TurnsFit
    BY <2>1 DEF MutationsInit, TurnsFit
  <2>3. \A m \in Mutations : ~Pending(m)
    BY DEF MutationsInit, Pending
  <2> QED BY <2>2, <2>3
      DEF MutationsInit, BlocksFit, NoneTwice, BlockFits, BlockCovers, NoBlockIsLeft
<1> QED BY <1>1, <1>2, <1>3

\* Every step keeps the types and the blocks.
LEMMA BlockStep ==
  ASSUME QueueTypes, DeletionTypes, BlocksFit, [MutationsNext]_mutations
  PROVE  QueueTypes' /\ DeletionTypes' /\ BlocksFit'
<1>1. CASE ConnectionChanges \/ RunsChange \/ CreateBlockTimesOut
  BY <1>1, AroundKeeps
<1>2. CASE StartNext
  BY <1>2, StartKeeps
<1>3. CASE BlockTimesOut
  BY <1>3, BlockTimeoutKeeps
<1>4. ASSUME NEW m \in Mutations, Ask(m) PROVE QueueTypes' /\ DeletionTypes' /\ BlocksFit'
  BY <1>4, AskKeeps
<1>5. ASSUME NEW m \in Mutations, Requests(m) PROVE QueueTypes' /\ DeletionTypes' /\ BlocksFit'
  <2>1. /\ TurnGoesOn(m) /\ life[m] \notin {"new", "queued"} /\ DeletionTypes'
        /\ \A n \in Mutations \ {m} : call'[n] = call[n]
    BY <1>5, RequestSteps, RequestTypes DEF BlocksFit, TurnsFit
  <2> QED BY <2>1, TurnTypes, TurnKeeps
<1>6. ASSUME NEW m \in Mutations,
             RequestTimesOut(m) \/ \E ok \in BOOLEAN : Reloaded(m, ok)
      PROVE  QueueTypes' /\ DeletionTypes' /\ BlocksFit'
  <2>1. TurnGoesOn(m) /\ UNCHANGED <<call, todo, backup, present, jobs, troubled>>
    BY <1>6 DEF RequestTimesOut, Reloaded, TurnGoesOn, EndsTurn, deletion
  <2>2. DeletionTypes'
    BY <2>1 DEF DeletionTypes
  <2> QED BY <2>1, <2>2, TurnTypes, TurnKeeps
<1>7. CASE UNCHANGED mutations
  <2>1. UNCHANGED <<connected, drops, agentsRunning, queue, active, life, block, blockPhase,
                    createBlock, createBusy, expired, call, todo, backup, present, jobs, troubled>>
    BY <1>7 DEF mutations, mutationQueue, blocks, deletion
  <2>2. QueueTypes' /\ DeletionTypes'
    BY <2>1 DEF QueueTypes, DeletionTypes
  <2>3. TurnsFit' /\ NoneTwice'
    BY <2>1 DEF BlocksFit, TurnsFit, NoneTwice, Pending
  <2>4. BlockFits'
    BY <2>1 DEF BlocksFit, BlockFits, BlockCovers, NoBlockIsLeft, ItsBlock, Pending
  <2> QED BY <2>2, <2>3, <2>4 DEF BlocksFit
<1> QED BY <1>1, <1>2, <1>3, <1>4, <1>5, <1>6, <1>7 DEF MutationsNext

\* The types and the blocks hold in every state.
LEMMA BlockAlways == MutationsSpec => [](QueueTypes /\ DeletionTypes /\ BlocksFit)
<1>1. QueueTypes /\ DeletionTypes /\ BlocksFit /\ [MutationsNext]_mutations
      => (QueueTypes /\ DeletionTypes /\ BlocksFit)'
  BY BlockStep
<1> QED BY <1>1, MutationsInitially, PTL DEF MutationsSpec

\* The window's queue, its blocks and the deletions keep their types
\* (useConfigMutationQueue, deleteAgentOperation).
THEOREM MutationsTypeCorrect == MutationsSpec => []MutationsTypeOK
BY BlockAlways, MutationsApart, PTL

\* The block on the screen stands for the change that waits or runs, no
\* shorter and no longer, for any number of changes, agents and drops.
THEOREM BlockCorrect == MutationsSpec => []BlockFits
<1>1. BlocksFit => BlockFits
  BY DEF BlocksFit
<1> QED BY <1>1, BlockAlways, PTL

-----------------------------------------------------------------------------
(* Deletions.                                                              *)

\* A request of a deletion of a touches no job of another agent.
ApartFrom(m, a) ==
    /\ \A n \in Mutations \ {m} :
          call'[n] = call[n] /\ todo'[n] = todo[n] /\ backup'[n] = backup[n]
    /\ \A b \in Targets \ {a} : JobsHere(b)' = JobsHere(b) /\ (b \in present' <=> b \in present)
    /\ troubled \subseteq troubled' /\ troubled' \subseteq troubled \cup {a}

\* Unless it leaves its agent troubled, it can be undone or has left the agent
\* whole.
Accounted(m, a) ==
    /\ call'[m] \in {"removing", "restoring", "over"}
    /\ todo'[m] \cup backup'[m] \subseteq JobsOf(a)
    /\ a \notin troubled' =>
          /\ call'[m] = "over" => JobsHere(a)' = JobsDue(a)'
          /\ call'[m] # "over" => JobsHere(a)' \cup backup'[m] = JobsDue(a)'
          /\ call'[m] = "removing" => todo'[m] = JobsHere(a)'

\* Each request of a deletion is one of these: list, remove, delete, put back.
LEMMA DeletionGoesOn ==
  ASSUME DeletionTypes, NEW m \in Mutations, Kind[m] = "delete", Requests(m), OnItsJobs(m),
         Target[m] \notin troubled => Undoable(m)
  PROVE  ApartFrom(m, Target[m]) /\ Accounted(m, Target[m])
<1> DEFINE a == Target[m]
<1>t. /\ call \in [Mutations -> {"none", "sent", "removing", "restoring", "over"}]
      /\ todo \in [Mutations -> SUBSET ScheduledJobs]
      /\ backup \in [Mutations -> SUBSET ScheduledJobs]
      /\ jobs \subseteq ScheduledJobs
  BY DEF DeletionTypes
<1>o. /\ todo[m] \cup backup[m] \subseteq JobsOf(a) /\ (call[m] = "sent" => backup[m] = {})
      /\ a \notin troubled =>
            /\ JobsHere(a) \cup backup[m] = JobsDue(a)
            /\ call[m] = "sent" => JobsHere(a) = JobsDue(a)
            /\ call[m] = "removing" => todo[m] = JobsHere(a)
  BY DEF OnItsJobs, Undoable
<1>j. \A b \in Targets \ {a}, j \in JobsOf(a) : j \notin JobsOf(b)
  BY DEF JobsOf
<1> HIDE DEF a
<1>1. ASSUME NEW ok \in BOOLEAN, ListJobs(m, ok) PROVE ApartFrom(m, a) /\ Accounted(m, a)
  <2>1. UNCHANGED <<backup, present, jobs, troubled>> /\ call[m] = "sent"
    BY <1>1 DEF ListJobs
  <2>2. CASE ok
    <3>1. /\ call' = [call EXCEPT ![m] = "removing"]
          /\ todo' = [todo EXCEPT ![m] = JobsHere(a)]
      BY <1>1, <2>2, <1>t DEF ListJobs, JobsHere, JobsOf, a
    <3>2. ApartFrom(m, a)
      BY <2>1, <3>1, <1>t DEF ApartFrom, JobsHere
    <3>3. call'[m] = "removing" /\ todo'[m] = JobsHere(a) /\ UNCHANGED JobsDue(a)
          /\ UNCHANGED JobsHere(a)
      BY <2>1, <3>1, <1>t DEF JobsHere, JobsDue
    <3>4. JobsHere(a) \subseteq JobsOf(a)
      BY DEF JobsHere
    <3> QED BY <2>1, <3>2, <3>3, <3>4, <1>o DEF Accounted
  <2>3. CASE ~ok
    <3>1. call' = [call EXCEPT ![m] = "over"] /\ UNCHANGED todo
      BY <1>1, <2>3 DEF ListJobs
    <3>2. ApartFrom(m, a)
      BY <2>1, <3>1, <1>t DEF ApartFrom, JobsHere
    <3>3. call'[m] = "over" /\ UNCHANGED JobsDue(a) /\ UNCHANGED JobsHere(a)
      BY <2>1, <3>1, <1>t DEF JobsHere, JobsDue
    <3> QED BY <2>1, <3>1, <3>2, <3>3, <1>o DEF Accounted
  <2> QED BY <2>2, <2>3
<1>2. ASSUME NEW ok \in BOOLEAN, NEW applied \in BOOLEAN, DeleteAgent(m, ok, applied)
      PROVE  ApartFrom(m, a) /\ Accounted(m, a)
  <2>1. /\ UNCHANGED <<todo, backup, jobs>> /\ call[m] = "removing" /\ todo[m] = {}
        /\ present' = (IF applied THEN present \ {a} ELSE present)
        /\ troubled' = (IF applied /\ ~ok THEN troubled \cup {a} ELSE troubled)
        /\ call' = [call EXCEPT ![m] = IF ok THEN "over" ELSE "restoring"]
        /\ ok => applied
    BY <1>2 DEF DeleteAgent, a
  <2>2. ApartFrom(m, a)
    BY <2>1, <1>t DEF ApartFrom, JobsHere
  <2>3. call'[m] = (IF ok THEN "over" ELSE "restoring") /\ UNCHANGED JobsHere(a)
    BY <2>1, <1>t DEF JobsHere
  <2>4. CASE ok
    <3>1. JobsDue(a)' = {}
      BY <2>1, <2>4 DEF JobsDue
    <3> QED BY <2>1, <2>2, <2>3, <2>4, <3>1, <1>o DEF Accounted
  <2>5. CASE ~ok
    <3>1. a \notin troubled' => UNCHANGED JobsDue(a)
      BY <2>1, <2>5 DEF JobsDue
    <3> QED BY <2>1, <2>2, <2>3, <2>5, <3>1, <1>o DEF Accounted
  <2> QED BY <2>4, <2>5
<1>3. ASSUME NEW ok \in BOOLEAN, NEW applied \in BOOLEAN, NEW j \in ScheduledJobs,
             RemoveJob(m, j, ok, applied)
      PROVE  ApartFrom(m, a) /\ Accounted(m, a)
  <2>1. /\ UNCHANGED present /\ call[m] = "removing" /\ j \in todo[m]
        /\ jobs' = (IF applied THEN jobs \ {j} ELSE jobs) /\ (ok => applied)
    BY <1>3 DEF RemoveJob
  <2>2. UNCHANGED JobsDue(a) /\ j \in JobsOf(a)
    BY <2>1, <1>o DEF JobsDue
  <2>3. CASE ok
    <3>1. /\ todo' = [todo EXCEPT ![m] = @ \ {j}] /\ UNCHANGED <<call, troubled>>
          /\ backup' = [backup EXCEPT ![m] = IF j \in jobs THEN @ \cup {j} ELSE @]
          /\ jobs' = jobs \ {j}
      BY <1>3, <2>1, <2>3 DEF RemoveJob, BackedUp
    <3>2. ApartFrom(m, a)
      BY <2>1, <2>2, <3>1, <1>t, <1>j DEF ApartFrom, JobsHere
    <3>3. /\ todo'[m] = todo[m] \ {j} /\ JobsHere(a)' = JobsHere(a) \ {j}
          /\ backup'[m] = IF j \in jobs THEN backup[m] \cup {j} ELSE backup[m]
      BY <3>1, <1>t DEF JobsHere
    <3>4. a \notin troubled => JobsHere(a)' \cup backup'[m] = JobsDue(a) /\ todo'[m] = JobsHere(a)'
      <4>1. a \notin troubled => j \in JobsHere(a) /\ j \in jobs
        BY <2>1, <1>o DEF JobsHere
      <4> QED BY <2>1, <3>3, <4>1, <1>o
    <3>5. todo'[m] \cup backup'[m] \subseteq JobsOf(a)
      BY <2>2, <3>3, <1>o
    <3> QED BY <2>1, <2>2, <3>1, <3>2, <3>4, <3>5 DEF Accounted
  <2>4. CASE ~ok
    <3>1. /\ call' = [call EXCEPT ![m] = "restoring"] /\ UNCHANGED <<todo, backup>>
          /\ troubled' = IF applied THEN troubled \cup {a} ELSE troubled
      BY <1>3, <2>4 DEF RemoveJob, a
    <3>2. ApartFrom(m, a)
      BY <2>1, <2>2, <3>1, <1>t, <1>j DEF ApartFrom, JobsHere
    <3>3. a \notin troubled' => UNCHANGED JobsHere(a)
      BY <2>1, <3>1 DEF JobsHere
    <3> QED BY <2>2, <3>1, <3>2, <3>3, <1>o, <1>t DEF Accounted
  <2> QED BY <2>3, <2>4
<1>4. ASSUME NEW ok \in BOOLEAN, NEW j \in ScheduledJobs, RestoreJob(m, j, ok)
      PROVE  ApartFrom(m, a) /\ Accounted(m, a)
  <2>1. UNCHANGED <<todo, present>> /\ call[m] = "restoring" /\ j \in backup[m] /\ j \in JobsOf(a)
        /\ UNCHANGED JobsDue(a)
    BY <1>4, <1>o DEF RestoreJob, JobsDue
  <2>2. CASE ok
    <3>1. /\ jobs' = jobs \cup {j} /\ backup' = [backup EXCEPT ![m] = @ \ {j}]
          /\ UNCHANGED <<call, troubled>>
      BY <1>4, <2>2 DEF RestoreJob
    <3>2. ApartFrom(m, a)
      BY <2>1, <3>1, <1>t, <1>j DEF ApartFrom, JobsHere
    <3>3. JobsHere(a)' = JobsHere(a) \cup {j} /\ backup'[m] = backup[m] \ {j}
      BY <2>1, <3>1, <1>t DEF JobsHere
    <3> QED BY <2>1, <3>1, <3>2, <3>3, <1>o DEF Accounted
  <2>3. CASE ~ok
    <3>1. /\ call' = [call EXCEPT ![m] = "over"] /\ troubled' = troubled \cup {a}
          /\ UNCHANGED <<jobs, backup>>
      BY <1>4, <2>3 DEF RestoreJob, a
    <3>2. ApartFrom(m, a)
      BY <2>1, <3>1, <1>t DEF ApartFrom, JobsHere
    <3> QED BY <2>1, <3>1, <3>2, <1>o, <1>t DEF Accounted
  <2> QED BY <2>2, <2>3
<1>5. ASSUME Restored(m) PROVE ApartFrom(m, a) /\ Accounted(m, a)
  <2>1. /\ UNCHANGED <<todo, backup, present, jobs, troubled>> /\ backup[m] = {}
        /\ call' = [call EXCEPT ![m] = "over"]
    BY <1>5 DEF Restored
  <2>2. ApartFrom(m, a)
    BY <2>1, <1>t DEF ApartFrom, JobsHere
  <2>3. call'[m] = "over" /\ UNCHANGED JobsHere(a) /\ UNCHANGED JobsDue(a)
    BY <2>1, <1>t DEF JobsHere, JobsDue
  <2>4. a \notin troubled => JobsHere(a) = JobsDue(a)
    <3>1. JobsHere(a) \cup backup[m] = JobsHere(a)
      BY <2>1
    <3> QED BY <3>1, <1>o
  <2>5. todo'[m] \cup backup'[m] \subseteq JobsOf(a)
    BY <2>1, <1>o
  <2> QED BY <2>1, <2>2, <2>3, <2>4, <2>5 DEF Accounted
<1>6. \A ok \in BOOLEAN : ~Answer(m, ok)
  BY DEF Answer
<1> QED BY <1>1, <1>2, <1>3, <1>4, <1>5, <1>6 DEF Requests, a

\* So a request of a deletion keeps every agent undoable or whole.
LEMMA DeletionKeeps ==
  ASSUME DeletionTypes, DeletionInvariant, NEW m \in Mutations, Requests(m)
  PROVE  DeletionInvariant'
<1>t. call \in [Mutations -> {"none", "sent", "removing", "restoring", "over"}]
  BY DEF DeletionTypes
<1>1. CASE Kind[m] # "delete"
  <2>1. call[m] \notin {"removing", "restoring"}
    BY <1>1 DEF DeletionInvariant, OnItsJobs
  <2>2. PICK ok \in BOOLEAN : Answer(m, ok)
    BY <1>1, <2>1 DEF Requests, ListJobs, DeleteAgent, RemoveJob, RestoreJob, Restored
  <2>3. /\ UNCHANGED <<todo, backup, present, jobs, troubled>> /\ call' = [call EXCEPT ![m] = "over"]
    BY <2>2 DEF Answer
  <2>4. \A n \in Mutations : call'[n] = IF n = m THEN "over" ELSE call[n]
    BY <2>3, <1>t
  <2>5. \A n \in Mutations : Deleting(n)' <=> Deleting(n)
    BY <1>1, <2>4 DEF Deleting
  <2>6. \A n \in Mutations : OnItsJobs(n)'
    BY <2>3, <2>4 DEF DeletionInvariant, OnItsJobs
  <2>7. \A b : UNCHANGED JobsHere(b) /\ UNCHANGED JobsDue(b)
    BY <2>3 DEF JobsHere, JobsDue
  <2>8. ASSUME NEW n \in Mutations, Deleting(n)', Target[n] \notin troubled' PROVE Undoable(n)'
    <3>1. n # m /\ Deleting(n)
      BY <2>5, <2>8, <1>1 DEF Deleting
    <3>2. Undoable(n)
      BY <3>1, <2>3, <2>8 DEF DeletionInvariant
    <3> QED BY <3>1, <3>2, <2>3, <2>4, <2>5, <2>7 DEF Undoable
  <2>9. ASSUME NEW b \in Targets \ troubled', \A n \in Mutations : Target[n] = b => ~Deleting(n)'
        PROVE  JobsHere(b)' = JobsDue(b)'
    BY <2>3, <2>5, <2>7, <2>9 DEF DeletionInvariant
  <2> QED BY <2>6, <2>8, <2>9 DEF DeletionInvariant
<1>2. CASE Kind[m] = "delete"
  <2> DEFINE a == Target[m]
  <2>a. a \in Targets
    BY DEF Targets
  <2>0. call[m] \in {"sent", "removing", "restoring"}
    BY <1>2 DEF Requests, Answer, ListJobs, DeleteAgent, RemoveJob, RestoreJob, Restored
  <2>1. Deleting(m) /\ OnItsJobs(m) /\ (a \notin troubled => Undoable(m))
    BY <1>2, <2>0 DEF DeletionInvariant, Deleting
  <2>2. ApartFrom(m, a) /\ Accounted(m, a)
    BY <1>2, <2>1, DeletionGoesOn
  <2>3. \A n \in Mutations \ {m} : Deleting(n)' <=> Deleting(n)
    BY <2>2 DEF Deleting, ApartFrom
  <2>4. Deleting(m)' <=> call'[m] # "over"
    BY <1>2, <2>2 DEF Deleting, Accounted
  <2>5. \A n \in Mutations : OnItsJobs(n)'
    BY <1>2, <2>2 DEF DeletionInvariant, OnItsJobs, ApartFrom, Accounted
  <2>6. \A b \in Targets \ {a} : JobsHere(b)' = JobsHere(b) /\ JobsDue(b)' = JobsDue(b)
    BY <2>2 DEF ApartFrom, JobsDue
  <2>7. a \notin troubled' => \A n \in Mutations \ {m} : Target[n] = a => ~Deleting(n)
    BY <2>1, <2>2 DEF ApartFrom, Undoable
  <2>8. ASSUME NEW n \in Mutations, Deleting(n)', Target[n] \notin troubled' PROVE Undoable(n)'
    <3>1. CASE n = m
      BY <2>2, <2>3, <2>4, <2>7, <2>8, <3>1 DEF Undoable, Accounted
    <3>2. CASE n # m
      <4>1. Target[n] # a /\ Target[n] \in Targets /\ Deleting(n) /\ Target[n] \notin troubled
        BY <2>2, <2>3, <2>7, <2>8, <3>2 DEF Targets, ApartFrom
      <4>2. Undoable(n) /\ call'[n] = call[n] /\ todo'[n] = todo[n] /\ backup'[n] = backup[n]
        BY <2>2, <3>2, <4>1 DEF DeletionInvariant, ApartFrom
      <4>3. \A k \in Mutations : Deleting(k)' /\ Target[k] = Target[n] => k = n
        BY <2>3, <4>1, <4>2 DEF Undoable
      <4> QED BY <2>6, <4>1, <4>2, <4>3 DEF Undoable
    <3> QED BY <3>1, <3>2
  <2>9. ASSUME NEW b \in Targets \ troubled', \A n \in Mutations : Target[n] = b => ~Deleting(n)'
        PROVE  JobsHere(b)' = JobsDue(b)'
    <3>1. CASE b = a
      BY <2>2, <2>4, <2>9, <3>1 DEF Accounted
    <3>2. CASE b # a
      BY <2>2, <2>3, <2>6, <2>9, <3>2 DEF DeletionInvariant, ApartFrom
    <3> QED BY <3>1, <3>2
  <2> QED BY <2>5, <2>8, <2>9 DEF DeletionInvariant
<1> QED BY <1>1, <1>2

\* A deletion that comes to its turn finds its agent whole, or another
\* deletion of it under way.
LEMMA DeletionStarts ==
  ASSUME QueueTypes, DeletionTypes, TurnsFit, DeletionInvariant, StartNext
  PROVE  DeletionInvariant'
<1>q. Head(queue) \in Mutations /\ Head(queue) = queue[1] /\ 1 \in 1..Len(queue)
  BY DEF QueueTypes, StartNext
<1>p. PICK m \in Mutations : m = Head(queue)
  BY <1>q
<1>t. /\ call \in [Mutations -> {"none", "sent", "removing", "restoring", "over"}]
      /\ UNCHANGED <<todo, backup, present, jobs>> /\ call' = [call EXCEPT ![m] = "sent"]
      /\ troubled' = IF Kind[m] = "delete" /\ \E n \in Mutations \ {m} :
                              Same(n, m) /\ call[n] \notin {"none", "over"}
                      THEN troubled \cup {Target[m]} ELSE troubled
  BY <1>p DEF DeletionTypes, StartNext
<1>n. call[m] = "none"
  BY <1>p, <1>q DEF TurnsFit
<1>c. \A n \in Mutations : call'[n] = IF n = m THEN "sent" ELSE call[n]
  BY <1>t
<1>1. \A n \in Mutations : OnItsJobs(n)'
  BY <1>t, <1>n, <1>c DEF DeletionInvariant, OnItsJobs
<1>2. \A b : JobsHere(b)' = JobsHere(b) /\ JobsDue(b)' = JobsDue(b)
  BY <1>t DEF JobsHere, JobsDue
<1>3. \A n \in Mutations \ {m} : Deleting(n)' <=> Deleting(n)
  BY <1>c DEF Deleting
<1>4. ~Deleting(m) /\ (Deleting(m)' <=> Kind[m] = "delete")
  BY <1>n, <1>c DEF Deleting
<1>5. Kind[m] = "delete" /\ Target[m] \notin troubled' =>
          \A n \in Mutations \ {m} : Target[n] = Target[m] => ~Deleting(n)
  BY <1>t DEF Deleting, Same
<1>6. ASSUME NEW n \in Mutations, Deleting(n)', Target[n] \notin troubled' PROVE Undoable(n)'
  <2>1. CASE n = m
    <3>1. Kind[m] = "delete" /\ Target[m] \in Targets \ troubled
      BY <1>t, <1>4, <1>6, <2>1 DEF Targets
    <3>2. \A k \in Mutations : Target[k] = Target[m] => ~Deleting(k)
      BY <1>4, <1>5, <1>6, <2>1, <3>1
    <3>3. JobsHere(Target[m]) = JobsDue(Target[m])
      BY <3>1, <3>2 DEF DeletionInvariant
    <3>4. call'[m] = "sent" /\ backup'[m] = {}
      BY <1>t, <1>c, <1>n DEF DeletionInvariant, OnItsJobs
    <3>5. \A k \in Mutations : Deleting(k)' /\ Target[k] = Target[m] => k = m
      BY <1>3, <3>2
    <3> QED BY <1>2, <2>1, <3>3, <3>4, <3>5 DEF Undoable
  <2>2. CASE n # m
    <3>1. Deleting(n) /\ Target[n] \notin troubled
      BY <1>t, <1>3, <1>6, <2>2
    <3>2. Undoable(n) /\ call'[n] = call[n] /\ todo'[n] = todo[n] /\ backup'[n] = backup[n]
      BY <1>t, <1>c, <2>2, <3>1 DEF DeletionInvariant
    <3>3. Target[m] = Target[n] => ~Deleting(m)'
      BY <1>4, <1>5, <1>6, <2>2, <3>1
    <3>4. \A k \in Mutations : Deleting(k)' /\ Target[k] = Target[n] => k = n
      BY <1>3, <3>2, <3>3 DEF Undoable
    <3> QED BY <1>2, <3>2, <3>4 DEF Undoable
  <2> QED BY <2>1, <2>2
<1>7. ASSUME NEW b \in Targets \ troubled', \A n \in Mutations : Target[n] = b => ~Deleting(n)'
      PROVE  JobsHere(b)' = JobsDue(b)'
  BY <1>t, <1>2, <1>3, <1>4, <1>7 DEF DeletionInvariant
<1> QED BY <1>1, <1>6, <1>7 DEF DeletionInvariant

\* Every step keeps it, and it says what the property does.
LEMMA DeletionStep ==
  ASSUME QueueTypes, DeletionTypes, TurnsFit, DeletionInvariant, [MutationsNext]_mutations
  PROVE  DeletionInvariant'
<1>1. CASE StartNext
  BY <1>1, DeletionStarts
<1>2. ASSUME NEW m \in Mutations, Requests(m) PROVE DeletionInvariant'
  BY <1>2, DeletionKeeps
<1>3. CASE UNCHANGED deletion
  <2>1. UNCHANGED <<call, todo, backup, present, jobs, troubled>>
    BY <1>3 DEF deletion
  <2> QED BY <2>1
      DEF DeletionInvariant, OnItsJobs, Undoable, Deleting, JobsHere, JobsDue
<1>4. StartNext \/ (\E m \in Mutations : Requests(m)) \/ UNCHANGED deletion
  BY DEF MutationsNext, mutations, ConnectionChanges, RunsChange, BlockTimesOut,
         CreateBlockTimesOut, Ask, RequestTimesOut, Reloaded
<1> QED BY <1>1, <1>2, <1>3, <1>4

\* The invariant of the deletions says what the property does.
LEMMA DeletionShown == DeletionInvariant => DeletedOrWhole
<1> SUFFICES ASSUME DeletionInvariant, NEW a \in Targets \ troubled,
                    \A m \in Mutations : Kind[m] = "delete" /\ Target[m] = a
                                        => call[m] \in {"none", "over"},
                    NEW j \in ScheduledJobs, Owner[j] = a
             PROVE  j \in jobs <=> a \in present
  BY DEF DeletedOrWhole
<1>1. JobsHere(a) = JobsDue(a)
  BY DEF DeletionInvariant, Deleting
<1> QED BY <1>1 DEF JobsHere, JobsDue, JobsOf

\* An agent whose deletion failed at whichever request keeps all its scheduled
\* jobs, and one that is gone has left none, for any number of changes, agents
\* and jobs; lost answers, jobs that could not be put back and overlapping
\* deletions aside.
THEOREM DeletionCorrect == MutationsSpec => []DeletedOrWhole
<1>1. MutationsInit => DeletionInvariant
  <2> SUFFICES ASSUME MutationsInit PROVE DeletionInvariant
    OBVIOUS
  <2>1. \A m \in Mutations : OnItsJobs(m) /\ ~Deleting(m)
    BY DEF MutationsInit, OnItsJobs, Deleting
  <2>2. ASSUME NEW a \in Targets PROVE JobsHere(a) = JobsDue(a)
    <3>1. a \notin present => JobsOf(a) = {}
      BY DEF MutationsInit, JobsOf
    <3> QED BY <3>1 DEF MutationsInit, JobsHere, JobsDue, JobsOf
  <2> QED BY <2>1, <2>2 DEF DeletionInvariant
<1>2. (QueueTypes /\ DeletionTypes /\ BlocksFit) /\ DeletionInvariant /\ [MutationsNext]_mutations
      => DeletionInvariant'
  BY DeletionStep DEF BlocksFit
<1> QED BY <1>1, <1>2, BlockAlways, DeletionShown, PTL DEF MutationsSpec

-----------------------------------------------------------------------------
(* GatewayDocuments                                                        *)

-----------------------------------------------------------------------------
(* Documents and entries.                                                  *)

Both == [file : Files, config : Configs]
Seen == [allow : SUBSET Patterns, entry : Entries]

\* An entry is not the mark of none, and a new agent has one.
LEMMA EntriesSet == NewEntry \in Entries /\ Unset \notin Entries /\ Unset \notin Policies
<1>1. NewEntry \in Entries
  <2>1. [g \in Groups |-> Unset] \in Toggles /\ Unrestricted \in SkillSets
    BY DEF Toggles, SkillSets
  <2> QED BY <2>1 DEF NewEntry, Entries
<1>2. Unset \notin Entries /\ Unset \notin Policies
  BY DocumentsAssumption
<1> QED BY <1>1, <1>2

\* What a document has of an agent is an entry, a new one if need be.
LEMMA EntryInEntries ==
  ASSUME NEW doc \in Configs, NEW a \in All
  PROVE  EntryIn(doc, a) \in Entries /\ (doc[a] # Unset => EntryIn(doc, a) = doc[a])
BY EntriesSet DEF EntryIn, Configs

\* An entry with other tools or other skills.
LEMMA EntryChanged ==
  ASSUME NEW e \in Entries, NEW t \in Toggles, NEW s \in SkillSets
  PROVE  /\ [e EXCEPT !.tools = t] \in Entries /\ [e EXCEPT !.skills = s] \in Entries
         /\ [e EXCEPT !.tools = t].tools = t /\ [e EXCEPT !.tools = t].skills = e.skills
         /\ [e EXCEPT !.skills = s].skills = s
         /\ e.tools \in Toggles /\ e.skills \in SkillSets
BY DEF Entries

\* A list of agents with another entry of one of them.
LEMMA ConfigChanged ==
  ASSUME NEW doc \in Configs, NEW a \in All, NEW e \in Entries \cup {Unset}
  PROVE  /\ [doc EXCEPT ![a] = e] \in Configs /\ [doc EXCEPT ![a] = e][a] = e
         /\ \A b \in All : b # a => [doc EXCEPT ![a] = e][b] = doc[b]
BY DEF Configs

\* Documents of which one is replaced.
LEMMA BothChanged ==
  ASSUME NEW r \in Both, NEW f \in Files, NEW c \in Configs
  PROVE  /\ [r EXCEPT !.file = f] \in Both /\ [r EXCEPT !.config = c] \in Both
         /\ [r EXCEPT !.file = f].file = f /\ [r EXCEPT !.file = f].config = r.config
         /\ [r EXCEPT !.config = c].config = c /\ [r EXCEPT !.config = c].file = r.file
         /\ r.file \in Files /\ r.config \in Configs
BY DEF Both

\* Approvals of an agent replaced, and an approval added.
LEMMA FileChanged ==
  ASSUME NEW f \in Files, NEW a \in Listed, NEW p \in Policies \cup {Unset}
  PROVE  /\ [exists |-> TRUE, of |-> [f.of EXCEPT ![a] = p]] \in Files
         /\ f.of \in [Listed -> Policies \cup {Unset}]
         /\ f.of[a] \in Policies \cup {Unset}
BY DEF Files

\* An approval added to those of an agent.
LEMMA AllowedMore ==
  ASSUME NEW f \in Files, NEW a \in Listed, f.of[a] # Unset, NEW p \in Patterns
  PROVE  [f EXCEPT !.of[a].allow = @ \cup {p}] \in Files
<1>1. f.of[a] \in Policies
  BY DEF Files
<1>2. [f.of[a] EXCEPT !.allow = @ \cup {p}] \in Policies
  BY <1>1 DEF Policies
<1>3. [f.of EXCEPT ![a].allow = @ \cup {p}] \in [Listed -> Policies \cup {Unset}]
  BY <1>2 DEF Files
<1>4. ASSUME NEW g \in [Listed -> Policies \cup {Unset}] PROVE [f EXCEPT !.of = g] \in Files
  BY DEF Files
<1> QED BY <1>3, <1>4

\* A role has a policy or, if it is conservative, none.
LEMMA PolicyIn ==
  ASSUME NEW role \in Roles, NEW allow \in SUBSET Patterns
  PROVE  Policy(role, allow) \in Policies \cup {Unset}
BY DEF Policy, Policies, Roles

\* What has been read of an agent before its document.
LEMMA SeenChanged ==
  ASSUME NEW s \in Seen, NEW allow \in SUBSET Patterns, NEW e \in Entries
  PROVE  /\ [s EXCEPT !.allow = allow] \in Seen /\ [s EXCEPT !.entry = e] \in Seen
         /\ [s EXCEPT !.allow = allow].allow = allow /\ [s EXCEPT !.allow = allow].entry = s.entry
         /\ [s EXCEPT !.entry = e].allow = s.allow /\ [s EXCEPT !.entry = e].entry = e
         /\ s.allow \in SUBSET Patterns /\ s.entry \in Entries
BY DEF Seen

-----------------------------------------------------------------------------
(* Types.                                                                  *)

SharedTypes ==
    /\ file \in Files /\ config \in Configs /\ session \in [Listed -> Roles \cup {Unset}]
CallTypes ==
    /\ job \in [Workers -> Jobs] /\ step \in [Workers -> Steps]
    /\ seen \in [Workers -> Seen] /\ base \in [Workers -> Both] /\ draft \in [Workers -> Both]
    /\ tried \subseteq Workers /\ worked \subseteq Workers /\ started \in 0..MaxJobs

\* The type invariant is that of the documents with that of the calls.
LEMMA DocumentsApart == DocumentsTypeOK <=> SharedTypes /\ CallTypes /\ clean \subseteq Workers
BY DEF DocumentsTypeOK, SharedTypes, CallTypes, Seen, Both

\* The same of the next state.
LEMMA DocumentsNextTypes ==
  ASSUME SharedTypes', CallTypes', clean' \subseteq Workers PROVE DocumentsTypeOK'
BY DEF DocumentsTypeOK, SharedTypes, CallTypes, Seen, Both

\* What a call is about.
LEMMA JobFits ==
  ASSUME CallTypes, NEW w \in Workers
  PROVE  /\ job[w].kind \in CallKinds /\ Agent(w) \in All /\ job[w].role \in Roles
         /\ job[w].tools \in Toggles /\ job[w].skills \in SkillSets
         /\ job[w].kind = "temporary" <=> Agent(w) \in Temps
         /\ job[w].kind # "temporary" => Agent(w) \in Listed
         /\ job[w].kind \in {"enable", "disable"} => job[w].skills \subseteq Skills
<1>1. job[w] \in Jobs
  BY DEF CallTypes
<1>2. job[w] \in [kind : CallKinds, agent : All, role : Roles, tools : Toggles, skills : SkillSets]
  BY <1>1, DocumentsAssumption
<1>3. /\ job[w].kind \in CallKinds /\ job[w].agent \in All /\ job[w].role \in Roles
      /\ job[w].tools \in Toggles /\ job[w].skills \in SkillSets
  BY <1>2
<1>4. /\ job[w].kind = "temporary" <=> job[w].agent \in Temps
      /\ job[w].kind \in {"enable", "disable"} => job[w].skills \subseteq Skills
  BY <1>1, DocumentsAssumption
<1> QED BY <1>3, <1>4 DEF Agent, All

\* What a call is to write has the type of what it takes the place of.
LEMMA EditIn ==
  ASSUME CallTypes, NEW w \in Workers
  PROVE  ToolsFor(w) \in Toggles /\ SkillsFor(w) \in SkillSets
<1>1. seen[w].entry \in Entries
  BY DEF CallTypes, Seen
<1>2. seen[w].entry.tools \in Toggles /\ seen[w].entry.skills \in SkillSets
  BY <1>1 DEF Entries
<1>3. job[w].tools \in Toggles
  BY JobFits
<1>4. ToolsFor(w) \in Toggles
  BY <1>2, <1>3 DEF ToolsFor, Toggles
<1>5. Enabled(w) \in SUBSET Skills
  BY <1>2 DEF Enabled, SkillSets
<1>6. SkillsFor(w) \in SkillSets
  <2>1. CASE job[w].kind \in {"enable", "disable"}
    <3>1. job[w].skills \subseteq Skills
      BY <2>1, JobFits
    <3> QED BY <2>1, <3>1, <1>5 DEF SkillsFor, SkillSets
  <2>2. CASE job[w].kind \notin {"enable", "disable"}
    <3>1. SkillsFor(w) = job[w].skills
      BY <2>2 DEF SkillsFor
    <3> QED BY <3>1, JobFits
  <2> QED BY <2>1, <2>2
<1> QED BY <1>4, <1>6

\* The edit of a list changes the entry of the call's agent, in the part the
\* call is about.
LEMMA EditedChanges ==
  ASSUME CallTypes, NEW w \in Workers, NEW doc \in Configs
  PROVE  LET a == Agent(w)
             new == Edited(w, doc) IN
         /\ new \in Configs /\ new[a] \in Entries
         /\ \A b \in All \ {a} : new[b] = doc[b]
         /\ AboutTools(w) => /\ new[a].tools = ToolsFor(w)
                             /\ new[a].skills = EntryIn(doc, a).skills
         /\ ~AboutTools(w) => new[a].skills = SkillsFor(w)
<1> DEFINE a == Agent(w)
           e == IF AboutTools(w) THEN [EntryIn(doc, a) EXCEPT !.tools = ToolsFor(w)]
                ELSE [EntryIn(doc, a) EXCEPT !.skills = SkillsFor(w)]
<1>1. a \in All /\ EntryIn(doc, a) \in Entries
  BY JobFits, EntryInEntries
<1>2. /\ e \in Entries
      /\ AboutTools(w) => e.tools = ToolsFor(w) /\ e.skills = EntryIn(doc, a).skills
      /\ ~AboutTools(w) => e.skills = SkillsFor(w)
  BY <1>1, EditIn, EntryChanged
<1>3. Edited(w, doc) = [doc EXCEPT ![a] = e]
  BY DEF Edited
<1>a. a = Agent(w)
  OBVIOUS
<1> HIDE DEF e, a
<1>4. Edited(w, doc) \in Configs /\ Edited(w, doc)[a] = e
      /\ \A b \in All : b # a => Edited(w, doc)[b] = doc[b]
  <2>1. e \in Entries \cup {Unset}
    BY <1>2
  <2>2. /\ [doc EXCEPT ![a] = e] \in Configs /\ [doc EXCEPT ![a] = e][a] = e
        /\ \A b \in All : b # a => [doc EXCEPT ![a] = e][b] = doc[b]
    BY <1>1, <2>1, ConfigChanged
  <2> QED BY <1>3, <2>2
<1> QED BY <1>a, <1>2, <1>4

-----------------------------------------------------------------------------
(* Where a call is and what it is about to write.                          *)

KindFits(w) ==
    LET k == job[w].kind
        s == step[w] IN
    /\ s \in {"readPolicy", "getFile", "setFile", "getFileHash", "readTools", "sync"}
          => k = "permissions"
    /\ s = "readSkills" => k \in {"enable", "disable"}
    /\ s \in {"create", "chat", "getList", "patch", "getListHash"} => k = "temporary"
    /\ s \in {"getConfig", "setConfig"} => k # "delete"
    /\ s = "delete" => k = "delete"
    /\ s = "left" => k = "temporary" /\ w \in worked

\* A draft is the document it is based on with the entry of the call's agent
\* edited, or the call is on its second attempt and sends it again.
PolicyFor(w) == Policy(job[w].role, seen[w].allow)
DraftFits(w) ==
    LET a == Agent(w) IN
    /\ step[w] = "setFile" /\ w \notin tried =>
          draft[w].file.of = [base[w].file.of EXCEPT ![a] = PolicyFor(w)]
    /\ step[w] \in {"setFile", "getFileHash"} => draft[w].file.of[a] = PolicyFor(w)
    /\ step[w] = "setConfig" => draft[w].config = Edited(w, base[w].config)
    /\ step[w] = "patch" /\ w \notin tried =>
          draft[w].config = [base[w].config EXCEPT ![a] = Unset]
    /\ step[w] \in {"patch", "getListHash"} => draft[w].config[a] = Unset
    /\ step[w] \in {"getFileHash", "getListHash"} => w \in tried

\* A temporary agent may use every skill, whoever brings it back.
PlainIn(doc) == \A a \in Temps : doc[a] # Unset => doc[a].skills = Unrestricted
TempsPlain == PlainIn(config) /\ \A w \in Workers : PlainIn(draft[w].config)

\* What a call that nobody interfered with has achieved so far.
Achieved(w) ==
    LET a == Agent(w) IN
    /\ job[w].kind = "permissions"
       /\ step[w] \in {"readTools", "getConfig", "setConfig", "sync", "done"}
          => file.of[a] = PolicyFor(w)
    /\ step[w] = "sync" => config[a] # Unset /\ config[a].tools = ToolsFor(w)
    /\ step[w] = "done" => Asked(w)

CallsFit ==
    /\ \A w \in Workers : KindFits(w) /\ DraftFits(w)
    /\ TempsPlain
DocumentsInvariant ==
    DocumentsTypeOK /\ CallsFit /\ \A w \in Workers : w \in clean => Achieved(w)

-----------------------------------------------------------------------------
(* What a step of a call does.                                             *)

OthersStay(w) ==
    \A v \in Workers \ {w} :
        /\ job'[v] = job[v] /\ step'[v] = step[v] /\ seen'[v] = seen[v]
        /\ base'[v] = base[v] /\ draft'[v] = draft[v]
        /\ (v \in tried' <=> v \in tried) /\ (v \in worked' <=> v \in worked)

\* It changes the documents in its agent's entry only, and there in the part
\* it is about, unless it sends an older document again.
Confined(w) ==
    LET a == Agent(w) IN
    /\ config' # config \/ file' # file => step'[w] # step[w]
    /\ ~Resends(w) =>
          /\ \A b \in All \ {a} : config'[b] = config[b]
          /\ \A b \in Listed \ {a} : file'.of[b] = file.of[b]
          /\ AboutTools(w) /\ config[a] # Unset /\ config'[a] # Unset
                => config'[a].skills = config[a].skills

Kept(w) ==
    /\ SharedTypes' /\ CallTypes' /\ OthersStay(w)
    /\ KindFits(w)' /\ DraftFits(w)' /\ TempsPlain'
    /\ Confined(w) /\ (Achieved(w) => Achieved(w)')

\* The call goes to a step, and nobody else does.
LEMMA GotoDoes ==
  ASSUME CallTypes, NEW w \in Workers, NEW next \in Steps, Goto(w, next)
  PROVE  /\ step' \in [Workers -> Steps] /\ step'[w] = next
         /\ \A v \in Workers \ {w} : step'[v] = step[v]
BY DEF CallTypes, Goto

\* How a call ends whose temporary agent has been seen to.
LEMMA EndsWhere ==
  ASSUME NEW w \in Workers, NEW how \in Steps
  PROVE  /\ CallEnds(w, how) \in {"idle", how} /\ CallEnds(w, how) \in Steps
         /\ CallEnds(w, how) = how /\ how # "idle" => w \in worked
BY DEF CallEnds, Steps

\* A call that fails gives up, or removes its temporary agent first, or leaves
\* the agent behind when that fails.
LEMMA FailedIs ==
  ASSUME NEW w \in Workers
  PROVE  /\ Failed(w) \in {"idle", "getList", "left"} /\ Failed(w) \in Steps
         /\ Failed(w) = "getList" => job[w].kind = "temporary"
                                     /\ step[w] \in {"getConfig", "setConfig", "chat"}
         /\ Failed(w) = "left" => step[w] \in Removing /\ w \in worked
<1>1. "left" \in Steps
  BY DEF Steps
<1>2. /\ CallEnds(w, "left") \in {"idle", "left"}
      /\ CallEnds(w, "left") = "left" => w \in worked
  BY <1>1, EndsWhere
<1>3. \/ /\ Failed(w) = "getList" /\ job[w].kind = "temporary"
         /\ step[w] \in {"getConfig", "setConfig", "chat"}
      \/ Failed(w) = CallEnds(w, "left") /\ step[w] \in Removing
      \/ Failed(w) = "idle"
  BY DEF Failed
<1> QED BY <1>2, <1>3 DEF Steps

\* What a call is to write depends on the call and on what it has read.
LEMMA SameCall ==
  ASSUME UNCHANGED <<job, seen>>, NEW w \in Workers
  PROVE  /\ \A doc : Edited(w, doc)' = Edited(w, doc)
         /\ Agent(w)' = Agent(w) /\ PolicyFor(w)' = PolicyFor(w)
         /\ ToolsFor(w)' = ToolsFor(w) /\ SkillsFor(w)' = SkillsFor(w)
         /\ AboutTools(w)' = AboutTools(w)
BY DEF Edited, ToolsFor, SkillsFor, Enabled, AboutTools, Agent, PolicyFor

\* An agent neither in the documents nor in the call has changed for which
\* something was achieved.
LEMMA AchievementStays ==
  ASSUME CallTypes, NEW w \in Workers, job'[w] = job[w], seen'[w] = seen[w], step'[w] = step[w],
         w \in worked' <=> w \in worked, SameEntry(Agent(w)), KindFits(w), Achieved(w)
  PROVE  Achieved(w)'
<1>1. /\ Agent(w)' = Agent(w) /\ PolicyFor(w)' = PolicyFor(w)
      /\ ToolsFor(w)' = ToolsFor(w) /\ SkillsFor(w)' = SkillsFor(w)
  BY DEF ToolsFor, SkillsFor, Enabled, Agent, PolicyFor
<1>2. config'[Agent(w)] = config[Agent(w)]
      /\ (job[w].kind # "temporary" => file'.of[Agent(w)] = file.of[Agent(w)])
  BY JobFits DEF SameEntry
<1>3. EntryIn(config, Agent(w))' = EntryIn(config, Agent(w))
  BY <1>1, <1>2 DEF EntryIn
<1>4. Asked(w) => Asked(w)'
  BY <1>1, <1>2, <1>3 DEF Asked, PolicyFor
<1> QED BY <1>1, <1>2, <1>4 DEF Achieved

-----------------------------------------------------------------------------
(* Reading.                                                                *)

\* The allowlist to be kept is read.
LEMMA ReadPolicyKeeps ==
  ASSUME SharedTypes, CallTypes, CallsFit, NEW w \in Workers, ReadPolicy(w) PROVE Kept(w)
<1> DEFINE allow == IF file.of[Agent(w)] = Unset THEN {} ELSE file.of[Agent(w)].allow
<1>1. /\ step[w] = "readPolicy" /\ Goto(w, "getFile") /\ seen' = [seen EXCEPT ![w].allow = allow]
      /\ UNCHANGED <<file, config, session, job, base, draft, tried, worked, started>>
  BY DEF ReadPolicy
<1>2. job[w].kind = "permissions" /\ Agent(w) \in Listed
  BY <1>1, JobFits DEF CallsFit, KindFits
<1>3. allow \in SUBSET Patterns
  <2>1. file.of[Agent(w)] \in Policies \cup {Unset}
    BY <1>2 DEF SharedTypes, Files
  <2> QED BY <2>1 DEF Policies
<1> HIDE DEF allow
<1>4. step' \in [Workers -> Steps] /\ step'[w] = "getFile"
      /\ \A v \in Workers \ {w} : step'[v] = step[v]
  BY <1>1, GotoDoes DEF Steps
<1>5. seen' \in [Workers -> Seen] /\ \A v \in Workers \ {w} : seen'[v] = seen[v]
  <2>1. seen[w] \in Seen /\ seen \in [Workers -> Seen]
    BY DEF CallTypes
  <2>2. [seen[w] EXCEPT !.allow = allow] \in Seen
    BY <1>3, <2>1 DEF Seen
  <2>3. seen' = [seen EXCEPT ![w] = [seen[w] EXCEPT !.allow = allow]]
    BY <1>1
  <2> QED BY <2>1, <2>2, <2>3
<1>6. SharedTypes' /\ CallTypes' /\ OthersStay(w)
  BY <1>1, <1>4, <1>5 DEF SharedTypes, CallTypes, OthersStay
<1>7. KindFits(w)' /\ DraftFits(w)' /\ TempsPlain'
  BY <1>1, <1>2, <1>4 DEF CallsFit, KindFits, DraftFits, TempsPlain, PlainIn
<1>8. Confined(w) /\ Achieved(w)'
  BY <1>1, <1>4 DEF Confined, Achieved
<1> QED BY <1>6, <1>7, <1>8 DEF Kept

\* The entry the call builds on is read.
LEMMA ReadEntryKeeps ==
  ASSUME SharedTypes, CallTypes, CallsFit, NEW w \in Workers, ReadEntry(w) PROVE Kept(w)
<1> DEFINE e == EntryIn(config, Agent(w))
<1>1. /\ step[w] \in {"readTools", "readSkills"} /\ Goto(w, "getConfig")
      /\ seen' = [seen EXCEPT ![w].entry = e]
      /\ UNCHANGED <<file, config, session, job, base, draft, tried, worked, started>>
  BY DEF ReadEntry
<1>2. e \in Entries
  BY JobFits, EntryInEntries DEF SharedTypes
<1> HIDE DEF e
<1>3. step' \in [Workers -> Steps] /\ step'[w] = "getConfig"
      /\ \A v \in Workers \ {w} : step'[v] = step[v]
  BY <1>1, GotoDoes DEF Steps
<1>4. /\ seen' \in [Workers -> Seen] /\ \A v \in Workers \ {w} : seen'[v] = seen[v]
      /\ seen'[w].allow = seen[w].allow
  <2>1. seen[w] \in Seen /\ seen \in [Workers -> Seen]
    BY DEF CallTypes
  <2>2. [seen[w] EXCEPT !.entry = e] \in Seen /\ [seen[w] EXCEPT !.entry = e].allow = seen[w].allow
    BY <1>2, <2>1 DEF Seen
  <2>3. seen' = [seen EXCEPT ![w] = [seen[w] EXCEPT !.entry = e]]
    BY <1>1
  <2> QED BY <2>1, <2>2, <2>3
<1>5. SharedTypes' /\ CallTypes' /\ OthersStay(w)
  BY <1>1, <1>3, <1>4 DEF SharedTypes, CallTypes, OthersStay
<1>6. KindFits(w)' /\ DraftFits(w)' /\ TempsPlain'
  BY <1>1, <1>3 DEF CallsFit, KindFits, DraftFits, TempsPlain, PlainIn
<1>7. Confined(w)
  BY <1>1 DEF Confined
<1>8. Achieved(w) => Achieved(w)'
  <2>1. PolicyFor(w)' = PolicyFor(w) /\ Agent(w)' = Agent(w)
    BY <1>1, <1>4 DEF PolicyFor, Agent
  <2>2. job[w].kind = "permissions" => step[w] = "readTools"
    BY <1>1 DEF CallsFit, KindFits
  <2> QED BY <1>1, <1>3, <2>1, <2>2 DEF Achieved
<1> QED BY <1>5, <1>6, <1>7, <1>8 DEF Kept

\* The documents of a call, one of them replaced.
LEMMA RowChanged ==
  ASSUME NEW f \in [Workers -> Both], NEW g, NEW w \in Workers, NEW r \in Both,
         g = [f EXCEPT ![w] = r]
  PROVE  /\ g \in [Workers -> Both] /\ g[w] = r
         /\ \A v \in Workers \ {w} : g[v] = f[v]
OBVIOUS

\* The file is read and drafted with the policy of the agent.
LEMMA GetFileKeeps ==
  ASSUME SharedTypes, CallTypes, CallsFit, NEW w \in Workers, GetFile(w) PROVE Kept(w)
<1> DEFINE new == [exists |-> TRUE, of |-> [file.of EXCEPT ![Agent(w)] = PolicyFor(w)]]
           next == IF job[w].role = "conservative" /\ file.of[Agent(w)] = Unset
                   THEN "readTools" ELSE "setFile"
<1>1. /\ step[w] = "getFile" /\ Goto(w, next)
      /\ base' = [base EXCEPT ![w] = [base[w] EXCEPT !.file = file]]
      /\ draft' = [draft EXCEPT ![w] = [draft[w] EXCEPT !.file = new]]
      /\ UNCHANGED <<file, config, session, job, seen, tried, worked, started>>
  BY DEF GetFile, PolicyFor
<1>2. job[w].kind = "permissions" /\ Agent(w) \in Listed
  BY <1>1, JobFits DEF CallsFit, KindFits
<1>3. PolicyFor(w) \in Policies \cup {Unset}
  <2>1. job[w].role \in Roles /\ seen[w].allow \in SUBSET Patterns
    BY JobFits DEF CallTypes, Seen
  <2> QED BY <2>1, PolicyIn DEF PolicyFor
<1>4. file \in Files /\ new \in Files
  BY <1>2, <1>3, FileChanged DEF SharedTypes
<1>5. new.of = [file.of EXCEPT ![Agent(w)] = PolicyFor(w)] /\ new.of[Agent(w)] = PolicyFor(w)
  BY <1>2, <1>4, FileChanged
<1>6. next \in {"readTools", "setFile"} /\ next \in Steps
      /\ (next = "readTools" => file.of[Agent(w)] = PolicyFor(w))
  BY DEF PolicyFor, Policy, Steps
<1> HIDE DEF new, next
<1>7. step' \in [Workers -> Steps] /\ step'[w] = next
      /\ \A v \in Workers \ {w} : step'[v] = step[v]
  BY <1>1, <1>6, GotoDoes
<1>8. base[w] \in Both /\ draft[w] \in Both /\ base \in [Workers -> Both] /\ draft \in [Workers -> Both]
  BY DEF CallTypes
<1>9. /\ [base[w] EXCEPT !.file = file] \in Both /\ [draft[w] EXCEPT !.file = new] \in Both
      /\ [base[w] EXCEPT !.file = file].file = file /\ [draft[w] EXCEPT !.file = new].file = new
      /\ [draft[w] EXCEPT !.file = new].config = draft[w].config
  BY <1>4, <1>8 DEF Both
<1>10. /\ base' \in [Workers -> Both] /\ draft' \in [Workers -> Both]
       /\ base'[w].file = file /\ draft'[w].file = new /\ draft'[w].config = draft[w].config
       /\ \A v \in Workers \ {w} : base'[v] = base[v] /\ draft'[v] = draft[v]
  BY <1>1, <1>8, <1>9
<1>11. SharedTypes' /\ CallTypes' /\ OthersStay(w)
  BY <1>1, <1>7, <1>10 DEF SharedTypes, CallTypes, OthersStay
<1>12. PolicyFor(w)' = PolicyFor(w) /\ Agent(w)' = Agent(w)
  BY <1>1, SameCall
<1>13. KindFits(w)' /\ DraftFits(w)'
  <2>1. KindFits(w)'
    BY <1>1, <1>2, <1>6, <1>7 DEF KindFits
  <2>2. DraftFits(w)'
    BY <1>5, <1>6, <1>7, <1>10, <1>12 DEF DraftFits
  <2> QED BY <2>1, <2>2
<1>14. TempsPlain'
  BY <1>1, <1>10 DEF CallsFit, TempsPlain, PlainIn
<1>15. Confined(w) /\ Achieved(w)'
  BY <1>1, <1>6, <1>7, <1>12 DEF Confined, Achieved
<1> QED BY <1>11, <1>13, <1>14, <1>15 DEF Kept

\* The hash of the new file is read for the old draft.
LEMMA GetFileHashKeeps ==
  ASSUME SharedTypes, CallTypes, CallsFit, NEW w \in Workers, GetFileHash(w) PROVE Kept(w)
<1>1. /\ step[w] = "getFileHash" /\ Goto(w, "setFile")
      /\ base' = [base EXCEPT ![w] = [base[w] EXCEPT !.file = file]]
      /\ UNCHANGED <<file, config, session, job, seen, draft, tried, worked, started>>
  BY DEF GetFileHash
<1>2. step' \in [Workers -> Steps] /\ step'[w] = "setFile"
      /\ \A v \in Workers \ {w} : step'[v] = step[v]
  BY <1>1, GotoDoes DEF Steps
<1>3. base \in [Workers -> Both] /\ [base[w] EXCEPT !.file = file] \in Both
  BY DEF CallTypes, SharedTypes, Both
<1>4. /\ base' \in [Workers -> Both]
      /\ \A v \in Workers \ {w} : base'[v] = base[v]
  BY <1>1, <1>3
<1>5. SharedTypes' /\ CallTypes' /\ OthersStay(w)
  BY <1>1, <1>2, <1>4 DEF SharedTypes, CallTypes, OthersStay
<1>6. PolicyFor(w)' = PolicyFor(w) /\ Agent(w)' = Agent(w)
  BY <1>1, SameCall
<1>7. KindFits(w)' /\ DraftFits(w)' /\ TempsPlain'
  BY <1>1, <1>2, <1>6 DEF CallsFit, KindFits, DraftFits, TempsPlain, PlainIn
<1>8. Confined(w) /\ Achieved(w)'
  BY <1>1, <1>2 DEF Confined, Achieved
<1> QED BY <1>5, <1>7, <1>8 DEF Kept

\* The configuration is read and drafted with the entry of the agent.
LEMMA GetConfigKeeps ==
  ASSUME SharedTypes, CallTypes, CallsFit, NEW w \in Workers, GetConfig(w) PROVE Kept(w)
<1> DEFINE new == Edited(w, config)
           next == IF Needless(w) THEN "done" ELSE "setConfig"
<1>1. /\ step[w] = "getConfig" /\ Goto(w, next)
      /\ base' = [base EXCEPT ![w] = [base[w] EXCEPT !.config = config]]
      /\ draft' = [draft EXCEPT ![w] = [draft[w] EXCEPT !.config = new]]
      /\ UNCHANGED <<file, config, session, job, seen, tried, worked, started>>
  BY DEF GetConfig, NextConfig
<1>2. job[w].kind # "delete"
  BY <1>1 DEF CallsFit, KindFits
<1>3. config \in Configs /\ new \in Configs /\ PlainIn(new)
  <2>1. config \in Configs /\ PlainIn(config)
    BY DEF SharedTypes, CallsFit, TempsPlain
  <2>2. /\ new \in Configs /\ new[Agent(w)] \in Entries
        /\ \A b \in All \ {Agent(w)} : new[b] = config[b]
        /\ AboutTools(w) => new[Agent(w)].skills = EntryIn(config, Agent(w)).skills
    BY <2>1, EditedChanges
  <2>3. ASSUME NEW a \in Temps, new[a] # Unset PROVE new[a].skills = Unrestricted
    <3>1. CASE a = Agent(w)
      <4>1. AboutTools(w)
        BY <3>1, JobFits DEF AboutTools
      <4> QED BY <2>1, <2>2, <3>1, <4>1 DEF PlainIn, EntryIn, NewEntry
    <3>2. CASE a # Agent(w)
      BY <2>1, <2>2, <2>3, <3>2 DEF PlainIn, All
    <3> QED BY <3>1, <3>2
  <2> QED BY <2>1, <2>2, <2>3 DEF PlainIn
<1>4. next \in {"done", "setConfig"} /\ next \in Steps
  BY DEF Steps
<1>5. next = "done" => /\ job[w].kind \notin {"permissions", "temporary"}
                      /\ EntryIn(config, Agent(w)).skills = SkillsFor(w)
  BY DEF Needless, AboutTools
<1> HIDE DEF new, next
<1>6. step' \in [Workers -> Steps] /\ step'[w] = next
      /\ \A v \in Workers \ {w} : step'[v] = step[v]
  BY <1>1, <1>4, GotoDoes
<1>7. base[w] \in Both /\ draft[w] \in Both /\ base \in [Workers -> Both] /\ draft \in [Workers -> Both]
  BY DEF CallTypes
<1>8. /\ [base[w] EXCEPT !.config = config] \in Both /\ [draft[w] EXCEPT !.config = new] \in Both
      /\ [base[w] EXCEPT !.config = config].config = config
      /\ [draft[w] EXCEPT !.config = new].config = new
  BY <1>3, <1>7 DEF Both
<1>9. /\ base' \in [Workers -> Both] /\ draft' \in [Workers -> Both]
      /\ base'[w].config = config /\ draft'[w].config = new
      /\ \A v \in Workers \ {w} : base'[v] = base[v] /\ draft'[v] = draft[v]
  BY <1>1, <1>7, <1>8
<1>10. SharedTypes' /\ CallTypes' /\ OthersStay(w)
  BY <1>1, <1>6, <1>9 DEF SharedTypes, CallTypes, OthersStay
<1>11. PolicyFor(w)' = PolicyFor(w) /\ Agent(w)' = Agent(w) /\ Edited(w, config)' = Edited(w, config)
       /\ SkillsFor(w)' = SkillsFor(w) /\ \A doc : Edited(w, doc)' = Edited(w, doc)
  BY <1>1, SameCall DEF Edited, ToolsFor, SkillsFor, Enabled, AboutTools, Agent
<1>12. KindFits(w)'
  BY <1>1, <1>2, <1>4, <1>6 DEF KindFits
<1>13. DraftFits(w)'
  <2>1. step'[w] = "setConfig" => draft'[w].config = Edited(w, base[w].config)'
    BY <1>1, <1>9, <1>11 DEF new, Edited, ToolsFor, SkillsFor, Enabled, AboutTools, Agent
  <2> QED BY <2>1, <1>4, <1>6 DEF DraftFits
<1>14. TempsPlain'
  BY <1>1, <1>3, <1>9 DEF CallsFit, TempsPlain, PlainIn
<1>15. Confined(w)
  BY <1>1 DEF Confined
<1>16. Achieved(w) => Achieved(w)'
  <2>1. step'[w] = "done" => Asked(w)'
    <3>1. EntryIn(config, Agent(w))' = EntryIn(config, Agent(w))
      BY <1>1, <1>11 DEF EntryIn
    <3> QED BY <1>1, <1>2, <1>5, <1>6, <1>11, <3>1 DEF Asked
  <2> QED BY <1>1, <1>4, <1>5, <1>6, <1>11, <2>1 DEF Achieved
<1> QED BY <1>10, <1>12, <1>13, <1>14, <1>15, <1>16 DEF Kept

\* The list is read and drafted without the agent.
LEMMA GetListKeeps ==
  ASSUME SharedTypes, CallTypes, CallsFit, NEW w \in Workers, GetList(w) PROVE Kept(w)
<1> DEFINE new == [config EXCEPT ![Agent(w)] = Unset]
           next == IF config[Agent(w)] = Unset THEN CallEnds(w, "done") ELSE "patch"
<1>1. /\ step[w] = "getList" /\ Goto(w, next)
      /\ base' = [base EXCEPT ![w] = [base[w] EXCEPT !.config = config]]
      /\ draft' = [draft EXCEPT ![w] = [draft[w] EXCEPT !.config = new]]
      /\ UNCHANGED <<file, config, session, job, seen, tried, worked, started>>
  BY DEF GetList
<1>2. job[w].kind = "temporary" /\ Agent(w) \in All
  BY <1>1, JobFits DEF CallsFit, KindFits
<1>3. config \in Configs /\ new \in Configs /\ PlainIn(new) /\ new[Agent(w)] = Unset
  <2>1. config \in Configs /\ PlainIn(config)
    BY DEF SharedTypes, CallsFit, TempsPlain
  <2>2. /\ new \in Configs /\ new[Agent(w)] = Unset
        /\ \A b \in All : b # Agent(w) => new[b] = config[b]
    BY <1>2, <2>1, ConfigChanged
  <2>3. Temps \subseteq All
    BY DEF All
  <2> HIDE DEF new
  <2> QED BY <2>1, <2>2, <2>3 DEF PlainIn
<1>4. /\ next \in {"done", "idle", "patch"} /\ next \in Steps
      /\ next = "done" => config[Agent(w)] = Unset /\ w \in worked
  BY EndsWhere DEF Steps
<1> HIDE DEF next
<1>6. step' \in [Workers -> Steps] /\ step'[w] = next
      /\ \A v \in Workers \ {w} : step'[v] = step[v]
  BY <1>1, <1>4, GotoDoes
<1>7. base[w] \in Both /\ draft[w] \in Both /\ base \in [Workers -> Both] /\ draft \in [Workers -> Both]
  BY DEF CallTypes
<1>8. /\ [base[w] EXCEPT !.config = config] \in Both /\ [draft[w] EXCEPT !.config = new] \in Both
      /\ [base[w] EXCEPT !.config = config].config = config
      /\ [draft[w] EXCEPT !.config = new].config = new
  BY <1>3, <1>7 DEF Both
<1>9. /\ base' \in [Workers -> Both] /\ draft' \in [Workers -> Both]
      /\ base'[w].config = config /\ draft'[w].config = new
      /\ \A v \in Workers \ {w} : base'[v] = base[v] /\ draft'[v] = draft[v]
  BY <1>1, <1>7, <1>8
<1>10. SharedTypes' /\ CallTypes' /\ OthersStay(w)
  BY <1>1, <1>6, <1>9 DEF SharedTypes, CallTypes, OthersStay
<1>11. PolicyFor(w)' = PolicyFor(w) /\ Agent(w)' = Agent(w)
  BY <1>1, SameCall
<1>12. KindFits(w)' /\ DraftFits(w)'
  BY <1>1, <1>2, <1>3, <1>4, <1>6, <1>9, <1>11 DEF KindFits, DraftFits
<1>13. TempsPlain'
  BY <1>1, <1>3, <1>9 DEF CallsFit, TempsPlain, PlainIn
<1>14. Confined(w)
  BY <1>1 DEF Confined
<1>15. Achieved(w)'
  BY <1>1, <1>2, <1>4, <1>6, <1>11 DEF Achieved, Asked
<1> QED BY <1>10, <1>12, <1>13, <1>14, <1>15 DEF Kept

\* The hash of the new list is read for the old draft.
LEMMA GetListHashKeeps ==
  ASSUME SharedTypes, CallTypes, CallsFit, NEW w \in Workers, GetListHash(w) PROVE Kept(w)
<1>1. /\ step[w] = "getListHash" /\ Goto(w, "patch")
      /\ base' = [base EXCEPT ![w] = [base[w] EXCEPT !.config = config]]
      /\ UNCHANGED <<file, config, session, job, seen, draft, tried, worked, started>>
  BY DEF GetListHash
<1>2. step' \in [Workers -> Steps] /\ step'[w] = "patch"
      /\ \A v \in Workers \ {w} : step'[v] = step[v]
  BY <1>1, GotoDoes DEF Steps
<1>3. base \in [Workers -> Both] /\ [base[w] EXCEPT !.config = config] \in Both
  BY DEF CallTypes, SharedTypes, Both
<1>4. /\ base' \in [Workers -> Both]
      /\ \A v \in Workers \ {w} : base'[v] = base[v]
  BY <1>1, <1>3
<1>5. SharedTypes' /\ CallTypes' /\ OthersStay(w)
  BY <1>1, <1>2, <1>4 DEF SharedTypes, CallTypes, OthersStay
<1>6. PolicyFor(w)' = PolicyFor(w) /\ Agent(w)' = Agent(w)
  BY <1>1, SameCall
<1>7. KindFits(w)' /\ DraftFits(w)' /\ TempsPlain'
  BY <1>1, <1>2, <1>6 DEF CallsFit, KindFits, DraftFits, TempsPlain, PlainIn
<1>8. Confined(w) /\ Achieved(w)'
  BY <1>1, <1>2 DEF Confined, Achieved
<1> QED BY <1>5, <1>7, <1>8 DEF Kept

-----------------------------------------------------------------------------
(* Writing.                                                                *)

\* A file that is accepted has the policy the call is about.
LEMMA SetFileKeeps ==
  ASSUME SharedTypes, CallTypes, CallsFit, NEW w \in Workers, SetFile(w) PROVE Kept(w)
<1>1. /\ step[w] = "setFile"
      /\ UNCHANGED <<config, session, job, seen, base, draft, worked, started>>
      /\ file' = IF base[w].file = file THEN draft[w].file ELSE file
      /\ \/ base[w].file = file /\ (Goto(w, "readTools") \/ Goto(w, Failed(w)))
            /\ tried' = tried \ {w}
         \/ base[w].file # file /\ w \notin tried /\ Goto(w, "getFileHash")
            /\ tried' = tried \cup {w}
         \/ base[w].file # file /\ w \in tried /\ Goto(w, Failed(w)) /\ tried' = tried \ {w}
  BY DEF SetFile, Write, Answered, AfterRefusal
<1>2. job[w].kind = "permissions" /\ Agent(w) \in Listed
  BY <1>1, JobFits DEF CallsFit, KindFits
<1>3. Failed(w) = "idle"
  BY <1>1, <1>2, FailedIs DEF Removing
<1>4. PICK next \in {"readTools", "getFileHash", "idle"} :
         /\ Goto(w, next) /\ (next = "readTools" => base[w].file = file)
         /\ next = "getFileHash" => base[w].file # file /\ w \in tried'
  BY <1>1, <1>3, DocumentsAssumption
<1>5. /\ step' \in [Workers -> Steps] /\ step'[w] = next
      /\ \A v \in Workers \ {w} : step'[v] = step[v]
  BY <1>4, GotoDoes DEF Steps
<1>6. tried' \subseteq Workers /\ \A v \in Workers \ {w} : v \in tried' <=> v \in tried
  BY <1>1 DEF CallTypes
<1>7. draft[w].file \in Files /\ base[w].file \in Files /\ file' \in Files
  <2>1. draft[w] \in Both /\ base[w] \in Both
    BY DEF CallTypes
  <2>2. draft[w].file \in Files /\ base[w].file \in Files
    BY <2>1 DEF Both
  <2> QED BY <1>1, <2>2 DEF SharedTypes
<1>8. SharedTypes' /\ CallTypes' /\ OthersStay(w)
  BY <1>1, <1>5, <1>6, <1>7 DEF SharedTypes, CallTypes, OthersStay
<1>9. PolicyFor(w)' = PolicyFor(w) /\ Agent(w)' = Agent(w)
  BY <1>1, SameCall
<1>10. draft[w].file.of[Agent(w)] = PolicyFor(w)
       /\ (w \notin tried =>
            draft[w].file.of = [base[w].file.of EXCEPT ![Agent(w)] = PolicyFor(w)])
  BY <1>1 DEF CallsFit, DraftFits
<1>11. KindFits(w)' /\ TempsPlain'
  BY <1>1, <1>2, <1>4, <1>5 DEF CallsFit, KindFits, TempsPlain, PlainIn
<1>12. DraftFits(w)'
  BY <1>1, <1>4, <1>5, <1>9, <1>10 DEF DraftFits
<1>13. Confined(w)
  <2>1. file' # file => step'[w] # step[w]
    BY <1>1, <1>4, <1>5
  <2>2. ASSUME ~Resends(w), NEW b \in Listed \ {Agent(w)} PROVE file'.of[b] = file.of[b]
    <3>1. w \notin tried
      BY <1>1, <2>2 DEF Resends
    <3>2. base[w].file.of \in [Listed -> Policies \cup {Unset}]
      BY <1>2, <1>7, FileChanged
    <3>3. draft[w].file.of[b] = base[w].file.of[b]
      BY <1>10, <3>1, <3>2
    <3> QED BY <1>1, <3>3
  <2> QED BY <1>1, <2>1, <2>2 DEF Confined
<1>14. Achieved(w)'
  BY <1>1, <1>4, <1>5, <1>9, <1>10 DEF Achieved
<1> QED BY <1>8, <1>11, <1>12, <1>13, <1>14 DEF Kept

\* A configuration that is accepted is the one read, edited: the hash says so.
LEMMA SetConfigKeeps ==
  ASSUME SharedTypes, CallTypes, CallsFit, NEW w \in Workers, SetConfig(w) PROVE Kept(w)
<1> DEFINE a == Agent(w)
           k == job[w].kind
<1>1. /\ step[w] = "setConfig"
      /\ UNCHANGED <<file, session, job, seen, base, draft, worked, started>>
      /\ config' = IF base[w].config = config THEN draft[w].config ELSE config
      /\ \/ base[w].config = config /\ (Goto(w, AfterConfig(w)) \/ Goto(w, Failed(w)))
            /\ tried' = tried \ {w}
         \/ base[w].config # config /\ w \notin tried /\ Goto(w, "getConfig")
            /\ tried' = tried \cup {w}
         \/ base[w].config # config /\ w \in tried /\ Goto(w, Failed(w)) /\ tried' = tried \ {w}
  BY DEF SetConfig, Write, Answered, AfterRefusal
<1>2. k \in CallKinds \ {"delete"} /\ a \in All
  BY <1>1, JobFits DEF CallsFit, KindFits
<1>3. /\ AfterConfig(w) \in {"sync", "chat", "done"}
      /\ AfterConfig(w) = "sync" => k = "permissions"
      /\ AfterConfig(w) = "chat" => k = "temporary"
      /\ AfterConfig(w) = "done" => k \in {"skills", "enable", "disable"}
  BY <1>2 DEF AfterConfig, CallKinds
<1>4. PICK next \in {"sync", "chat", "done", "idle", "getList", "getConfig"} :
         /\ Goto(w, next)
         /\ next \in {"sync", "chat", "done"} => base[w].config = config
         /\ next = "sync" => k = "permissions"
         /\ next \in {"chat", "getList"} => k = "temporary"
         /\ next = "done" => k \in {"skills", "enable", "disable"}
  BY <1>1, <1>3, FailedIs DEF Removing
<1>5. /\ step' \in [Workers -> Steps] /\ step'[w] = next
      /\ \A v \in Workers \ {w} : step'[v] = step[v]
  BY <1>4, GotoDoes DEF Steps
<1>6. tried' \subseteq Workers /\ \A v \in Workers \ {w} : v \in tried' <=> v \in tried
  BY <1>1 DEF CallTypes
<1>7. config \in Configs /\ draft[w].config \in Configs /\ config' \in Configs
      /\ (base[w].config = config => draft[w].config = Edited(w, config))
  <2>1. draft[w] \in Both
    BY DEF CallTypes
  <2>2. draft[w].config \in Configs
    BY <2>1 DEF Both
  <2> QED BY <1>1, <2>2 DEF SharedTypes, CallsFit, DraftFits
<1>8. /\ \A b \in All \ {a} : config'[b] = config[b]
      /\ AboutTools(w) /\ config[a] # Unset => config'[a].skills = config[a].skills
      /\ base[w].config = config =>
            /\ config'[a] \in Entries /\ (AboutTools(w) => config'[a].tools = ToolsFor(w))
            /\ ~AboutTools(w) => config'[a].skills = SkillsFor(w)
  <2>1. CASE base[w].config # config
    BY <1>1, <2>1
  <2>2. CASE base[w].config = config
    BY <1>1, <1>2, <1>7, <2>2, EditedChanges, EntryInEntries
  <2> QED BY <2>1, <2>2
<1>9. /\ PolicyFor(w)' = PolicyFor(w) /\ a' = a
      /\ ToolsFor(w)' = ToolsFor(w) /\ SkillsFor(w)' = SkillsFor(w)
  BY <1>1, SameCall
<1>10. SharedTypes' /\ CallTypes' /\ OthersStay(w)
  BY <1>1, <1>5, <1>6, <1>7 DEF SharedTypes, CallTypes, OthersStay
<1>11. KindFits(w)' /\ DraftFits(w)'
  BY <1>1, <1>2, <1>4, <1>5 DEF KindFits, DraftFits
<1>12. TempsPlain'
  BY <1>1 DEF CallsFit, TempsPlain, PlainIn
<1>13. Confined(w)
  BY <1>1, <1>4, <1>5, <1>8 DEF Confined
<1>14. Achieved(w) => Achieved(w)'
  <2>1. step'[w] = "sync" => config'[a] # Unset /\ config'[a].tools = ToolsFor(w)
    BY <1>4, <1>5, <1>8, EntriesSet DEF AboutTools
  <2>2. step'[w] = "done" => EntryIn(config, a)'.skills = SkillsFor(w)
    BY <1>4, <1>5, <1>8, <1>9, EntriesSet DEF AboutTools, EntryIn
  <2>3. step'[w] = "done" => Asked(w)'
    BY <1>1, <1>4, <1>5, <1>9, <2>2 DEF Asked
  <2> QED BY <1>1, <1>4, <1>5, <1>9, <2>1, <2>3 DEF Achieved
<1> QED BY <1>10, <1>11, <1>12, <1>13, <1>14 DEF Kept

\* A list that is accepted is without the agent.
LEMMA PatchListKeeps ==
  ASSUME SharedTypes, CallTypes, CallsFit, NEW w \in Workers, PatchList(w) PROVE Kept(w)
<1> DEFINE a == Agent(w)
<1>1. /\ step[w] = "patch" /\ UNCHANGED <<file, session, job, seen, base, draft, worked, started>>
      /\ config' = IF base[w].config = config THEN draft[w].config ELSE config
      /\ \/ base[w].config = config /\ (Goto(w, CallEnds(w, "done")) \/ Goto(w, Failed(w)))
            /\ tried' = tried \ {w}
         \/ base[w].config # config /\ w \notin tried /\ Goto(w, "getListHash")
            /\ tried' = tried \cup {w}
         \/ base[w].config # config /\ w \in tried /\ Goto(w, Failed(w)) /\ tried' = tried \ {w}
  BY DEF PatchList, Write, Answered, AfterRefusal
<1>2. job[w].kind = "temporary" /\ a \in All
  BY <1>1, JobFits DEF CallsFit, KindFits
<1>3. /\ Failed(w) \in {"idle", "left"} /\ (Failed(w) = "left" => w \in worked)
      /\ CallEnds(w, "done") \in {"idle", "done"} /\ (CallEnds(w, "done") = "done" => w \in worked)
  BY <1>1, FailedIs, EndsWhere DEF Steps
<1>4. PICK next \in {"done", "getListHash", "idle", "left"} :
         /\ Goto(w, next) /\ (next = "done" => base[w].config = config)
         /\ next \in {"done", "left"} => w \in worked
         /\ next = "getListHash" => base[w].config # config /\ w \in tried'
  BY <1>1, <1>3
<1>5. /\ step' \in [Workers -> Steps] /\ step'[w] = next
      /\ \A v \in Workers \ {w} : step'[v] = step[v]
  BY <1>4, GotoDoes DEF Steps
<1>6. tried' \subseteq Workers /\ \A v \in Workers \ {w} : v \in tried' <=> v \in tried
  BY <1>1 DEF CallTypes
<1>7. config \in Configs /\ config' \in Configs /\ draft[w].config[a] = Unset
      /\ (w \notin tried => draft[w].config = [base[w].config EXCEPT ![a] = Unset])
  <2>1. draft[w] \in Both
    BY DEF CallTypes
  <2>2. draft[w].config \in Configs
    BY <2>1 DEF Both
  <2> QED BY <1>1, <2>2 DEF SharedTypes, CallsFit, DraftFits
<1>8. PolicyFor(w)' = PolicyFor(w) /\ a' = a
  BY <1>1, SameCall
<1>9. SharedTypes' /\ CallTypes' /\ OthersStay(w)
  BY <1>1, <1>5, <1>6, <1>7 DEF SharedTypes, CallTypes, OthersStay
<1>10. KindFits(w)' /\ DraftFits(w)'
  BY <1>1, <1>2, <1>4, <1>5, <1>7, <1>8 DEF KindFits, DraftFits
<1>11. TempsPlain'
  BY <1>1 DEF CallsFit, TempsPlain, PlainIn
<1>12. Confined(w)
  <2>1. w \notin tried \/ Resends(w)
    BY <1>1 DEF Resends
  <2>2. ~Resends(w) => /\ \A b \in All \ {a} : config'[b] = config[b]
                       /\ config'[a] # Unset => config'[a] = config[a]
    <3>1. CASE base[w].config = config /\ w \notin tried
      <4>1. config' = [config EXCEPT ![a] = Unset]
        BY <1>1, <1>7, <3>1
      <4> QED BY <1>2, <1>7, <4>1, ConfigChanged
    <3>2. CASE base[w].config # config
      BY <1>1, <3>2
    <3> QED BY <2>1, <3>1, <3>2
  <2>3. config' # config => step'[w] # step[w]
    BY <1>1, <1>4, <1>5
  <2> QED BY <1>1, <2>2, <2>3 DEF Confined
<1>13. Achieved(w)'
  <2>1. step'[w] = "done" => config'[a] = Unset
    BY <1>1, <1>4, <1>5, <1>7
  <2> QED BY <1>1, <1>2, <1>4, <1>5, <1>8, <2>1 DEF Achieved, Asked
<1> QED BY <1>9, <1>10, <1>11, <1>12, <1>13 DEF Kept

-----------------------------------------------------------------------------
(* Agents that come and go, and the rest.                                  *)

\* A temporary agent is new, or brought back, and may use every skill.
LEMMA CreateKeeps ==
  ASSUME SharedTypes, CallTypes, CallsFit, NEW w \in Workers, Create(w) PROVE Kept(w)
<1> DEFINE a == Agent(w)
<1>1. /\ step[w] = "create" /\ (Goto(w, "getConfig") \/ Goto(w, Failed(w)))
      /\ config' = [config EXCEPT ![a] = NewEntry]
      /\ UNCHANGED <<file, session, job, seen, base, draft, tried, worked, started>>
  BY DEF Create, Answered
<1>2. job[w].kind = "temporary" /\ a \in Temps /\ a \in All
  BY <1>1, JobFits DEF CallsFit, KindFits
<1>3. PICK next \in {"getConfig", "idle"} : Goto(w, next)
  BY <1>1, FailedIs DEF Removing
<1>4. /\ step' \in [Workers -> Steps] /\ step'[w] = next
      /\ \A v \in Workers \ {w} : step'[v] = step[v]
  BY <1>3, GotoDoes DEF Steps
<1>5. /\ config' \in Configs /\ config'[a] = NewEntry /\ NewEntry.skills = Unrestricted
      /\ \A b \in All : b # a => config'[b] = config[b]
  <2>1. config \in Configs /\ NewEntry \in Entries \cup {Unset} /\ NewEntry.skills = Unrestricted
    BY EntriesSet DEF SharedTypes, NewEntry
  <2>2. /\ [config EXCEPT ![a] = NewEntry] \in Configs
        /\ [config EXCEPT ![a] = NewEntry][a] = NewEntry
        /\ \A b \in All : b # a => [config EXCEPT ![a] = NewEntry][b] = config[b]
    BY <1>2, <2>1, ConfigChanged
  <2> QED BY <1>1, <2>1, <2>2
<1>6. SharedTypes' /\ CallTypes' /\ OthersStay(w)
  BY <1>1, <1>4, <1>5 DEF SharedTypes, CallTypes, OthersStay
<1>7. KindFits(w)' /\ DraftFits(w)'
  BY <1>1, <1>2, <1>4 DEF KindFits, DraftFits
<1>8. PlainIn(config) /\ TempsPlain'
  <2>1. Temps \subseteq All
    BY DEF All
  <2> QED BY <1>1, <1>5, <2>1 DEF CallsFit, TempsPlain, PlainIn
<1>9. Confined(w)
  BY <1>1, <1>2, <1>4, <1>5, <1>8 DEF Confined, PlainIn
<1>10. Achieved(w)'
  BY <1>1, <1>2, <1>4 DEF Achieved
<1> QED BY <1>6, <1>7, <1>8, <1>9, <1>10 DEF Kept

\* An agent is deleted.
LEMMA DeleteKeeps ==
  ASSUME SharedTypes, CallTypes, CallsFit, NEW w \in Workers, Delete(w) PROVE Kept(w)
<1> DEFINE a == Agent(w)
<1>1. /\ step[w] = "delete" /\ (Goto(w, "done") \/ Goto(w, Failed(w)))
      /\ config' = [config EXCEPT ![a] = Unset]
      /\ UNCHANGED <<file, session, job, seen, base, draft, tried, worked, started>>
  BY DEF Delete, Answered
<1>2. job[w].kind = "delete" /\ a \in All
  BY <1>1, JobFits DEF CallsFit, KindFits
<1>3. PICK next \in {"done", "idle"} : Goto(w, next)
  BY <1>1, FailedIs DEF Removing
<1>4. /\ step' \in [Workers -> Steps] /\ step'[w] = next
      /\ \A v \in Workers \ {w} : step'[v] = step[v]
  BY <1>3, GotoDoes DEF Steps
<1>5. /\ config' \in Configs /\ config'[a] = Unset
      /\ \A b \in All : b # a => config'[b] = config[b]
  <2>1. config \in Configs /\ Unset \in Entries \cup {Unset}
    BY DEF SharedTypes
  <2>2. /\ [config EXCEPT ![a] = Unset] \in Configs /\ [config EXCEPT ![a] = Unset][a] = Unset
        /\ \A b \in All : b # a => [config EXCEPT ![a] = Unset][b] = config[b]
    BY <1>2, <2>1, ConfigChanged
  <2> QED BY <1>1, <2>2
<1>6. SharedTypes' /\ CallTypes' /\ OthersStay(w)
  BY <1>1, <1>4, <1>5 DEF SharedTypes, CallTypes, OthersStay
<1>7. KindFits(w)' /\ DraftFits(w)'
  BY <1>1, <1>4 DEF KindFits, DraftFits
<1>8. TempsPlain'
  <2>1. Temps \subseteq All
    BY DEF All
  <2> QED BY <1>1, <1>5, <2>1 DEF CallsFit, TempsPlain, PlainIn
<1>9. Confined(w)
  BY <1>1, <1>4, <1>5 DEF Confined
<1>10. Achieved(w)'
  <2>1. Agent(w)' = a
    BY <1>1, SameCall
  <2> QED BY <1>1, <1>2, <1>4, <1>5, <2>1 DEF Achieved, Asked
<1> QED BY <1>6, <1>7, <1>8, <1>9, <1>10 DEF Kept

\* The settings of the session change no document.
LEMMA SyncKeeps ==
  ASSUME SharedTypes, CallTypes, CallsFit, NEW w \in Workers, Sync(w) PROVE Kept(w)
<1>1. /\ step[w] = "sync" /\ Goto(w, "done")
      /\ session' \in {session, [session EXCEPT ![Agent(w)] = job[w].role]}
      /\ UNCHANGED <<file, config, job, seen, base, draft, tried, worked, started>>
  BY DEF Sync
<1>2. job[w].kind = "permissions" /\ job[w].role \in Roles
  BY <1>1, JobFits DEF CallsFit, KindFits
<1>3. /\ step' \in [Workers -> Steps] /\ step'[w] = "done"
      /\ \A v \in Workers \ {w} : step'[v] = step[v]
  BY <1>1, GotoDoes DEF Steps
<1>4. SharedTypes' /\ CallTypes' /\ OthersStay(w)
  BY <1>1, <1>2, <1>3 DEF SharedTypes, CallTypes, OthersStay
<1>5. KindFits(w)' /\ DraftFits(w)' /\ TempsPlain' /\ Confined(w)
  BY <1>1, <1>3 DEF CallsFit, KindFits, DraftFits, TempsPlain, PlainIn, Confined
<1>6. Achieved(w) => Achieved(w)'
  <2>1. /\ PolicyFor(w)' = PolicyFor(w) /\ Agent(w)' = Agent(w) /\ ToolsFor(w)' = ToolsFor(w)
    BY <1>1, SameCall
  <2> QED BY <1>1, <1>2, <1>3, <2>1 DEF Achieved, Asked, PolicyFor
<1> QED BY <1>4, <1>5, <1>6 DEF Kept

\* The chat of a temporary agent changes no document.
LEMMA ChatKeeps ==
  ASSUME SharedTypes, CallTypes, CallsFit, NEW w \in Workers, Chat(w) PROVE Kept(w)
<1>1. /\ step[w] = "chat" /\ Goto(w, "getList") /\ worked' = worked \cup {w}
      /\ UNCHANGED <<file, config, session, job, seen, base, draft, tried, started>>
  BY DEF Chat
<1>2. job[w].kind = "temporary"
  BY <1>1 DEF CallsFit, KindFits
<1>3. /\ step' \in [Workers -> Steps] /\ step'[w] = "getList"
      /\ \A v \in Workers \ {w} : step'[v] = step[v]
  BY <1>1, GotoDoes DEF Steps
<1>4. SharedTypes' /\ CallTypes' /\ OthersStay(w)
  BY <1>1, <1>3 DEF SharedTypes, CallTypes, OthersStay
<1>5. KindFits(w)' /\ DraftFits(w)' /\ TempsPlain' /\ Confined(w) /\ Achieved(w)'
  BY <1>1, <1>2, <1>3
  DEF CallsFit, KindFits, DraftFits, TempsPlain, PlainIn, Confined, Achieved
<1> QED BY <1>4, <1>5 DEF Kept

\* An error or the end of a call.
LEMMA FailKeeps ==
  ASSUME SharedTypes, CallTypes, CallsFit, NEW w \in Workers, Fail(w) \/ Over(w) PROVE Kept(w)
<1>1. PICK next \in {"idle", "getList", "left"} :
         /\ Goto(w, next) /\ (next \in {"getList", "left"} => job[w].kind = "temporary")
         /\ next = "left" => w \in worked
  BY FailedIs DEF Fail, Over, CallsFit, KindFits, Removing
<1>2. UNCHANGED <<file, config, session, job, seen, base, draft, worked, started>>
      /\ (tried' = tried \ {w} \/ tried' = tried)
  BY DEF Fail, Over
<1>3. /\ step' \in [Workers -> Steps] /\ step'[w] = next
      /\ \A v \in Workers \ {w} : step'[v] = step[v]
  BY <1>1, GotoDoes DEF Steps
<1>4. SharedTypes' /\ CallTypes' /\ OthersStay(w)
  BY <1>2, <1>3 DEF SharedTypes, CallTypes, OthersStay
<1>5. KindFits(w)' /\ DraftFits(w)' /\ TempsPlain' /\ Confined(w) /\ Achieved(w)'
  BY <1>1, <1>2, <1>3
  DEF CallsFit, KindFits, DraftFits, TempsPlain, PlainIn, Confined, Achieved
<1> QED BY <1>4, <1>5 DEF Kept

-----------------------------------------------------------------------------
(* All steps.                                                              *)

\* What a call starts with has the types.
LEMMA NothingIn == NothingSeen \in Seen /\ NoDocuments \in Both /\ PlainIn(NoDocuments.config)
<1>1. NothingSeen \in Seen
  BY EntriesSet DEF NothingSeen, Seen
<1>2. [a \in Listed |-> Unset] \in [Listed -> Policies \cup {Unset}]
      /\ [a \in All |-> Unset] \in Configs
  BY DEF Configs
<1>3. [exists |-> FALSE, of |-> [a \in Listed |-> Unset]] \in Files
  BY <1>2 DEF Files
<1>4. NoDocuments \in Both
  BY <1>2, <1>3 DEF NoDocuments, Both
<1>5. PlainIn(NoDocuments.config)
  BY DEF PlainIn, NoDocuments, All
<1> QED BY <1>1, <1>4, <1>5

\* Where each kind of call begins.
LEMMA BeginsWhere ==
  /\ FirstStep("permissions") = "readPolicy" /\ FirstStep("skills") = "getConfig"
  /\ FirstStep("enable") = "readSkills" /\ FirstStep("disable") = "readSkills"
  /\ FirstStep("temporary") = "create" /\ FirstStep("delete") = "delete"
<1>1. FirstStep("permissions") = "readPolicy"
  BY DEF FirstStep
<1>2. FirstStep("skills") = "getConfig"
  BY DEF FirstStep
<1>3. FirstStep("enable") = "readSkills" /\ FirstStep("disable") = "readSkills"
  BY DEF FirstStep
<1>4. FirstStep("temporary") = "create" /\ FirstStep("delete") = "delete"
  BY DEF FirstStep
<1> QED BY <1>1, <1>2, <1>3, <1>4

\* A call begins where its kind begins, with nothing read and no draft.
LEMMA BeginKeeps ==
  ASSUME SharedTypes, CallTypes, CallsFit, NEW w \in Workers, NEW j \in Jobs, BeginCall(w, j)
  PROVE  /\ SharedTypes' /\ CallTypes' /\ OthersStay(w) /\ UNCHANGED <<file, config>>
         /\ KindFits(w)' /\ DraftFits(w)' /\ TempsPlain' /\ Achieved(w)'
<1> DEFINE next == FirstStep(j.kind)
<1>1. /\ job' = [job EXCEPT ![w] = j] /\ Goto(w, next) /\ started' = started + 1
      /\ started < MaxJobs
      /\ seen' = [seen EXCEPT ![w] = NothingSeen] /\ base' = [base EXCEPT ![w] = NoDocuments]
      /\ draft' = [draft EXCEPT ![w] = NoDocuments] /\ tried' = tried \ {w}
      /\ worked' = worked \ {w} /\ UNCHANGED <<file, config, session>>
  BY DEF BeginCall
<1>2. j.kind \in CallKinds
  BY DocumentsAssumption
<1>3. \/ next = "readPolicy" /\ j.kind = "permissions"
      \/ next = "readSkills" /\ j.kind \in {"enable", "disable"}
      \/ next = "getConfig" /\ j.kind = "skills"
      \/ next = "create" /\ j.kind = "temporary"
      \/ next = "delete" /\ j.kind = "delete"
  BY <1>2, BeginsWhere DEF CallKinds
<1>4. next \in Steps
  BY <1>3 DEF Steps
<1> HIDE DEF next
<1>5. step' \in [Workers -> Steps] /\ step'[w] = next /\ \A v \in Workers \ {w} : step'[v] = step[v]
  BY <1>1, <1>4, GotoDoes
<1>6. /\ job' \in [Workers -> Jobs] /\ job'[w] = j /\ seen' \in [Workers -> Seen]
      /\ base' \in [Workers -> Both] /\ draft' \in [Workers -> Both]
      /\ draft'[w] = NoDocuments /\ started' \in 0..MaxJobs
  BY <1>1, NothingIn, DocumentsAssumption DEF CallTypes
<1>7. OthersStay(w)
  BY <1>1, <1>5 DEF CallTypes, OthersStay
<1>8. SharedTypes' /\ CallTypes'
  BY <1>1, <1>5, <1>6 DEF SharedTypes, CallTypes
<1>9. KindFits(w)' /\ DraftFits(w)' /\ Achieved(w)'
  BY <1>3, <1>5, <1>6 DEF KindFits, DraftFits, Achieved
<1>10. TempsPlain'
  BY <1>1, <1>6, NothingIn DEF CallTypes, CallsFit, TempsPlain, PlainIn
<1> QED BY <1>1, <1>7, <1>8, <1>9, <1>10

\* What the gateway adds to its file.
LEMMA AllowKeeps ==
  ASSUME SharedTypes, NEW a \in Listed, NEW p \in Patterns, AllowAlways(a, p)
  PROVE  /\ SharedTypes'
         /\ UNCHANGED <<config, session, job, step, seen, base, draft, tried, worked, started>>
BY AllowedMore DEF AllowAlways, SharedTypes

\* The other calls' places and drafts are as they were.
LEMMA OthersFit ==
  ASSUME NEW v \in Workers, KindFits(v), DraftFits(v),
         job'[v] = job[v], step'[v] = step[v], seen'[v] = seen[v], base'[v] = base[v],
         draft'[v] = draft[v], v \in tried' <=> v \in tried, v \in worked' <=> v \in worked
  PROVE  KindFits(v)' /\ DraftFits(v)'
<1>1. /\ Agent(v)' = Agent(v) /\ PolicyFor(v)' = PolicyFor(v)
      /\ ToolsFor(v)' = ToolsFor(v) /\ SkillsFor(v)' = SkillsFor(v)
      /\ AboutTools(v)' = AboutTools(v)
  BY DEF ToolsFor, SkillsFor, Enabled, AboutTools, Agent, PolicyFor
<1>2. Edited(v, base[v].config)' = Edited(v, base[v].config)
  BY <1>1 DEF Edited, EntryIn
<1>3. KindFits(v)'
  BY DEF KindFits
<1>4. DraftFits(v)'
  BY <1>1, <1>2 DEF DraftFits
<1> QED BY <1>3, <1>4

\* So every step of a call keeps what it should.
LEMMA AdvanceKeeps ==
  ASSUME SharedTypes, CallTypes, CallsFit, NEW w \in Workers, Advance(w) \/ Fail(w) \/ Over(w)
  PROVE  Kept(w)
BY ReadPolicyKeeps, GetFileKeeps, SetFileKeeps, GetFileHashKeeps, ReadEntryKeeps,
   GetConfigKeeps, SetConfigKeeps, SyncKeeps, CreateKeeps, ChatKeeps, GetListKeeps,
   PatchListKeeps, GetListHashKeeps, DeleteKeeps, FailKeeps DEF Advance

\* A step is of one call, or of the gateway, or nobody's.
LEMMA DocumentsStep ==
  ASSUME DocumentsInvariant, [DocumentsNext]_documents PROVE DocumentsInvariant'
<1>t. SharedTypes /\ CallTypes /\ clean \subseteq Workers /\ CallsFit
      /\ \A v \in Workers : v \in clean => Achieved(v)
  BY DocumentsApart DEF DocumentsInvariant
<1>1. ASSUME NEW w \in Workers, Touched, Kept(w) \/ (step[w] = "idle" /\ Achieved(w)'),
             SharedTypes', CallTypes', OthersStay(w), KindFits(w)', DraftFits(w)', TempsPlain'
      PROVE  DocumentsInvariant'
  <2>1. ASSUME NEW v \in Workers \ {w} PROVE KindFits(v)' /\ DraftFits(v)'
    BY <1>t, <1>1, OthersFit DEF CallsFit, OthersStay
  <2>2. CallsFit'
    BY <1>1, <2>1 DEF CallsFit
  <2>3. ASSUME NEW v \in Workers, v \in clean' PROVE Achieved(v)'
    <3>1. step[v] # "idle" => v \in clean /\ (step'[v] # step[v] \/ SameEntry(Agent(v)))
      BY <1>1, <2>3 DEF Touched
    <3>2. CASE v = w
      BY <1>t, <1>1, <3>1, <3>2 DEF Kept, Achieved
    <3>3. CASE v # w
      <4>1. /\ job'[v] = job[v] /\ step'[v] = step[v] /\ seen'[v] = seen[v]
            /\ v \in worked' <=> v \in worked
        BY <1>1, <3>3 DEF OthersStay
      <4>2. CASE step[v] = "idle"
        BY <4>1, <4>2 DEF Achieved
      <4>3. CASE step[v] # "idle"
        BY <1>t, <3>1, <4>1, <4>3, AchievementStays DEF CallsFit
      <4> QED BY <4>2, <4>3
    <3> QED BY <3>2, <3>3
  <2>4. clean' \subseteq Workers
    BY <1>1 DEF Touched
  <2> QED BY <1>1, <2>2, <2>3, <2>4, DocumentsNextTypes DEF DocumentsInvariant
<1>2. ASSUME NEW w \in Workers, Advance(w) \/ Fail(w) \/ Over(w), Touched
      PROVE  DocumentsInvariant'
  <2>1. Kept(w)
    BY <1>t, <1>2, AdvanceKeeps
  <2>2. /\ SharedTypes' /\ CallTypes' /\ OthersStay(w)
        /\ KindFits(w)' /\ DraftFits(w)' /\ TempsPlain'
    BY <2>1 DEF Kept
  <2> QED BY <1>1, <1>2, <2>1, <2>2
<1>3. ASSUME NEW w \in Workers, NEW j \in Jobs, BeginCall(w, j), Touched
      PROVE  DocumentsInvariant'
  <2>1. step[w] = "idle"
    BY <1>3 DEF BeginCall
  <2> QED BY <1>t, <1>1, <1>3, <2>1, BeginKeeps
<1>4. ASSUME NEW a \in Listed, NEW p \in Patterns, AllowAlways(a, p), Touched
      PROVE  DocumentsInvariant'
  <2>1. SharedTypes'
        /\ UNCHANGED <<config, session, job, step, seen, base, draft, tried, worked, started>>
    BY <1>t, <1>4, AllowKeeps
  <2>2. CallTypes' /\ TempsPlain' /\ clean' \subseteq Workers
    BY <1>t, <1>4, <2>1 DEF CallTypes, CallsFit, TempsPlain, PlainIn, Touched
  <2>3. ASSUME NEW v \in Workers PROVE KindFits(v)' /\ DraftFits(v)'
    BY <1>t, <2>1, OthersFit DEF CallsFit
  <2>4. ASSUME NEW v \in Workers, v \in clean' PROVE Achieved(v)'
    <3>1. step[v] # "idle" => v \in clean /\ SameEntry(Agent(v))
      BY <1>4, <2>1, <2>4 DEF Touched
    <3>2. CASE step[v] = "idle"
      BY <2>1, <3>2 DEF Achieved
    <3>3. CASE step[v] # "idle"
      BY <1>t, <2>1, <3>1, <3>3, AchievementStays DEF CallsFit
    <3> QED BY <3>2, <3>3
  <2> QED BY <2>1, <2>2, <2>3, <2>4, DocumentsNextTypes DEF DocumentsInvariant, CallsFit
<1>5. CASE UNCHANGED documents
  <2>1. UNCHANGED <<file, config, session, job, step, seen, base, draft, tried, worked, started, clean>>
    BY <1>5 DEF documents
  <2>2. SharedTypes' /\ CallTypes' /\ clean' \subseteq Workers /\ TempsPlain'
    BY <1>t, <2>1 DEF SharedTypes, CallTypes, CallsFit, TempsPlain, PlainIn
  <2>3. ASSUME NEW v \in Workers
        PROVE  KindFits(v)' /\ DraftFits(v)' /\ (v \in clean' => Achieved(v)')
    BY <1>t, <2>1, OthersFit, AchievementStays DEF CallsFit, SameEntry
  <2> QED BY <2>2, <2>3, DocumentsNextTypes DEF DocumentsInvariant, CallsFit
<1> QED BY <1>2, <1>3, <1>4, <1>5 DEF DocumentsNext

\* At first no call has begun.
LEMMA DocumentsInitially == DocumentsInit => DocumentsInvariant
<1> SUFFICES ASSUME DocumentsInit PROVE DocumentsInvariant
  OBVIOUS
<1>1. SharedTypes
  <2>1. file \in Files
    <3>1. file \in [exists : BOOLEAN, of : {[a \in Listed |-> Unset]}]
      BY DEF DocumentsInit
    <3>2. {[a \in Listed |-> Unset]} \subseteq [Listed -> Policies \cup {Unset}]
      OBVIOUS
    <3> QED BY <3>1, <3>2 DEF Files
  <2>2. config \in Configs
    BY EntriesSet DEF DocumentsInit, Configs
  <2>3. session \in [Listed -> Roles \cup {Unset}]
    BY DEF DocumentsInit
  <2> QED BY <2>1, <2>2, <2>3 DEF SharedTypes
<1>2. CallTypes
  <2>1. (CHOOSE j \in Jobs : TRUE) \in Jobs
    BY DocumentsAssumption
  <2>2. job \in [Workers -> Jobs]
    BY <2>1 DEF DocumentsInit
  <2>3. "idle" \in Steps /\ 0 \in 0..MaxJobs
    BY DocumentsAssumption DEF Steps
  <2> QED BY <2>2, <2>3, NothingIn DEF DocumentsInit, CallTypes
<1>3. TempsPlain
  <2>1. PlainIn(config)
    BY DEF DocumentsInit, PlainIn, All, NewEntry
  <2> QED BY <2>1, NothingIn DEF DocumentsInit, TempsPlain
<1>4. \A w \in Workers : KindFits(w) /\ DraftFits(w) /\ Achieved(w)
  BY DEF DocumentsInit, KindFits, DraftFits, Achieved
<1> QED BY <1>1, <1>2, <1>3, <1>4, DocumentsApart DEF DocumentsInvariant, CallsFit, DocumentsInit

\* The invariant holds in every state.
LEMMA DocumentsAlways == DocumentsSpec => []DocumentsInvariant
BY DocumentsInitially, DocumentsStep, PTL DEF DocumentsSpec

\* The documents, the drafts of them and the calls keep their types
\* (agentConfig.ts, execApprovals.ts).
THEOREM DocumentsTypeCorrect == DocumentsSpec => []DocumentsTypeOK
<1>1. DocumentsInvariant => DocumentsTypeOK
  BY DEF DocumentsInvariant
<1> QED BY <1>1, DocumentsAlways, PTL

\* A call that reports success has done what it was asked for, whoever else
\* edits other agents meanwhile and however often its writes are refused: a
\* temporary agent has done its work and is gone, unless its removal failed.
THEOREM CallsDoAsAsked == DocumentsSpec => []FinishedAsAsked
<1>1. DocumentsInvariant => FinishedAsAsked
  BY DEF DocumentsInvariant, CallsFit, KindFits, FinishedAsAsked, Achieved
<1> QED BY <1>1, DocumentsAlways, PTL

\* No update of an agent is lost to a call about another, for any number of
\* agents and calls: the entry of an agent changes only by a call about it, and
\* the part that call is not about not even then, second attempts that send an
\* older document aside.
THEOREM NoLostUpdate == DocumentsSpec => OthersKept
<1> DEFINE Rewrites ==
       /\ \A a \in All : config'[a] # config[a] => \E w \in Workers : Mine(w, a)
       /\ \A a \in Listed : file'.of[a] # file.of[a] =>
             (\E w \in Workers : Mine(w, a)) \/ step' = step
       /\ \A a \in All : config[a] # Unset /\ config'[a] # Unset
                         /\ config[a].skills # config'[a].skills =>
             \E w \in Workers : step'[w] # step[w] /\ (~AboutTools(w) \/ Resends(w))
<1>1. ASSUME DocumentsInvariant, [DocumentsNext]_documents PROVE [Rewrites]_documents
  <2>t. SharedTypes /\ CallTypes /\ CallsFit
    BY <1>1, DocumentsApart DEF DocumentsInvariant
  <2>1. ASSUME NEW w \in Workers, Advance(w) \/ Fail(w) \/ Over(w) PROVE Rewrites
    <3>1. Confined(w)
      BY <2>t, <2>1, AdvanceKeeps DEF Kept
    <3>2. \A a \in All : config'[a] # config[a] => Mine(w, a)
      BY <3>1 DEF Confined, Mine
    <3>3. \A a \in Listed : file'.of[a] # file.of[a] => Mine(w, a)
      BY <3>1 DEF Confined, Mine
    <3>4. ASSUME NEW a \in All, config[a] # Unset, config'[a] # Unset,
                 config[a].skills # config'[a].skills
          PROVE  step'[w] # step[w] /\ (~AboutTools(w) \/ Resends(w))
      BY <3>1, <3>4 DEF Confined
    <3> QED BY <3>2, <3>3, <3>4
  <2>2. ASSUME NEW w \in Workers, NEW j \in Jobs, BeginCall(w, j) PROVE Rewrites
    BY <2>2 DEF BeginCall
  <2>3. ASSUME NEW a \in Listed, NEW p \in Patterns, AllowAlways(a, p) PROVE Rewrites
    BY <2>3 DEF AllowAlways
  <2> HIDE DEF Rewrites
  <2> QED BY <1>1, <2>1, <2>2, <2>3 DEF DocumentsNext
<1>2. DocumentsSpec => [][Rewrites]_documents
  BY <1>1, DocumentsAlways, PTL DEF DocumentsSpec
<1> QED BY <1>2 DEF OthersKept
=============================================================================
