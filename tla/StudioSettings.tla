---------------------------- MODULE StudioSettings ----------------------------
(***************************************************************************)
(* The settings of the Studio: the coordinator of the browser              *)
(* (src/lib/studio/coordinator.ts), which collects patches for a while,    *)
(* merges them into one and sends it, one write after the other, and the   *)
(* store of the Studio host (settings.ts, settings-store.ts), which loads  *)
(* the file, fills its gateway section up from the machine's own defaults, *)
(* merges the patch in and writes the result.                              *)
(*                                                                         *)
(* A field is a part of an entry, an entry what one section keeps for one  *)
(* gateway or floor; a node is the fields under a key that a patch may set *)
(* to null.  The value of a field is the number of the call that set or    *)
(* deleted it, 0 if no call did; Keep is a field that is present in a      *)
(* patch with the value undefined (a token that is not shown).  Tokens and *)
(* urls that a patch sets are not empty, and a patch of a profile or of    *)
(* lastKnownGood names its url, as those of GatewayClient.ts do.           *)
(***************************************************************************)
EXTENDS Naturals, Sequences

CONSTANTS
    Fields,       \* pairs of an entry and a part
    Whole,        \* the entries that mergeStudioPatch replaces as a whole
    Nodes,        \* the sets of fields that a patch may delete with a null
    Gateway,      \* the fields of the gateway section, among them
    GatewayUrl,   \* its url, with the adapter's type, and
    GatewayToken, \* its token; the others are of profiles and lastKnownGood
    LocalDefaults, \* what loadLocalGatewayDefaults may find: "none", a gateway
                  \* without ("bare") or with a token ("token")
    Shapes,       \* what a patch may set, keep and delete: [set, keep, clear]
    Readers,      \* the callers of loadSettings, each gets settings once
    Forcing,      \* those of them that call with force
    MaxPatches,   \* bound on the patches
    Keep, Nobody, NoSettings

ASSUME SettingsAssumption ==
    /\ MaxPatches \in Nat /\ {Keep, NoSettings} \cap Nat = {}
    /\ Nobody \notin Readers /\ Forcing \subseteq Readers
    /\ Nodes \subseteq SUBSET Fields
    /\ \A node \in Nodes : GatewayUrl \in node => Gateway \subseteq node
    /\ Gateway \subseteq Fields /\ {GatewayUrl, GatewayToken} \subseteq Gateway
    /\ LocalDefaults \subseteq {"none", "bare", "token"}
    /\ Shapes \subseteq [set : SUBSET Fields, keep : SUBSET Fields, clear : SUBSET Nodes]
    /\ \A shape \in Shapes : (shape.set \cup shape.keep) \cap UNION shape.clear = {}

VARIABLES
    pendingPatch,  \* this.pendingPatch; a patch of no field is null
    debounce,      \* this.timer is armed
    writes,        \* the patches handed to this.queue
    write,         \* write[i]: queued, sent, applied, over, or late: it failed
                   \* in the browser and may still reach the host
    reply,         \* reply[i]: the version the host answered with
    disposed,      \* this.disposed
    stored,        \* the settings file
    gatewayHas,    \* which of the gateway's url and token the file has
    fileVersion,   \* the writes of the host so far
    cached,        \* this.cachedEnvelope that is not yet too old: the version
                   \* it is of; NoSettings
    loading,       \* this.pendingLoadPromise: the reader that started it, or Nobody
    load,          \* load[r]: the request r started: unused, sent, read, over
    saw,           \* saw[r]: the version the host answered it with
    awaits,        \* awaits[r]: the reader whose request r waits for, or Nobody
    got,           \* got[r]: the version that loadSettings returned; NoSettings
    scheduled,     \* the number of patches so far
    acked,         \* the version of the last write that was answered
    known,         \* known[r]: acked when r called with force
    meant,         \* the last call that each field was set or deleted by
    lost           \* the fields whose last change is lost: see below

hostFile == <<stored, gatewayHas, fileVersion>>
reading == <<loading, load, saw, awaits, got, known>>
settings == <<pendingPatch, debounce, writes, write, reply, disposed, hostFile, cached,
              reading, scheduled, acked, meant, lost>>

NoPatch == [to |-> [f \in {} |-> 0], null |-> {}]
Numbers == 0..MaxPatches
Settings == [Fields -> Numbers]
FieldPatches == UNION {[D -> Numbers \cup {Keep}] : D \in SUBSET Fields}
Patches == [to : FieldPatches, null : SUBSET Nodes]
WriteStates == {"queued", "sent", "applied", "late", "over"}
SettingsTypeOK ==
    /\ pendingPatch \in Patches /\ {debounce, disposed} \subseteq BOOLEAN
    /\ scheduled \in Numbers /\ Len(writes) \in Numbers
    /\ writes \in Seq(Patches) /\ write \in Seq(WriteStates) /\ reply \in Seq(Nat)
    /\ Len(write) = Len(writes) /\ Len(reply) = Len(writes)
    /\ {stored, meant} \subseteq Settings /\ gatewayHas \subseteq {GatewayUrl, GatewayToken}
    /\ {fileVersion, acked} \subseteq Nat /\ cached \in Nat \cup {NoSettings}
    /\ loading \in Readers \cup {Nobody} /\ awaits \in [Readers -> Readers \cup {Nobody}]
    /\ load \in [Readers -> {"unused", "sent", "read", "over"}]
    /\ saw \in [Readers -> Nat] /\ known \in [Readers -> Nat]
    /\ got \in [Readers -> Nat \cup {NoSettings}] /\ lost \subseteq Fields

Blank == [f \in Fields |-> 0]
SettingsInit ==
    /\ pendingPatch = NoPatch /\ debounce = FALSE /\ disposed = FALSE
    /\ writes = <<>> /\ write = <<>> /\ reply = <<>>
    /\ stored = Blank /\ gatewayHas = {} /\ fileVersion = 0 /\ acked = 0
    /\ meant = Blank /\ lost = {}
    /\ cached = NoSettings /\ loading = Nobody
    /\ load = [r \in Readers |-> "unused"] /\ awaits = [r \in Readers |-> Nobody]
    /\ saw = [r \in Readers |-> 0] /\ known = [r \in Readers |-> 0]
    /\ got = [r \in Readers |-> NoSettings]
    /\ scheduled = 0

-----------------------------------------------------------------------------
(* Merging                                                                 *)

\* The fields that a patch sets or deletes: undefined is neither.
Sets(p) == {f \in DOMAIN p.to : p.to[f] # Keep}
Deletes(p) == UNION p.null

\* What survives of the older patch.  A record replaces an older null, and
\* with it the deletion of the fields that the record leaves out, at every
\* level of mergeStudioPatch.  mergeFocusedPatch, mergeOfficeFloorsPatch and
\* the manual entries of mergeStandupPatch take over an entry as it is; the
\* other sections are merged field by field.
Survives(f, old, new) ==
    /\ \A node \in old.null : f \in node => node \cap DOMAIN new.to = {}
    /\ f[1] \notin Whole \/ \A g \in DOMAIN new.to : g[1] # f[1]
MergedNulls(old, new) ==
    new.null \cup {node \in old.null : node \cap DOMAIN new.to = {}}

\* mergeStudioPatch: the newer field wins.
OlderFirst(old, new) ==                                  \* seeded fault
    [to |-> [f \in DOMAIN new.to \cup {g \in DOMAIN old.to : Survives(g, old, new)} |->
                IF f \in DOMAIN old.to THEN old.to[f] ELSE new.to[f]],
     null |-> MergedNulls(old, new)]
MergedPatch(old, new) ==
    [to |-> [f \in DOMAIN new.to \cup {g \in DOMAIN old.to : Survives(g, old, new)} |->
                IF f \in DOMAIN new.to THEN new.to[f] ELSE old.to[f]],
     null |-> MergedNulls(old, new)]

Covers(shape) == shape.set \cup UNION shape.clear
Patch(shape, n) ==
    [to |-> [f \in Covers(shape) \cup shape.keep |-> IF f \in Covers(shape) THEN n ELSE Keep],
     null |-> shape.clear]

-----------------------------------------------------------------------------
(* The host's file                                                         *)

\* loadStudioSettings: a gateway section without a token is put together
\* from the machine's defaults d, if there are any.  Of what was stored only
\* the url and the type stay, without a url nothing does.
FillsUp(d) == d # "none" /\ GatewayToken \notin gatewayHas
Forgotten(d) ==
    IF ~FillsUp(d) THEN {} ELSE IF GatewayUrl \in gatewayHas THEN Gateway \ {GatewayUrl} ELSE Gateway
Loaded(d) ==
    IF ~FillsUp(d) THEN gatewayHas
    ELSE {GatewayUrl} \cup (IF d = "token" THEN {GatewayToken} ELSE {})

\* mergeStudioSettings, with mergeGatewaySettings for the gateway section: a
\* field that is undefined stays, and a gateway without a url is none.
Left(p, d) == (Loaded(d) \cup (Sets(p) \cap {GatewayUrl, GatewayToken})) \ Deletes(p)
Taken(p, d) ==
    {f \in Sets(p) : f \in Gateway => f \in Deletes(p) \/ GatewayUrl \in Left(p, d)}
Applied(p, d) ==
    [f \in Fields |-> IF f \in Taken(p, d) THEN p.to[f]
                     ELSE IF f \in Forgotten(d) THEN 0 ELSE stored[f]]

-----------------------------------------------------------------------------
(* Writing                                                                 *)

\* What schedulePatch and applyPatchNow do to the pending patch.  A change
\* that the merged patch no longer carries is lost.
Collected(shape) == MergedPatch(pendingPatch, Patch(shape, scheduled + 1))
Note(shape) ==
    /\ scheduled < MaxPatches /\ ~disposed
    /\ scheduled' = scheduled + 1
    /\ meant' = [f \in Fields |-> IF f \in Covers(shape) THEN scheduled + 1 ELSE meant[f]]
    /\ lost' = (lost \ Covers(shape)) \cup (Sets(pendingPatch) \ Sets(Collected(shape)))

\* flushPending, with the patch p as this.pendingPatch.
Flush(p) ==
    /\ debounce' = FALSE /\ pendingPatch' = NoPatch
    /\ IF p = NoPatch THEN UNCHANGED <<writes, write, reply>>
       ELSE /\ writes' = Append(writes, p) /\ write' = Append(write, "queued")
            /\ reply' = Append(reply, 0)

SchedulePatch(shape) ==
    /\ Note(shape)
    /\ pendingPatch' = Collected(shape) /\ debounce' = TRUE
    /\ UNCHANGED <<writes, write, reply, disposed, hostFile, cached, acked, reading>>
ApplyPatchNow(shape) ==
    /\ Note(shape)
    /\ Flush(Collected(shape))
    /\ UNCHANGED <<disposed, hostFile, cached, acked, reading>>
\* The timer, or the page that goes away (the effect's cleanup).
FlushPending ==
    /\ ~disposed /\ (debounce \/ pendingPatch # NoPatch)
    /\ Flush(pendingPatch)
    /\ UNCHANGED <<disposed, hostFile, cached, reading, scheduled, acked, meant, lost>>

\* The promise chain: a write starts when the one before it has ended in the
\* browser.
NotWaiting(i) == TRUE                                    \* seeded fault
MaySend(i) == \A j \in 1..(i - 1) : write[j] \in {"late", "over"}
SendWrite(i) ==
    /\ write[i] = "queued" /\ MaySend(i)
    /\ write' = [write EXCEPT ![i] = "sent"]
    /\ UNCHANGED <<pendingPatch, debounce, writes, reply, disposed, hostFile, cached, reading,
                   scheduled, acked, meant, lost>>

\* applyStudioSettingsPatch loads, merges and writes in one go.  Lost is what
\* loading forgets, what is not taken and what a late patch overwrites.
HostWrites(i) == \E d \in LocalDefaults :
    LET p == writes[i]
        taken == Taken(p, d)
        overwritten == Forgotten(d) \ taken
    IN /\ write[i] \in {"sent", "late"}
       /\ stored' = Applied(p, d) /\ fileVersion' = fileVersion + 1
       /\ gatewayHas' = IF GatewayUrl \in Left(p, d) THEN Left(p, d) ELSE {}
       /\ write' = [write EXCEPT ![i] = IF write[i] = "sent" THEN "applied" ELSE "over"]
       /\ reply' = [reply EXCEPT ![i] = IF write[i] = "sent" THEN fileVersion' ELSE 0]
       /\ lost' = lost
               \cup {f \in Sets(p) \ taken : p.to[f] = meant[f]}
               \cup {f \in overwritten \cup (IF write[i] = "late" THEN taken ELSE {}) :
                          stored[f] = meant[f]}
       /\ UNCHANGED <<pendingPatch, debounce, writes, disposed, cached, reading, scheduled,
                      acked, meant>>

WriteAnswered(i) ==
    /\ write[i] = "applied"
    /\ write' = [write EXCEPT ![i] = "over"] /\ reply' = [reply EXCEPT ![i] = 0]
    /\ cached' = reply[i] /\ acked' = reply[i]
    /\ UNCHANGED <<pendingPatch, debounce, writes, disposed, hostFile, reading, scheduled,
                   meant, lost>>

\* The request or its answer fails: the chain goes on, the patch is not sent
\* again.  The request may still be on its way to the host.
WriteFails(i) ==
    /\ \/ /\ write[i] = "sent"
          /\ \E how \in {"over", "late"} : write' = [write EXCEPT ![i] = how]
          /\ lost' = lost \cup {f \in Sets(writes[i]) : writes[i].to[f] = meant[f]}
       \/ /\ write[i] = "applied" /\ write' = [write EXCEPT ![i] = "over"]
          /\ UNCHANGED lost
    /\ reply' = [reply EXCEPT ![i] = 0]
    /\ UNCHANGED <<pendingPatch, debounce, writes, disposed, hostFile, cached, reading,
                   scheduled, acked, meant>>

\* dispose gives the pending patch up; what is queued is still written.
Dispose ==
    /\ ~disposed
    /\ disposed' = TRUE /\ debounce' = FALSE /\ pendingPatch' = NoPatch /\ loading' = Nobody
    /\ lost' = lost \cup Sets(pendingPatch)
    /\ UNCHANGED <<writes, write, reply, hostFile, cached, load, saw, awaits, got,
                   scheduled, acked, known, meant>>

-----------------------------------------------------------------------------
(* Loading                                                                 *)

\* loadSettings: without force the cache, then the request under way serve
\* the caller; otherwise it starts a request of its own.
NeedsOwn(r) == loading = Nobody                          \* seeded fault
StartsOwn(r) == r \in Forcing \/ (cached = NoSettings /\ loading = Nobody)
LoadSettings(r) ==
    /\ awaits[r] = Nobody /\ got[r] = NoSettings
    /\ known' = [known EXCEPT ![r] = IF r \in Forcing THEN acked ELSE 0]
    /\ IF StartsOwn(r)
       THEN /\ load' = [load EXCEPT ![r] = "sent"] /\ loading' = r
            /\ awaits' = [awaits EXCEPT ![r] = r] /\ UNCHANGED got
       ELSE /\ IF cached # NoSettings
               THEN got' = [got EXCEPT ![r] = cached] /\ UNCHANGED awaits
               ELSE awaits' = [awaits EXCEPT ![r] = loading] /\ UNCHANGED got
            /\ UNCHANGED <<load, loading>>
    /\ UNCHANGED <<pendingPatch, debounce, writes, write, reply, disposed, hostFile, cached,
                   saw, scheduled, acked, meant, lost>>

\* What the host answers with is the version as loadStudioSettings loads it,
\* which a request does not write back.
HostReads(r) ==
    /\ load[r] = "sent"
    /\ load' = [load EXCEPT ![r] = "read"] /\ saw' = [saw EXCEPT ![r] = fileVersion]
    /\ UNCHANGED <<pendingPatch, debounce, writes, write, reply, disposed, hostFile, cached,
                   loading, awaits, got, scheduled, acked, known, meant, lost>>

\* The request ends: whoever waits for it goes on.
LoadOver(r) ==
    /\ load' = [load EXCEPT ![r] = "over"] /\ saw' = [saw EXCEPT ![r] = 0]
    /\ awaits' = [q \in Readers |-> IF awaits[q] = r THEN Nobody ELSE awaits[q]]
    /\ loading' = IF loading = r THEN Nobody ELSE loading
    /\ UNCHANGED <<pendingPatch, debounce, writes, write, reply, disposed, hostFile,
                   scheduled, acked, known, meant, lost>>
\* The answer primes the cache, however old it is.
LoadAnswered(r) ==
    /\ load[r] = "read"
    /\ cached' = saw[r]
    /\ got' = [q \in Readers |-> IF awaits[q] = r THEN saw[r] ELSE got[q]]
    /\ LoadOver(r)
\* Its callers may call again.
LoadFails(r) ==
    /\ load[r] \in {"sent", "read"}
    /\ UNCHANGED <<cached, got>>
    /\ LoadOver(r)

\* Five seconds later.
CacheExpires ==
    /\ cached # NoSettings /\ cached' = NoSettings
    /\ UNCHANGED <<pendingPatch, debounce, writes, write, reply, disposed, hostFile, reading,
                   scheduled, acked, meant, lost>>

SettingsNext ==
    \/ \E shape \in Shapes : SchedulePatch(shape) \/ ApplyPatchNow(shape)
    \/ FlushPending
    \/ \E i \in 1..Len(writes) : \/ SendWrite(i)
                                 \/ HostWrites(i)
                                 \/ WriteAnswered(i)
                                 \/ WriteFails(i)
    \/ Dispose
    \/ \E r \in Readers : \/ LoadSettings(r)
                          \/ HostReads(r)
                          \/ LoadAnswered(r)
                          \/ LoadFails(r)
    \/ CacheExpires

SettingsSpec == SettingsInit /\ [][SettingsNext]_settings

-----------------------------------------------------------------------------
(* Properties                                                              *)

\* Collecting patches cannot be told from writing each by itself: once every
\* write has ended, the file holds the last change of every field, up to the
\* changes that a merge, a failed write, dispose, a late write or the loading
\* of a file without a token have dropped.
SettledIsMeant ==
    pendingPatch = NoPatch /\ (\A i \in 1..Len(writes) : write[i] \in {"late", "over"})
    => \A f \in Fields \ lost : stored[f] = meant[f]

\* An older change overwrites a newer one in the file only when a write
\* arrives that had failed in the browser; and nothing stored is dropped but
\* from the gateway section, while that has no token.
LateArrives(f) ==
    \E i \in 1..Len(writes) :
        write[i] = "late" /\ write'[i] = "over" /\ f \in Sets(writes[i])
StoredAdvances ==
    [][\A f \in Fields : \/ stored'[f] >= stored[f]
                         \/ f \in Gateway /\ GatewayToken \notin gatewayHas
                         \/ LateArrives(f)]_settings

\* A caller that asks with force never gets settings from before a write that
\* had been answered when it asked, whatever else is under way.
ForcedIsFresh == \A r \in Forcing : got[r] # NoSettings => got[r] >= known[r]
=============================================================================
