---------------------------- MODULE AgentRunProofs ----------------------------
(* Proofs about AgentRun for any set of runs and any sequence numbers.     *)
EXTENDS AgentRun, TLAPS

-----------------------------------------------------------------------------
(* The terminal bookkeeping.  Sound is what every coordinator command      *)
(* preserves once the handler has run it to the end.                       *)

Sound(co) ==
    /\ co \in Coordinator
    /\ co.expired \subseteq co.closed
    /\ \A r \in co.closed : co.timer[r] = None
    /\ \A r \in Runs :
          /\ co.term[r].seen \/ co.term[r].by # "none" => r \in co.closed
          /\ co.term[r].by = "chat" \/ co.term[r].seq # 0 => co.term[r].seen

\* Known, FinalSeen and Commit set one terminal record; the rest is kept.
LEMMA WithTermIs ==
    ASSUME NEW co \in Coordinator, NEW r \in Runs, NEW t \in Term
    PROVE  /\ WithTerm(co, r, t) \in Coordinator
           /\ WithTerm(co, r, t).term[r] = t
           /\ \A q \in Runs \ {r} : WithTerm(co, r, t).term[q] = co.term[q]
           /\ WithTerm(co, r, t).closed = co.closed
           /\ WithTerm(co, r, t).expired = co.expired
           /\ WithTerm(co, r, t).timer = co.timer
BY DEF WithTerm, Coordinator

\* Scheduling and cancelling a fallback changes one timer.
LEMMA WithTimerIs ==
    ASSUME NEW co \in Coordinator, NEW r \in Runs, NEW owner \in MaybeRun
    PROVE  /\ WithTimer(co, r, owner) \in Coordinator
           /\ WithTimer(co, r, owner).timer[r] = owner
           /\ \A q \in Runs \ {r} : WithTimer(co, r, owner).timer[q] = co.timer[q]
           /\ WithTimer(co, r, owner).closed = co.closed
           /\ WithTimer(co, r, owner).expired = co.expired
           /\ WithTimer(co, r, owner).term = co.term
BY DEF WithTimer, Coordinator

\* markRunClosed followed by clearRunTracking closes the run and leaves it
\* without a timer.
LEMMA CloseIs ==
    ASSUME NEW co \in Coordinator, NEW r \in Runs
    PROVE  /\ Close(co, r) \in Coordinator
           /\ Close(co, r).timer[r] = None
           /\ \A q \in Runs \ {r} : Close(co, r).timer[q] = co.timer[q]
           /\ Close(co, r).closed = co.closed \cup {r}
           /\ Close(co, r).expired = co.expired \ {r}
           /\ Close(co, r).term = co.term
BY DEF Close, ClearTracking, MarkClosed, WithTimer, Coordinator, MaybeRun

\* Pruning the closed-run window forgets exactly the expired runs.
LEMMA PruneIs ==
    ASSUME NEW co \in Coordinator
    PROVE  /\ Prune(co) \in Coordinator
           /\ Prune(co).closed = co.closed \ co.expired
           /\ Prune(co).expired = {}
           /\ \A r \in Runs :
                 /\ Prune(co).term[r] = IF r \in co.expired THEN EmptyTerm ELSE co.term[r]
                 /\ Prune(co).timer[r] = IF r \in co.expired THEN None ELSE co.timer[r]
<1>1. EmptyTerm \in Term
  BY RunTerminalAssumption DEF EmptyTerm, Term, Source
<1>2. QED
  BY <1>1 DEF Prune, Coordinator, MaybeRun

\* What a chat final committed is kept.
KeepsChat(old, new) ==
    \A q \in Runs : old.term[q].by = "chat"
                    => new.term[q].by = "chat" /\ new.term[q].seq = old.term[q].seq

\* A command touches the entries of one run: it is sound if these are.
LEMMA OneRunSound ==
    ASSUME NEW co, Sound(co), NEW r \in Runs, NEW new \in Coordinator,
           \A q \in Runs \ {r} : new.term[q] = co.term[q] /\ new.timer[q] = co.timer[q],
           new.closed \ {r} = co.closed \ {r},
           new.expired \ {r} = co.expired \ {r},
           r \in new.expired => r \in new.closed,
           r \in new.closed => new.timer[r] = None,
           new.term[r].seen \/ new.term[r].by # "none" => r \in new.closed,
           new.term[r].by = "chat" \/ new.term[r].seq # 0 => new.term[r].seen
    PROVE  Sound(new)
<1>1. new.closed \subseteq Runs
  BY DEF Coordinator
<1>2. new.expired \subseteq new.closed
  BY DEF Sound
<1>3. \A q \in new.closed : new.timer[q] = None
  <2> SUFFICES ASSUME NEW q \in new.closed, q # r PROVE new.timer[q] = None
    OBVIOUS
  <2> QED BY <1>1 DEF Sound
<1>4. QED
  BY <1>2, <1>3 DEF Sound

\* What Sound says of one run.
LEMMA SoundAt ==
    ASSUME NEW co, Sound(co), NEW r \in Runs
    PROVE  /\ co \in Coordinator /\ co.term[r] \in Term /\ co.timer[r] \in MaybeRun
           /\ r \in co.expired => r \in co.closed
           /\ r \in co.closed => co.timer[r] = None
           /\ co.term[r].seen \/ co.term[r].by # "none" => r \in co.closed
           /\ co.term[r].by = "chat" \/ co.term[r].seq # 0 => co.term[r].seen
BY DEF Sound, Coordinator

\* Setting the record of one run.
LEMMA TermSound ==
    ASSUME NEW co, Sound(co), NEW r \in Runs, NEW t \in Term,
           t.seen \/ t.by # "none" => r \in co.closed,
           t.by = "chat" \/ t.seq # 0 => t.seen
    PROVE  Sound(WithTerm(co, r, t))
<1> DEFINE new == WithTerm(co, r, t)
<1>1. /\ co \in Coordinator
      /\ r \in co.expired => r \in co.closed
      /\ r \in co.closed => co.timer[r] = None
  BY SoundAt
<1>2. /\ new \in Coordinator /\ new.term[r] = t
      /\ \A q \in Runs \ {r} : new.term[q] = co.term[q]
      /\ new.closed = co.closed /\ new.expired = co.expired /\ new.timer = co.timer
  BY <1>1, WithTermIs
<1> HIDE DEF new
<1>3. Sound(new)
  BY <1>1, <1>2, OneRunSound
<1>4. QED
  BY <1>3 DEF new

\* Setting the timer of one run that is not closed, or cancelling one.
LEMMA TimerSound ==
    ASSUME NEW co, Sound(co), NEW r \in Runs, NEW owner \in MaybeRun,
           r \in co.closed => owner = None
    PROVE  /\ Sound(WithTimer(co, r, owner))
           /\ WithTimer(co, r, owner).term = co.term
           /\ WithTimer(co, r, owner).closed = co.closed
<1> DEFINE new == WithTimer(co, r, owner)
<1>1. /\ co \in Coordinator
      /\ r \in co.expired => r \in co.closed
      /\ co.term[r].seen \/ co.term[r].by # "none" => r \in co.closed
      /\ co.term[r].by = "chat" \/ co.term[r].seq # 0 => co.term[r].seen
  BY SoundAt
<1>2. /\ new \in Coordinator /\ new.timer[r] = owner
      /\ \A q \in Runs \ {r} : new.timer[q] = co.timer[q]
      /\ new.closed = co.closed /\ new.expired = co.expired /\ new.term = co.term
  BY <1>1, WithTimerIs
<1> HIDE DEF new
<1>3. Sound(new)
  BY <1>1, <1>2, OneRunSound
<1>4. QED
  BY <1>2, <1>3 DEF new

\* clearRunTracking.
LEMMA TrackingSound ==
    ASSUME NEW co, Sound(co), NEW r \in Runs
    PROVE  /\ Sound(ClearTracking(co, r))
           /\ ClearTracking(co, r).term = co.term
           /\ ClearTracking(co, r).closed = co.closed
BY TimerSound DEF ClearTracking, MaybeRun

\* clearRunTerminalState, of a run without a chat final.
LEMMA ClearTermSound ==
    ASSUME NEW co, Sound(co), NEW r \in Runs, ~co.term[r].seen
    PROVE  /\ Sound(ClearTerm(co, r)) /\ KeepsChat(co, ClearTerm(co, r))
           /\ \A q \in Runs : ClearTerm(co, r).term[q].seen => co.term[q].seen
<1> DEFINE mid == WithTerm(co, r, EmptyTerm)
<1>1. EmptyTerm \in Term /\ co \in Coordinator
  BY RunTerminalAssumption DEF EmptyTerm, Term, Source, Sound
<1>2. co.term[r].by # "chat"
  BY SoundAt
<1>3. mid.term[r] = EmptyTerm /\ \A q \in Runs \ {r} : mid.term[q] = co.term[q]
  BY <1>1, WithTermIs
<1>4. Sound(mid)
  BY <1>1, TermSound DEF EmptyTerm
<1>5. ClearTerm(co, r) = ClearTracking(mid, r)
  BY DEF ClearTerm, ClearTracking
<1> HIDE DEF mid
<1>6. Sound(ClearTracking(mid, r)) /\ ClearTracking(mid, r).term = mid.term
  BY <1>4, TrackingSound
<1>7. QED
  BY <1>2, <1>3, <1>5, <1>6 DEF KeepsChat, EmptyTerm

\* ensureRunState.
LEMMA KnownSound ==
    ASSUME NEW co, Sound(co), NEW r \in Runs
    PROVE  /\ Sound(Known(co, r))
           /\ Known(co, r).closed = co.closed /\ Known(co, r).timer = co.timer
           /\ \A q \in Runs : /\ Known(co, r).term[q].seen = co.term[q].seen
                              /\ Known(co, r).term[q].by = co.term[q].by
                              /\ Known(co, r).term[q].seq = co.term[q].seq
<1> DEFINE t == [known |-> TRUE, seen |-> co.term[r].seen,
                 seq |-> co.term[r].seq, by |-> co.term[r].by]
<1>1. co \in Coordinator /\ t \in Term
  BY SoundAt DEF Term
<1>2. t.seen = co.term[r].seen /\ t.seq = co.term[r].seq /\ t.by = co.term[r].by
  OBVIOUS
<1>3. Known(co, r) = WithTerm(co, r, t)
  BY DEF Known
<1> HIDE DEF t
<1>4. Sound(WithTerm(co, r, t))
  BY <1>1, <1>2, TermSound, SoundAt
<1>5. QED
  BY <1>1, <1>2, <1>3, <1>4, WithTermIs

\* A lifecycle start or error cancels the fallback of its run.
LEMMA CancelSound ==
    ASSUME NEW co, Sound(co), NEW r \in Runs
    PROVE  /\ Sound(CancelFallback(co, r)) /\ KeepsChat(co, CancelFallback(co, r))
           /\ \A q \in Runs : CancelFallback(co, r).term[q].seen => co.term[q].seen
<1>1. CASE ~Pending(co, r)
  BY <1>1 DEF CancelFallback, KeepsChat
<1>2. CASE Pending(co, r) /\ (Committed(co, r) \/ co.term[r].seen)
  <2>1. CancelFallback(co, r) = ClearTracking(co, r)
    BY <1>2 DEF CancelFallback, ClearTracking
  <2>2. QED
    BY <2>1, TrackingSound DEF KeepsChat
<1>3. CASE Pending(co, r) /\ ~(Committed(co, r) \/ co.term[r].seen)
  BY <1>3, ClearTermSound DEF CancelFallback
<1>4. QED
  BY <1>1, <1>2, <1>3

\* Closing a run.
LEMMA CloseSound ==
    ASSUME NEW co, Sound(co), NEW r \in Runs
    PROVE  Sound(Close(co, r)) /\ Close(co, r).term = co.term
<1> DEFINE new == Close(co, r)
<1>1. co \in Coordinator
  BY SoundAt
<1>2. /\ new \in Coordinator /\ new.timer[r] = None
      /\ \A q \in Runs \ {r} : new.timer[q] = co.timer[q]
      /\ new.closed = co.closed \cup {r} /\ new.expired = co.expired \ {r}
      /\ new.term = co.term
  BY <1>1, CloseIs
<1> HIDE DEF new
<1>3. Sound(new)
  BY <1>2, SoundAt, OneRunSound
<1>4. QED
  BY <1>2, <1>3 DEF new

\* Pruning keeps the record of every run that has not expired.
LEMMA PruneSound ==
    ASSUME NEW co, Sound(co)
    PROVE  /\ Sound(Prune(co))
           /\ \A r \in Runs \ co.expired : Prune(co).term[r] = co.term[r]
           /\ \A r \in Runs : Prune(co).term[r].seen => co.term[r].seen
<1> DEFINE new == Prune(co)
<1>1. co \in Coordinator /\ co.closed \subseteq Runs
  BY DEF Sound, Coordinator
<1>2. /\ new \in Coordinator
      /\ new.closed = co.closed \ co.expired /\ new.expired = {}
      /\ \A r \in Runs :
            /\ new.term[r] = IF r \in co.expired THEN EmptyTerm ELSE co.term[r]
            /\ new.timer[r] = IF r \in co.expired THEN None ELSE co.timer[r]
  BY <1>1, PruneIs
<1> HIDE DEF new
<1>3. ASSUME NEW r \in new.closed PROVE new.timer[r] = None
  BY <1>1, <1>2 DEF Sound
<1>4. ASSUME NEW r \in Runs
      PROVE  /\ new.term[r].seen \/ new.term[r].by # "none" => r \in new.closed
             /\ new.term[r].by = "chat" \/ new.term[r].seq # 0 => new.term[r].seen
             /\ new.term[r].seen => co.term[r].seen
  BY <1>2, SoundAt DEF EmptyTerm
<1>5. QED
  BY <1>2, <1>3, <1>4 DEF Sound, new

\* A stale final finds the run's chat final already recorded, so that
\* recording it again changes nothing but the timer.
LEMMA StaleSound ==
    ASSUME NEW co, Sound(co), NEW r \in Runs, NEW seq \in 0..MaxSeq,
           StaleTerminal(co, r, seq)
    PROVE  /\ Sound(FinalSeen(co, r)) /\ KeepsChat(co, FinalSeen(co, r))
           /\ \A q \in Runs : FinalSeen(co, r).term[q].seen => co.term[q].seen
<1> DEFINE t == [known |-> TRUE, seen |-> TRUE, seq |-> co.term[r].seq, by |-> co.term[r].by]
           mid == WithTerm(co, r, t)
<1>1. co \in Coordinator /\ t \in Term
  BY SoundAt DEF Term
<1>2. co.term[r].seen /\ r \in co.closed
  BY SoundAt DEF StaleTerminal
<1>3. t.seen /\ t.seq = co.term[r].seq /\ t.by = co.term[r].by
  OBVIOUS
<1>4. FinalSeen(co, r) = ClearTracking(mid, r)
  BY DEF FinalSeen, ClearTracking
<1> HIDE DEF t
<1>5. mid.term[r] = t /\ \A q \in Runs \ {r} : mid.term[q] = co.term[q]
  BY <1>1, WithTermIs
<1>6. Sound(mid)
  BY <1>1, <1>2, <1>3, TermSound
<1> HIDE DEF mid
<1>7. Sound(ClearTracking(mid, r)) /\ ClearTracking(mid, r).term = mid.term
  BY <1>6, TrackingSound
<1>8. QED
  BY <1>2, <1>3, <1>4, <1>5, <1>7 DEF KeepsChat

\* Committing a run and closing it in the same step: what chat finals and
\* lifecycle fallbacks have in common.
LEMMA CommitCloseSound ==
    ASSUME NEW co, Sound(co), NEW r \in Runs, NEW u \in Term,
           u.by = "chat" \/ u.seq # 0 => u.seen
    PROVE  LET new == Close(WithTerm(co, r, u), r) IN
           /\ Sound(new) /\ r \in new.closed /\ new.term[r] = u
           /\ \A q \in Runs \ {r} : new.term[q] = co.term[q]
<1> DEFINE mid == WithTerm(co, r, u)
           new == Close(mid, r)
<1>1. co \in Coordinator
  BY SoundAt
<1>2. /\ mid \in Coordinator /\ mid.term[r] = u
      /\ \A q \in Runs \ {r} : mid.term[q] = co.term[q]
      /\ mid.closed = co.closed /\ mid.expired = co.expired /\ mid.timer = co.timer
  BY <1>1, WithTermIs
<1> HIDE DEF mid
<1>3. /\ new \in Coordinator /\ new.timer[r] = None
      /\ \A q \in Runs \ {r} : new.timer[q] = mid.timer[q]
      /\ new.closed = mid.closed \cup {r} /\ new.expired = mid.expired \ {r}
      /\ new.term = mid.term
  BY <1>2, CloseIs
<1> HIDE DEF new
<1>4. Sound(new)
  BY <1>2, <1>3, OneRunSound
<1>5. QED
  BY <1>2, <1>3, <1>4 DEF new, mid

\* A final that is taken commits the run with its sequence number and closes
\* it; a committed sequence number never goes back.
LEMMA FinalSound ==
    ASSUME NEW co, Sound(co), NEW r \in Runs, NEW seq \in 0..MaxSeq,
           ~StaleTerminal(co, r, seq)
    PROVE  LET new == Close(Commit(FinalSeen(co, r), r, "chat", seq), r) IN
           /\ Sound(new) /\ r \in new.closed
           /\ \A q \in Runs \ {r} : new.term[q] = co.term[q]
           /\ new.term[r].by = "chat" /\ new.term[r].seq >= seq
           /\ co.term[r].by = "chat" => seq >= co.term[r].seq
<1> DEFINE t == [known |-> TRUE, seen |-> TRUE, seq |-> co.term[r].seq, by |-> co.term[r].by]
           u == [known |-> TRUE, seen |-> TRUE,
                 seq |-> IF seq # 0 THEN seq ELSE co.term[r].seq, by |-> "chat"]
<1>1. co \in Coordinator /\ co.term[r] \in Term /\ co.term[r].seq \in Nat
  BY SoundAt, RunTerminalAssumption DEF Term
<1>2. t \in Term /\ u \in Term
  BY <1>1 DEF Term, Source
<1>3. Commit(FinalSeen(co, r), r, "chat", seq) = WithTimer(WithTerm(co, r, u), r, None)
  <2>1. FinalSeen(co, r).term[r] = t
    BY <1>1, <1>2 DEF FinalSeen, WithTimer, WithTerm, Coordinator
  <2>2. FinalSeen(co, r).term[r].seq = co.term[r].seq
    BY <2>1
  <2>3. (FinalSeen(co, r).term[r].seen \/ "chat" = "chat") = TRUE
    OBVIOUS
  <2>4. Commit(FinalSeen(co, r), r, "chat", seq) = WithTerm(FinalSeen(co, r), r, u)
    BY <2>2, <2>3 DEF Commit
  <2>5. WithTerm(FinalSeen(co, r), r, u) = WithTimer(WithTerm(co, r, u), r, None)
    <3>1. [[co.term EXCEPT ![r] = t] EXCEPT ![r] = u] = [co.term EXCEPT ![r] = u]
      <4>1. co.term \in [Runs -> Term]
        BY <1>1 DEF Coordinator
      <4> HIDE DEF t, u
      <4>2. QED
        BY <4>1
    <3> HIDE DEF u
    <3>2. QED
      BY <3>1 DEF WithTerm, WithTimer, FinalSeen
  <2>6. QED
    BY <2>4, <2>5
<1>4. Close(WithTimer(WithTerm(co, r, u), r, None), r) = Close(WithTerm(co, r, u), r)
  <2>1. [[co.timer EXCEPT ![r] = None] EXCEPT ![r] = None] = [co.timer EXCEPT ![r] = None]
    <3>1. co.timer \in [Runs -> MaybeRun]
      BY <1>1 DEF Coordinator
    <3>2. QED
      BY <3>1
  <2> HIDE DEF u
  <2>2. QED
    BY <2>1 DEF Close, ClearTracking, MarkClosed, WithTimer, WithTerm
<1>5. u.by = "chat" /\ u.seen /\ u.seq >= seq
  BY <1>1
<1>6. co.term[r].by = "chat" => seq >= co.term[r].seq
  BY <1>1 DEF StaleTerminal, Committed
<1> HIDE DEF u
<1>7. QED
  BY <1>2, <1>3, <1>4, <1>5, <1>6, CommitCloseSound

\* A fallback that commits, of a run without a chat final.
LEMMA FallbackSound ==
    ASSUME NEW co, Sound(co), NEW r \in Runs, ~co.term[r].seen
    PROVE  LET new == Close(Commit(WithTimer(co, r, None), r, "fallback", 0), r) IN
           /\ Sound(new)
           /\ \A q \in Runs \ {r} : new.term[q] = co.term[q]
           /\ new.term[r].seen = co.term[r].seen
<1> DEFINE mid == WithTimer(co, r, None)
           u == [known |-> TRUE, seen |-> mid.term[r].seen \/ "fallback" = "chat",
                 seq |-> mid.term[r].seq, by |-> "fallback"]
<1>1. Sound(mid) /\ mid.term = co.term
  BY TimerSound DEF MaybeRun
<1>2. Commit(mid, r, "fallback", 0) = WithTerm(mid, r, u)
  BY DEF Commit
<1>3. co.term[r] \in Term /\ co.term[r].seq = 0
  BY SoundAt, RunTerminalAssumption DEF Term
<1>4. u \in Term /\ u.seen = co.term[r].seen /\ (u.by = "chat" \/ u.seq # 0 => u.seen)
  <2>1. (mid.term[r].seen \/ "fallback" = "chat") = FALSE
    BY <1>1
  <2>2. u = [known |-> TRUE, seen |-> FALSE, seq |-> 0, by |-> "fallback"]
    BY <1>1, <1>3, <2>1
  <2>3. co.term[r].seen = FALSE
    BY <1>3 DEF Term
  <2>4. [known |-> TRUE, seen |-> FALSE, seq |-> 0, by |-> "fallback"] \in Term
    BY RunTerminalAssumption DEF Term, Source
  <2> HIDE DEF u, mid
  <2>5. u \in Term
    BY <2>2, <2>4
  <2>6. u.seen = FALSE /\ u.by = "fallback" /\ u.seq = 0
    BY <2>2
  <2>7. QED
    BY <2>3, <2>5, <2>6
<1> HIDE DEF u, mid
<1>5. QED
  BY <1>1, <1>2, <1>4, CommitCloseSound DEF mid

-----------------------------------------------------------------------------
(* What a step does to the bookkeeping of Studio.                    *)

\* Chat commits outlive every step but the loss of the whole record, and only
\* a step that drops the pending live patch records a chat final.
CommitsStay ==
    \A q \in Runs \ forgotten' :
        coord.term[q].by = "chat" => /\ coord'.term[q].by = "chat"
                                     /\ coord'.term[q].seq >= coord.term[q].seq
SeenDropsPatch ==
    \A q \in Runs : coord'.term[q].seen => coord.term[q].seen \/ pend' = NoPatch
SoundStep == Sound(coord') /\ CommitsStay /\ SeenDropsPatch

\* A step that keeps the agreement and what the chat has reported is sound.
LEMMA KeptIsSound ==
    ASSUME Sound(coord), Sound(coord'), KeepsChat(coord, coord'),
           \A q \in Runs : coord'.term[q].seen => coord.term[q].seen
    PROVE  SoundStep
<1>1. \A q \in Runs : coord.term[q].seq \in Nat
  BY SoundAt, RunTerminalAssumption DEF Term
<1>2. QED
  BY <1>1 DEF SoundStep, CommitsStay, SeenDropsPatch, KeepsChat

\* The same for a handler, which prunes first.
LEMMA HandledIsSound ==
    ASSUME Sound(coord), NEW co, Handled(co), Sound(co), KeepsChat(Prune(coord), co),
           (\A q \in Runs : co.term[q].seen => Prune(coord).term[q].seen) \/ pend' = NoPatch
    PROVE  SoundStep
<1>1. \A q \in Runs : coord.term[q].seq \in Nat
  BY SoundAt, RunTerminalAssumption DEF Term
<1>2. \A q \in Runs \ forgotten' : Prune(coord).term[q] = coord.term[q]
  BY PruneSound DEF Handled
<1>3. coord' = co
  BY DEF Handled
<1>4. CommitsStay
  BY <1>1, <1>2, <1>3 DEF CommitsStay, KeepsChat
<1>5. SeenDropsPatch
  BY <1>3, PruneSound DEF SeenDropsPatch
<1>6. QED
  BY <1>3, <1>4, <1>5 DEF SoundStep

\* Dropping what is tracked of a run, with or without pruning first.
LEMMA TrackedIsSound ==
    ASSUME Sound(coord), NEW r \in Runs,
           \/ Handled(Prune(coord)) \/ Handled(ClearTracking(Prune(coord), r))
           \/ coord' = ClearTracking(coord, r) \/ coord' = coord
    PROVE  SoundStep
<1>1. Sound(Prune(coord)) /\ KeepsChat(Prune(coord), Prune(coord))
  BY PruneSound DEF KeepsChat
<1>2. /\ Sound(ClearTracking(Prune(coord), r))
      /\ ClearTracking(Prune(coord), r).term = Prune(coord).term
  BY <1>1, TrackingSound
<1>3. CASE Handled(Prune(coord))
  BY <1>1, <1>3, HandledIsSound
<1>4. CASE Handled(ClearTracking(Prune(coord), r))
  BY <1>2, <1>4, HandledIsSound DEF KeepsChat
<1>5. CASE coord' = ClearTracking(coord, r)
  BY <1>5, TrackingSound, KeptIsSound DEF KeepsChat
<1>6. CASE coord' = coord
  BY <1>6, KeptIsSound DEF KeepsChat
<1>7. QED
  BY <1>3, <1>4, <1>5, <1>6

\* A taken chat final.
LEMMA FinalIsSound ==
    ASSUME Sound(coord), NEW r \in Runs, NEW seq \in 0..MaxSeq,
           ~StaleTerminal(Prune(coord), r, seq), pend' = NoPatch,
           Handled(Close(Commit(FinalSeen(Prune(coord), r), r, "chat", seq), r))
    PROVE  /\ SoundStep
           /\ coord'.term[r].by = "chat" /\ coord'.term[r].seq >= seq
           /\ r \notin forgotten' /\ coord.term[r].by = "chat" => seq >= coord.term[r].seq
<1>1. \A q \in Runs : coord.term[q].seq \in Nat
  BY SoundAt, RunTerminalAssumption DEF Term
<1>2. Sound(Prune(coord)) /\ \A q \in Runs \ forgotten' : Prune(coord).term[q] = coord.term[q]
  BY PruneSound DEF Handled
<1>3. /\ Sound(coord')
      /\ \A q \in Runs \ {r} : coord'.term[q] = Prune(coord).term[q]
      /\ coord'.term[r].by = "chat" /\ coord'.term[r].seq >= seq
      /\ Prune(coord).term[r].by = "chat" => seq >= Prune(coord).term[r].seq
  BY <1>2, FinalSound DEF Handled
<1>4. coord'.term[r].seq \in Nat /\ seq \in Nat
  BY <1>3, SoundAt, RunTerminalAssumption DEF Term
<1>5. CommitsStay
  BY <1>1, <1>2, <1>3, <1>4 DEF CommitsStay
<1>6. QED
  BY <1>2, <1>3, <1>5 DEF SoundStep, SeenDropsPatch

\* Every step keeps the bookkeeping sound.
LEMMA StepSound ==
    ASSUME TypeOK, Sound(coord), [Next]_vars
    PROVE  SoundStep
<1> DEFINE co == Prune(coord)
<1>0. Sound(co) /\ KeepsChat(co, co)
  BY PruneSound DEF KeepsChat
<1> HIDE DEF co
<1>1. ASSUME NEW r \in Runs, ChatDelta(r) PROVE SoundStep
  BY <1>1, TrackedIsSound DEF ChatDelta, co
<1>2. ASSUME NEW r \in Runs, ChatEcho(r) PROVE SoundStep
  BY <1>2, TrackedIsSound DEF ChatEcho, co
<1>3. ASSUME NEW r \in Runs, NEW seq \in 0..MaxSeq, ChatFinal(r, seq) PROVE SoundStep
  <2>1. CASE ActiveElsewhere(r) /\ Handled(ClearTracking(co, r))
    BY <2>1, TrackedIsSound DEF co
  <2>2. CASE StaleTerminal(co, r, seq) /\ Handled(FinalSeen(co, r))
    BY <1>0, <2>2, StaleSound, HandledIsSound DEF co
  <2>3. CASE /\ ~StaleTerminal(co, r, seq)
             /\ ClosesRun(Commit(FinalSeen(co, r), r, "chat", seq), r)
    BY <2>3, FinalIsSound DEF ClosesRun, co
  <2>4. QED
    BY <1>3, <2>1, <2>2, <2>3 DEF ChatFinal, co
<1>4. ASSUME NEW r \in Runs, NEW status \in {"idle", "error"}, ChatStopped(r, status)
      PROVE SoundStep
  <2>1. CASE Handled(ClearTracking(co, r))
    BY <2>1, TrackedIsSound DEF co
  <2>2. CASE ClosesRun(co, r)
    BY <1>0, <2>2, CloseSound, HandledIsSound DEF ClosesRun, KeepsChat, co
  <2>3. QED
    BY <1>4, <2>1, <2>2 DEF ChatStopped, co
<1>5. ASSUME NEW r \in Runs, AgentDelta(r) PROVE SoundStep
  BY <1>5, TrackedIsSound DEF AgentDelta, AfterIgnored, co
<1>6. ASSUME NEW r \in Runs, LifecycleStart(r) PROVE SoundStep
  <2> DEFINE known == Known(co, r)
  <2>1. Sound(known) /\ \A q \in Runs : /\ known.term[q].seen = co.term[q].seen
                                        /\ known.term[q].by = co.term[q].by
                                        /\ known.term[q].seq = co.term[q].seq
    BY <1>0, KnownSound
  <2> HIDE DEF known
  <2>2. /\ Sound(CancelFallback(known, r)) /\ KeepsChat(known, CancelFallback(known, r))
        /\ \A q \in Runs : CancelFallback(known, r).term[q].seen => known.term[q].seen
    BY <2>1, CancelSound
  <2>3. KeepsChat(co, CancelFallback(known, r))
    BY <2>1, <2>2 DEF KeepsChat
  <2>4. Handled(CancelFallback(known, r))
    BY <1>6 DEF LifecycleStart, co, known
  <2>5. QED
    BY <2>1, <2>2, <2>3, <2>4, HandledIsSound DEF co
<1>7. ASSUME NEW r \in Runs, LifecycleEnd(r) PROVE SoundStep
  <2>1. CASE Handled(AfterIgnored(co, r))
    BY <2>1, TrackedIsSound DEF AfterIgnored, co
  <2>2. CASE ~Ignored(co, r) /\ Handled(WithTimer(Known(co, r), r, snap.stream))
    <3> DEFINE known == Known(co, r)
    <3>1. /\ Sound(known) /\ known.closed = co.closed
          /\ \A q \in Runs : /\ known.term[q].seen = co.term[q].seen
                             /\ known.term[q].by = co.term[q].by
                             /\ known.term[q].seq = co.term[q].seq
      BY <1>0, KnownSound
    <3>2. snap.stream \in MaybeRun /\ r \notin co.closed
      BY <2>2 DEF TypeOK, Agent, Ignored, Closed
    <3> HIDE DEF known
    <3>3. /\ Sound(WithTimer(known, r, snap.stream))
          /\ WithTimer(known, r, snap.stream).term = known.term
      BY <3>1, <3>2, TimerSound
    <3>4. KeepsChat(co, WithTimer(known, r, snap.stream))
      BY <3>1, <3>3 DEF KeepsChat
    <3>5. QED
      BY <2>2, <3>1, <3>3, <3>4, HandledIsSound DEF co, known
  <2>3. CASE /\ pend' = NoPatch
             /\ Handled(Close(IF co.term[r].seen THEN CancelFallback(co, r)
                              ELSE ClearTerm(co, r), r))
    <3> DEFINE mid == IF co.term[r].seen THEN CancelFallback(co, r) ELSE ClearTerm(co, r)
    <3>1. Sound(mid) /\ KeepsChat(co, mid)
      BY <1>0, CancelSound, ClearTermSound
    <3> HIDE DEF mid
    <3>2. Sound(Close(mid, r)) /\ KeepsChat(co, Close(mid, r))
      BY <3>1, CloseSound DEF KeepsChat
    <3>3. QED
      BY <2>3, <3>2, HandledIsSound DEF co, mid
  <2>4. QED
    BY <1>7, <2>1, <2>2, <2>3 DEF LifecycleEnd, co
<1>8. ASSUME NEW r \in Runs, LifecycleError(r) PROVE SoundStep
  <2>1. CASE Handled(AfterIgnored(co, r))
    BY <2>1, TrackedIsSound DEF AfterIgnored, co
  <2>2. CASE pend' = NoPatch /\ Handled(Close(CancelFallback(Known(co, r), r), r))
    <3> DEFINE known == Known(co, r)
               mid == CancelFallback(known, r)
    <3>1. Sound(known) /\ KeepsChat(co, known)
      BY <1>0, KnownSound DEF KeepsChat
    <3> HIDE DEF known
    <3>2. Sound(mid) /\ KeepsChat(co, mid)
      BY <3>1, CancelSound DEF KeepsChat
    <3> HIDE DEF mid
    <3>3. Sound(Close(mid, r)) /\ KeepsChat(co, Close(mid, r))
      BY <3>2, CloseSound DEF KeepsChat
    <3>4. QED
      BY <2>2, <3>3, HandledIsSound DEF co, mid, known
  <2>3. QED
    BY <1>8, <2>1, <2>2 DEF LifecycleError, co
<1>9. ASSUME NEW r \in Runs, FallbackFires(r) PROVE SoundStep
  <2>1. CASE coord' = WithTimer(coord, r, None)
    BY <2>1, TrackedIsSound DEF ClearTracking
  <2>2. CASE /\ ~coord.term[r].seen
             /\ coord' = Close(Commit(WithTimer(coord, r, None), r, "fallback", 0), r)
    <3>1. /\ Sound(coord') /\ coord'.term[r].seen = coord.term[r].seen
          /\ \A q \in Runs \ {r} : coord'.term[q] = coord.term[q]
      BY <2>2, FallbackSound
    <3>2. coord.term[r].by # "chat"
      BY <2>2, SoundAt
    <3>3. QED
      BY <3>1, <3>2, KeptIsSound DEF KeepsChat
  <2>3. QED
    BY <1>9, <2>1, <2>2 DEF FallbackFires
<1>10. ASSUME NEW r \in Runs, WindowElapses(r) PROVE SoundStep
  <2>1. Sound(coord')
    BY <1>10 DEF WindowElapses, Sound, Coordinator
  <2>2. QED
    BY <1>10, <2>1, KeptIsSound DEF WindowElapses, KeepsChat
<1>11. ASSUME Dispose PROVE SoundStep
  BY <1>11, RunTerminalAssumption DEF Dispose, SoundStep, Sound, CommitsStay, SeenDropsPatch,
     NoCoordination, Coordinator, EmptyTerm, Term, Source, MaybeRun
<1>12. ASSUME NEW m \in Local, UserSends(m) PROVE SoundStep
  BY <1>12, TrackedIsSound, AgentRunAssumption DEF UserSends, Sends
<1>13. ASSUME Render PROVE SoundStep
  <2>1. CASE QueueReady(agent)
    <3>1. Head(agent.queue) \in Runs
      BY <2>1, AgentRunAssumption DEF QueueReady, TypeOK, Agent
    <3>2. QED
      BY <1>13, <2>1, <3>1, TrackedIsSound DEF Render, Sends
  <2>2. CASE ~QueueReady(agent)
    BY <1>13, <2>2, KeptIsSound DEF Render, KeepsChat
  <2>3. QED
    BY <2>1, <2>2
<1>14. ASSUME NewSession PROVE SoundStep
  <2>1. reset.run # None => reset.run \in Runs
    BY DEF TypeOK, MaybeRun
  <2>2. CASE coord' = coord
    BY <2>2, KeptIsSound DEF KeepsChat
  <2>3. CASE reset.run # None /\ coord' = ClearTracking(coord, reset.run)
    BY <2>1, <2>3, TrackedIsSound
  <2>4. QED
    BY <1>14, <2>2, <2>3
    DEF NewSession, NewSessionAsked, NewSessionDone, NewSessionFailed
<1>15. ASSUME ReconcileApplies PROVE SoundStep
  <2>1. recon.run \in Runs
    BY <1>15 DEF ReconcileApplies, TypeOK, MaybeRun
  <2>2. QED
    BY <1>15, <2>1, TrackedIsSound DEF ReconcileApplies
<1>16. ASSUME UNCHANGED coord PROVE SoundStep
  BY <1>16, KeptIsSound DEF KeepsChat
<1>17. ASSUME NEW m \in Local, Reply(m) PROVE UNCHANGED coord
  BY <1>17 DEF Reply, ReplyStarted, ReplyImmediate, ReplyFailed, Answered
<1>18. ASSUME NEW r \in Runs, Gateway(r) PROVE UNCHANGED coord
  BY <1>18 DEF Gateway, GatewayStarts, GatewayEnds
<1>19. ASSUME NEW i \in DOMAIN agent.queue, RemoveQueued(i) PROVE UNCHANGED coord
  BY <1>19 DEF RemoveQueued
<1>20. ASSUME FlushFrame \/ ReconcileAsks \/ ReconcileAnswered \/ ReconcileRejected
       PROVE  UNCHANGED coord
  BY <1>20 DEF FlushFrame, ReconcileAsks, ReconcileAnswered, ReconcileRejected
<1>21. QED
  BY <1>1, <1>2, <1>3, <1>4, <1>5, <1>6, <1>7, <1>8, <1>9, <1>10, <1>11, <1>12, <1>13,
     <1>14, <1>15, <1>16, <1>17, <1>18, <1>19, <1>20
  DEF Next, ChatEvent, AgentEvent, Reconcile, vars

-----------------------------------------------------------------------------
(* Type correctness.                                                       *)

\* A new agent starts with nothing tracked.
LEMMA InitSound == Init => TypeOK /\ Sound(coord)
<1> SUFFICES ASSUME Init PROVE TypeOK /\ Sound(coord)
  OBVIOUS
<1>1. NoCoordination \in Coordinator
  BY RunTerminalAssumption
  DEF NoCoordination, Coordinator, EmptyTerm, Term, Source, MaybeRun
<1>2. Sound(coord)
  BY <1>1 DEF Init, Sound, NoCoordination, EmptyTerm
<1>3. final \in [Runs -> Entry]
  BY RunTerminalAssumption DEF Init, Entry, NoEntry, MaybeRun
<1>4. agent \in Agent /\ snap \in Agent
  BY DEF Init, Agent, Status, MaybeRun
<1>5. pend \in Patch
  BY DEF Init, Patch, NoPatch, MaybeRun
<1>6. QED
  BY <1>1, <1>2, <1>3, <1>4, <1>5
  DEF TypeOK, Init, NoCoordination, NoReconcile, NoReset, NoPatch, MaybeRun, Stages

\* Agents are built field by field.
LEMMA AgentType ==
    ASSUME NEW status \in Status, NEW run \in MaybeRun, NEW stream \in MaybeRun,
           NEW queue \in Seq(Local)
    PROVE  [status |-> status, run |-> run, stream |-> stream, queue |-> queue] \in Agent
BY DEF Agent

\* The patches of the store keep its type.
LEMMA PatchTypes ==
    ASSUME NEW a \in Agent
    PROVE  /\ \A r \in Runs : Started(a, r) \in Agent
           /\ \A status \in {"idle", "error"} : Settled(a, status) \in Agent
           /\ StreamCleared(a) \in Agent
BY DEF Agent, Status, MaybeRun, Started, Settled, StreamCleared

\* A queued patch names a run and merges into one that does.
LEMMA MergeType ==
    ASSUME NEW old \in Patch, NEW r \in Runs, NEW running \in BOOLEAN, NEW text \in BOOLEAN
    PROVE  LET new == [run |-> r, running |-> running, text |-> text] IN
           /\ Merge(old, new) \in Patch
           /\ Merge(old, new).run = r
<1> DEFINE new == [run |-> r, running |-> running, text |-> text]
<1>1. new \in Patch
  BY DEF Patch, MaybeRun
<1>2. (old.running \/ new.running) \in BOOLEAN /\ (old.text \/ new.text) \in BOOLEAN
  OBVIOUS
<1> DEFINE both == [run |-> r, running |-> old.running \/ new.running,
                    text |-> old.text \/ new.text]
<1>3. both \in Patch
  <2> DEFINE p == (old.running \/ new.running)
             q == (old.text \/ new.text)
  <2>1. p \in BOOLEAN /\ q \in BOOLEAN
    OBVIOUS
  <2> HIDE DEF p, q
  <2>2. [run |-> r, running |-> p, text |-> q] \in Patch
    BY <2>1 DEF Patch, MaybeRun
  <2>3. QED
    BY <2>2 DEF p, q
<1>4. QED
  BY <1>1, <1>3 DEF Merge

\* Transcript entries.
LEMMA EntryTypes ==
    ASSUME final \in [Runs -> Entry], NEW r \in Runs
    PROVE  /\ \A seq \in 0..MaxSeq :
                 Replaced(r, [text |-> r, confirmed |-> TRUE, seq |-> seq]) \in [Runs -> Entry]
           /\ \A text \in MaybeRun :
                 Replaced(r, [text |-> text, confirmed |-> FALSE, seq |-> 0]) \in [Runs -> Entry]
           /\ [q \in Runs |-> NoEntry] \in [Runs -> Entry]
<1>1. NoEntry \in Entry
  BY RunTerminalAssumption DEF NoEntry, Entry, MaybeRun
<1>2. \A seq \in 0..MaxSeq : [text |-> r, confirmed |-> TRUE, seq |-> seq] \in Entry
  BY DEF Entry, MaybeRun
<1>3. \A text \in MaybeRun : [text |-> text, confirmed |-> FALSE, seq |-> 0] \in Entry
  BY RunTerminalAssumption DEF Entry
<1>4. QED
  BY <1>1, <1>2, <1>3 DEF Replaced

\* A send leaves a running agent, whichever run it belongs to.
LEMMA SendsType ==
    ASSUME TypeOK, NEW base \in Agent, NEW m \in Local, NEW byQueue \in BOOLEAN,
           Sends(base, m, byQueue)
    PROVE  /\ agent' \in Agent /\ pend' = NoPatch /\ final' \in [Runs -> Entry]
           /\ sending' \subseteq Local /\ queueSend' \in Local \cup {None}
           /\ gw' \in [Runs -> Stages]
<1>1. m \in Runs
  BY AgentRunAssumption
<1>2. agent' \in Agent
  BY <1>1, AgentType DEF Sends, Agent, Status, MaybeRun
<1>3. final' \in [Runs -> Entry]
  BY <1>1, EntryTypes DEF Sends, TypeOK
<1>4. QED
  BY <1>1, <1>2, <1>3 DEF Sends, TypeOK, Stages

\* Every step keeps the types (the coordinator's by StepSound).
LEMMA StepType ==
    ASSUME TypeOK, Sound(coord), [Next]_vars
    PROVE  TypeOK'
<1>1. coord' \in Coordinator /\ coord'.expired \subseteq coord'.closed
  BY StepSound DEF SoundStep, Sound
<1> DEFINE Rest == /\ agent' \in Agent /\ snap' \in Agent
                   /\ pend' \in Patch /\ (pend'.run = None => pend' = NoPatch)
                   /\ final' \in [Runs -> Entry]
                   /\ sending' \subseteq Local
                   /\ queueSend' \in Local \cup {None}
                   /\ recon' \in [run : MaybeRun, decided : BOOLEAN]
                   /\ (recon'.decided => recon'.run # None)
                   /\ reset' \in [asked : BOOLEAN, run : MaybeRun]
                   /\ gw' \in [Runs -> Stages]
                   /\ forgotten' \subseteq Runs
<1>2. NoPatch \in Patch
  BY DEF NoPatch, Patch, MaybeRun
<1>3. coord.expired \subseteq Runs /\ None \in MaybeRun /\ None \notin Runs
  BY RunTerminalAssumption DEF Sound, Coordinator, MaybeRun
<1>4. agent \in Agent /\ snap \in Agent /\ pend \in Patch /\ final \in [Runs -> Entry]
  BY DEF TypeOK
<1>5. forgotten \cup coord.expired \subseteq Runs
  BY <1>3 DEF TypeOK
<1>6. ASSUME NEW r \in Runs, ChatDelta(r) PROVE Rest
  <2>1. pend' \in Patch /\ (pend'.run = None => pend' = NoPatch)
    <3>1. CASE pend' = pend
      BY <3>1 DEF TypeOK
    <3>2. CASE pend' # pend
      <4>1. PICK running \in BOOLEAN, text \in BOOLEAN :
               pend' = Merge(pend, [run |-> r, running |-> running, text |-> text])
        BY <1>6, <3>2 DEF ChatDelta
      <4>2. pend' \in Patch /\ pend'.run = r
        BY <1>4, <4>1, MergeType
      <4>3. QED
        BY <1>3, <4>2
    <3>3. QED
      BY <3>1, <3>2
  <2>2. QED
    BY <1>5, <1>6, <2>1 DEF ChatDelta, Handled, askVars, TypeOK
<1>7. ASSUME NEW r \in Runs, ChatEcho(r) PROVE Rest
  BY <1>5, <1>7 DEF ChatEcho, Handled, askVars, TypeOK
<1>8. ASSUME NEW r \in Runs, NEW seq \in 0..MaxSeq, ChatFinal(r, seq) PROVE Rest
  <2>1. agent' \in Agent
    BY <1>4, <1>8, PatchTypes DEF ChatFinal
  <2>2. final' \in [Runs -> Entry]
    BY <1>4, <1>8, EntryTypes DEF ChatFinal
  <2>3. QED
    BY <1>2, <1>5, <1>8, <2>1, <2>2 DEF ChatFinal, ClosesRun, Handled, askVars, TypeOK
<1>9. ASSUME NEW r \in Runs, NEW status \in {"idle", "error"}, ChatStopped(r, status)
      PROVE  Rest
  <2>1. agent' \in Agent
    BY <1>4, <1>9, PatchTypes DEF ChatStopped
  <2>2. QED
    BY <1>2, <1>5, <1>9, <2>1 DEF ChatStopped, ClosesRun, Handled, askVars, TypeOK
<1>10. ASSUME NEW r \in Runs, AgentDelta(r) PROVE Rest
  <2>1. pend' \in Patch /\ (pend'.run = None => pend' = NoPatch)
    <3>1. CASE pend' = pend
      BY <3>1 DEF TypeOK
    <3>2. CASE pend' # pend
      <4>1. PICK text \in BOOLEAN :
               pend' = Merge(pend, [run |-> r, running |-> TRUE, text |-> text])
        BY <1>10, <3>2 DEF AgentDelta
      <4>2. pend' \in Patch /\ pend'.run = r
        BY <1>4, <4>1, MergeType
      <4>3. QED
        BY <1>3, <4>2
    <3>3. QED
      BY <3>1, <3>2
  <2>2. QED
    BY <1>5, <1>10, <2>1 DEF AgentDelta, Handled, askVars, TypeOK
<1>11. ASSUME NEW r \in Runs, LifecycleStart(r) PROVE Rest
  BY <1>4, <1>5, <1>11, PatchTypes DEF LifecycleStart, Handled, askVars, TypeOK
<1>12. ASSUME NEW r \in Runs, LifecycleEnd(r) PROVE Rest
  <2>1. agent' \in Agent
    BY <1>4, <1>12, PatchTypes DEF LifecycleEnd
  <2>2. QED
    BY <1>2, <1>5, <1>12, <2>1 DEF LifecycleEnd, Handled, askVars, TypeOK
<1>13. ASSUME NEW r \in Runs, LifecycleError(r) PROVE Rest
  <2>1. agent' \in Agent
    BY <1>4, <1>13, PatchTypes DEF LifecycleError
  <2>2. QED
    BY <1>2, <1>5, <1>13, <2>1 DEF LifecycleError, Handled, askVars, TypeOK
<1>14. ASSUME NEW r \in Runs, FallbackFires(r) PROVE Rest
  <2>1. coord.timer[r] \in MaybeRun
    BY SoundAt
  <2>2. agent' \in Agent /\ final' \in [Runs -> Entry]
    BY <1>4, <1>14, <2>1, PatchTypes, EntryTypes DEF FallbackFires
  <2>3. QED
    BY <1>14, <2>2 DEF FallbackFires, askVars, TypeOK
<1>15. ASSUME NEW r \in Runs, WindowElapses(r) PROVE Rest
  BY <1>15 DEF WindowElapses, askVars, TypeOK
<1>16. ASSUME Dispose PROVE Rest
  BY <1>16 DEF Dispose, askVars, TypeOK
<1>17. ASSUME NEW m \in Local, UserSends(m) PROVE Rest
  <2>1. CASE Sends(agent, m, FALSE)
    BY <1>2, <1>4, <1>17, <2>1, SendsType DEF UserSends, TypeOK
  <2>2. CASE ~Sends(agent, m, FALSE)
    <3>1. agent' \in Agent
      <4>1. /\ agent.status \in Status /\ agent.run \in MaybeRun
            /\ agent.stream \in MaybeRun /\ Append(agent.queue, m) \in Seq(Local)
        BY <1>4 DEF Agent
      <4>2. agent' = [status |-> agent.status, run |-> agent.run,
                      stream |-> agent.stream, queue |-> Append(agent.queue, m)]
        BY <1>17, <2>2 DEF UserSends
      <4>3. QED
        BY <4>1, <4>2, AgentType
    <3>2. QED
      BY <1>17, <2>2, <3>1 DEF UserSends, TypeOK
  <2>3. QED
    BY <2>1, <2>2
<1>18. ASSUME Render PROVE Rest
  <2>1. CASE QueueReady(agent)
    <3> DEFINE base == [agent EXCEPT !.queue = Tail(agent.queue)]
    <3>1. Head(agent.queue) \in Local /\ base \in Agent
      <4>1. agent.queue \in Seq(Local) /\ agent.queue # <<>>
        BY <1>4, <2>1 DEF QueueReady, Agent
      <4>2. Head(agent.queue) \in Local /\ Tail(agent.queue) \in Seq(Local)
        BY <4>1
      <4>3. QED
        BY <1>4, <4>2 DEF Agent
    <3>2. Sends(base, Head(agent.queue), TRUE)
      BY <1>18, <2>1 DEF Render
    <3> HIDE DEF base
    <3>3. QED
      BY <1>2, <1>4, <1>18, <3>1, <3>2, SendsType DEF Render, TypeOK
  <2>2. CASE ~QueueReady(agent)
    BY <1>18, <2>2 DEF Render, TypeOK
  <2>3. QED
    BY <2>1, <2>2
<1>19. ASSUME FlushFrame PROVE Rest
  <2>1. agent' \in Agent
    BY <1>4, <1>19 DEF FlushFrame, Flushed, Agent, Patch, Status
  <2>2. QED
    BY <1>2, <1>19, <2>1 DEF FlushFrame, askVars, TypeOK
<1>20. ASSUME NEW m \in Local, Reply(m) PROVE Rest
  <2>1. agent' \in Agent
    BY <1>4, <1>20, PatchTypes DEF Reply, ReplyStarted, ReplyImmediate, ReplyFailed
  <2>2. gw' \in [Runs -> Stages]
    BY <1>20 DEF Reply, ReplyStarted, ReplyImmediate, ReplyFailed, TypeOK, Stages
  <2>3. QED
    BY <1>20, <2>1, <2>2
    DEF Reply, ReplyStarted, ReplyImmediate, ReplyFailed, Answered, TypeOK
<1>21. ASSUME NEW i \in DOMAIN agent.queue, RemoveQueued(i) PROVE Rest
  <2>1. agent.queue \in Seq(Local) /\ i \in 1..Len(agent.queue)
    BY <1>4, <1>21 DEF Agent
  <2>2. SubSeq(agent.queue, 1, i - 1) \in Seq(Local)
        /\ SubSeq(agent.queue, i + 1, Len(agent.queue)) \in Seq(Local)
    BY <2>1
  <2>3. agent' \in Agent
    BY <1>4, <1>21, <2>2 DEF RemoveQueued, Agent
  <2>4. QED
    BY <1>21, <2>3 DEF RemoveQueued, askVars, TypeOK
<1>22. ASSUME NewSessionAsked PROVE Rest
  <2>1. reset' \in [asked : BOOLEAN, run : MaybeRun]
    <3>1. snap.run \in MaybeRun
      BY <1>4 DEF Agent
    <3>2. QED
      BY <1>22, <3>1 DEF NewSessionAsked
  <2>2. QED
    BY <1>22, <2>1 DEF NewSessionAsked, TypeOK
<1>23. ASSUME NewSessionDone PROVE Rest
  <2>1. agent' \in Agent
    <3>1. <<>> \in Seq(Local) /\ "idle" \in Status
      BY DEF Status
    <3>2. QED
      BY <1>3, <1>23, <3>1, AgentType DEF NewSessionDone
  <2>2. final' \in [Runs -> Entry]
    <3>1. CASE Runs = {}
      BY <1>23, <3>1 DEF NewSessionDone
    <3>2. CASE Runs # {}
      BY <1>4, <1>23, <3>2, EntryTypes DEF NewSessionDone
    <3>3. QED
      BY <3>1, <3>2
  <2>3. NoReset \in [asked : BOOLEAN, run : MaybeRun]
    BY <1>3 DEF NoReset
  <2>4. QED
    BY <1>23, <2>1, <2>2, <2>3 DEF NewSessionDone, TypeOK
<1>24. ASSUME NewSessionFailed PROVE Rest
  <2>1. NoReset \in [asked : BOOLEAN, run : MaybeRun]
    BY <1>3 DEF NoReset
  <2>2. QED
    BY <1>24, <2>1 DEF NewSessionFailed, TypeOK
<1>25. NoReconcile \in [run : MaybeRun, decided : BOOLEAN] /\ ~NoReconcile.decided
  BY <1>3 DEF NoReconcile
<1>26. ASSUME ReconcileAsks PROVE Rest
  <2>1. snap.run \in MaybeRun
    BY <1>4 DEF Agent
  <2>2. recon' \in [run : MaybeRun, decided : BOOLEAN] /\ ~recon'.decided
    BY <1>26, <2>1 DEF ReconcileAsks
  <2>3. QED
    BY <1>26, <2>2 DEF ReconcileAsks, TypeOK
<1>27. ASSUME ReconcileAnswered PROVE Rest
  <2>1. recon.run \in MaybeRun /\ recon.run # None
    BY <1>27 DEF ReconcileAnswered, TypeOK
  <2>2. recon' \in [run : MaybeRun, decided : BOOLEAN] /\ (recon'.decided => recon'.run # None)
    <3>1. CASE recon' = NoReconcile
      BY <1>25, <3>1
    <3>2. CASE recon' = [run |-> recon.run, decided |-> TRUE]
      BY <2>1, <3>2
    <3>3. QED
      BY <1>27, <3>1, <3>2 DEF ReconcileAnswered
  <2>3. QED
    BY <1>27, <2>2 DEF ReconcileAnswered, TypeOK
<1>28. ASSUME ReconcileRejected PROVE Rest
  BY <1>25, <1>28 DEF ReconcileRejected, TypeOK
<1>29. ASSUME ReconcileApplies PROVE Rest
  <2>1. agent' \in Agent
    BY <1>4, <1>29, PatchTypes DEF ReconcileApplies
  <2>2. QED
    BY <1>25, <1>29, <2>1 DEF ReconcileApplies, TypeOK
<1>30. ASSUME NEW r \in Runs, Gateway(r) PROVE Rest
  BY <1>30 DEF Gateway, GatewayStarts, GatewayEnds, TypeOK, Stages
<1>31. ASSUME UNCHANGED vars PROVE Rest
  BY <1>31 DEF vars, TypeOK
<1>32. Rest
  <2> HIDE DEF Rest
  <2> QED
    BY <1>6, <1>7, <1>8, <1>9, <1>10, <1>11, <1>12, <1>13, <1>14, <1>15, <1>16, <1>17,
       <1>18, <1>19, <1>20, <1>21, <1>22, <1>23, <1>30, <1>31, <1>24, <1>26, <1>27, <1>28, <1>29
    DEF Next, ChatEvent, AgentEvent, NewSession, Reconcile
<1>33. QED
  BY <1>1, <1>32 DEF TypeOK

\* Every behaviour is type-correct and keeps the bookkeeping sound.
THEOREM TypeCorrect == Spec => []TypeOK
<1>1. TypeOK /\ Sound(coord) /\ [Next]_vars => (TypeOK /\ Sound(coord))'
  BY StepType, StepSound DEF SoundStep
<1>2. QED
  BY <1>1, InitSound, PTL DEF Spec

-----------------------------------------------------------------------------
(* Finals, fallbacks and live patches.                                    *)

\* A confirmed transcript entry is backed by the terminal record, which is
\* what lets the handler refuse older finals and fallbacks.
Backed ==
    \A r \in Runs \ forgotten :
        final[r].confirmed => /\ coord.term[r].by = "chat"
                              /\ final[r].seq <= coord.term[r].seq

IInv == TypeOK /\ Sound(coord) /\ NoFlushAfterFinal /\ Backed

\* The pending live patch is kept, dropped, or names a run that is open.
LEMMA PatchSteps ==
    ASSUME TypeOK, [Next]_vars
    PROVE  \/ pend' = pend
           \/ pend' = NoPatch
           \/ \E r \in Runs : /\ pend'.run = r
                              /\ coord' = Prune(coord) /\ r \notin coord'.closed
<1> DEFINE Goal == \/ pend' = pend
                   \/ pend' = NoPatch
                   \/ \E r \in Runs : /\ pend'.run = r
                                      /\ coord' = Prune(coord) /\ r \notin coord'.closed
<1>0. pend \in Patch
  BY DEF TypeOK
<1>1. ASSUME NEW r \in Runs, ChatDelta(r) PROVE Goal
  <2>1. CASE pend' = pend
    BY <2>1
  <2>2. CASE pend' # pend
    <3>1. PICK running \in BOOLEAN, text \in BOOLEAN :
             pend' = Merge(pend, [run |-> r, running |-> running, text |-> text])
      BY <1>1, <2>2 DEF ChatDelta
    <3>2. pend'.run = r
      BY <1>0, <3>1, MergeType
    <3>3. coord' = Prune(coord) /\ r \notin coord'.closed
      BY <1>1, <2>2 DEF ChatDelta, Handled, Closed
    <3>4. QED
      BY <3>2, <3>3
  <2>3. QED
    BY <2>1, <2>2
<1>2. ASSUME NEW r \in Runs, AgentDelta(r) PROVE Goal
  <2>1. CASE pend' = pend
    BY <2>1
  <2>2. CASE pend' # pend
    <3>1. PICK text \in BOOLEAN :
             pend' = Merge(pend, [run |-> r, running |-> TRUE, text |-> text])
      BY <1>2, <2>2 DEF AgentDelta
    <3>2. pend'.run = r
      BY <1>0, <3>1, MergeType
    <3>3. coord' = Prune(coord) /\ r \notin coord'.closed
      BY <1>2, <2>2 DEF AgentDelta, Handled, Ignored, Closed
    <3>4. QED
      BY <3>2, <3>3
  <2>3. QED
    BY <2>1, <2>2
<1>3. ASSUME NEW r \in Runs, LifecycleStart(r) \/ LifecycleEnd(r) \/ LifecycleError(r)
      PROVE  Goal
  BY <1>3 DEF LifecycleStart, LifecycleEnd, LifecycleError
<1>4. ASSUME NEW r \in Runs, NEW seq \in 0..MaxSeq, ChatFinal(r, seq) PROVE Goal
  BY <1>4 DEF ChatFinal, ClosesRun
<1>5. ASSUME NEW r \in Runs, NEW status \in {"idle", "error"}, ChatStopped(r, status)
      PROVE  Goal
  BY <1>5 DEF ChatStopped, ClosesRun
<1>6. ASSUME NEW r \in Runs, ChatEcho(r) \/ FallbackFires(r) \/ WindowElapses(r) \/ Gateway(r)
      PROVE  Goal
  BY <1>6 DEF ChatEcho, FallbackFires, WindowElapses, Gateway, GatewayStarts, GatewayEnds
<1>7. ASSUME NEW m \in Local, UserSends(m) \/ Reply(m) PROVE Goal
  BY <1>7 DEF UserSends, Sends, Reply, ReplyStarted, ReplyImmediate, ReplyFailed, Answered
<1>8. ASSUME NEW i \in DOMAIN agent.queue, RemoveQueued(i) PROVE Goal
  BY <1>8 DEF RemoveQueued
<1>9. ASSUME Render \/ FlushFrame \/ NewSession \/ Reconcile \/ Dispose PROVE Goal
  BY <1>9 DEF Render, Sends, FlushFrame, Dispose,
     NewSession, NewSessionAsked, NewSessionDone, NewSessionFailed,
     Reconcile, ReconcileAsks, ReconcileAnswered, ReconcileRejected, ReconcileApplies
<1>10. Goal
  <2> HIDE DEF Goal
  <2>1. CASE UNCHANGED vars
    BY <2>1 DEF vars, Goal
  <2>2. QED
    BY <1>1, <1>2, <1>3, <1>4, <1>5, <1>6, <1>7, <1>8, <1>9, <2>1 DEF Next, ChatEvent, AgentEvent
<1>11. QED
  BY <1>10

\* Every step keeps the pending live patch away from finished runs: a delta
\* only queues text of an open run, a final drops the queued patch.
LEMMA NoFlushStep ==
    ASSUME TypeOK, Sound(coord), NoFlushAfterFinal, [Next]_vars
    PROVE  NoFlushAfterFinal'
<1>1. SoundStep
  BY StepSound
<1>2. ASSUME NEW r \in Runs, coord'.term[r].seen PROVE pend'.run # r
  <2>1. CASE pend' = NoPatch
    BY <2>1, RunTerminalAssumption DEF NoPatch
  <2>2. CASE pend' = pend
    BY <1>1, <1>2, <2>1, <2>2 DEF SoundStep, SeenDropsPatch, NoFlushAfterFinal
  <2>3. CASE \E q \in Runs : pend'.run = q /\ q \notin coord'.closed
    <3>1. r \in coord'.closed
      BY <1>1, <1>2, SoundAt DEF SoundStep
    <3>2. QED
      BY <2>3, <3>1
  <2>4. QED
    BY <2>1, <2>2, <2>3, PatchSteps
<1>3. QED
  BY <1>2 DEF NoFlushAfterFinal

\* A transcript entry is kept or lost with the transcript, taken from a chat
\* final that is not stale, or posted by a fallback of a run without final.
Keeps == \A q \in Runs : final'[q] \in {final[q], NoEntry}
TakesFinal(r, seq) ==
    /\ final' = Replaced(r, [text |-> r, confirmed |-> TRUE, seq |-> seq])
    /\ coord'.term[r].by = "chat" /\ coord'.term[r].seq >= seq
    /\ r \notin forgotten' /\ coord.term[r].by = "chat" => seq >= coord.term[r].seq
PostsFallback(r) ==
    /\ final' = Replaced(r, [text |-> coord.timer[r], confirmed |-> FALSE, seq |-> 0])
    /\ ~coord.term[r].seen

\* These are the only ways a step can change the transcript.
LEMMA FinalSteps ==
    ASSUME TypeOK, Sound(coord), [Next]_vars
    PROVE  \/ Keeps
           \/ \E r \in Runs, seq \in 0..MaxSeq : TakesFinal(r, seq)
           \/ \E r \in Runs : PostsFallback(r)
<1> DEFINE Goal == \/ Keeps
                   \/ \E r \in Runs, seq \in 0..MaxSeq : TakesFinal(r, seq)
                   \/ \E r \in Runs : PostsFallback(r)
<1>1. ASSUME final' = final PROVE Keeps
  BY <1>1 DEF Keeps
<1>2. ASSUME final' = [r \in Runs |-> NoEntry] PROVE Keeps
  BY <1>2 DEF Keeps
<1>3. ASSUME NEW r \in Runs, NEW seq \in 0..MaxSeq, ChatFinal(r, seq) PROVE Goal
  <2>1. CASE final' = final
    BY <1>1, <2>1
  <2>2. CASE final' # final
    <3>1. /\ ~StaleTerminal(Prune(coord), r, seq)
          /\ ClosesRun(Commit(FinalSeen(Prune(coord), r), r, "chat", seq), r)
          /\ final' = Replaced(r, [text |-> r, confirmed |-> TRUE, seq |-> seq])
      BY <1>3, <2>2 DEF ChatFinal
    <3>2. TakesFinal(r, seq)
      BY <3>1, FinalIsSound DEF ClosesRun, TakesFinal
    <3>3. QED
      BY <3>2
  <2>3. QED
    BY <2>1, <2>2
<1>4. ASSUME NEW r \in Runs, FallbackFires(r) PROVE Goal
  <2>1. CASE final' = final
    BY <1>1, <2>1
  <2>2. CASE final' # final
    <3>1. PostsFallback(r)
      BY <1>4, <2>2 DEF FallbackFires, PostsFallback
    <3>2. QED
      BY <3>1
  <2>3. QED
    BY <2>1, <2>2
<1>5. ASSUME NEW base, NEW m, NEW byQueue, Sends(base, m, byQueue) PROVE Keeps
  BY <1>1, <1>2, <1>5 DEF Sends
<1>6. ASSUME NEW r \in Runs, ChatEvent(r), \A seq \in 0..MaxSeq : ~ChatFinal(r, seq)
      PROVE  Keeps
  BY <1>1, <1>6 DEF ChatEvent, ChatDelta, ChatEcho, ChatStopped
<1>7. ASSUME NEW r \in Runs, AgentEvent(r) \/ WindowElapses(r) \/ Gateway(r) PROVE Keeps
  BY <1>1, <1>7 DEF AgentEvent, AgentDelta, LifecycleStart, LifecycleEnd, LifecycleError,
     WindowElapses, Gateway, GatewayStarts, GatewayEnds
<1>8. ASSUME NEW m \in Local, UserSends(m) \/ Reply(m) PROVE Keeps
  BY <1>1, <1>5, <1>8
  DEF UserSends, Reply, ReplyStarted, ReplyImmediate, ReplyFailed, Answered
<1>9. ASSUME NEW i \in DOMAIN agent.queue, RemoveQueued(i) PROVE Keeps
  BY <1>1, <1>9 DEF RemoveQueued
<1>10. ASSUME Render \/ FlushFrame \/ NewSession \/ Reconcile \/ Dispose PROVE Keeps
  BY <1>1, <1>2, <1>5, <1>10 DEF Render, FlushFrame, Dispose,
     NewSession, NewSessionAsked, NewSessionDone, NewSessionFailed,
     Reconcile, ReconcileAsks, ReconcileAnswered, ReconcileRejected, ReconcileApplies
<1>11. Goal
  <2> HIDE DEF Goal
  <2>1. CASE UNCHANGED vars
    BY <1>1, <2>1 DEF vars, Goal
  <2>2. ASSUME Keeps PROVE Goal
    BY <2>2 DEF Goal
  <2>3. ASSUME NEW r \in Runs, ChatEvent(r) PROVE Goal
    BY <1>3, <1>6, <2>2, <2>3
  <2>4. QED
    BY <1>4, <1>7, <1>8, <1>9, <1>10, <2>1, <2>2, <2>3 DEF Next
<1>12. QED
  BY <1>11

\* What is forgotten only grows.
LEMMA ForgetSteps ==
    ASSUME [Next]_vars
    PROVE  UNCHANGED forgotten \/ (\E co : Handled(co)) \/ forgotten' = Runs
<1>1. ASSUME NEW r \in Runs, ChatEvent(r) PROVE \E co : Handled(co)
  BY <1>1 DEF ChatEvent, ChatDelta, ChatEcho, ChatFinal, ChatStopped, ClosesRun
<1>2. ASSUME NEW r \in Runs, AgentEvent(r) PROVE \E co : Handled(co)
  BY <1>2 DEF AgentEvent, AgentDelta, LifecycleStart, LifecycleEnd, LifecycleError
<1>3. ASSUME NEW r \in Runs, FallbackFires(r) \/ WindowElapses(r) \/ Gateway(r)
      PROVE  UNCHANGED forgotten
  BY <1>3 DEF FallbackFires, WindowElapses, Gateway, GatewayStarts, GatewayEnds
<1>4. ASSUME NEW m \in Local, UserSends(m) \/ Reply(m) PROVE UNCHANGED forgotten
  BY <1>4 DEF UserSends, Reply, ReplyStarted, ReplyImmediate, ReplyFailed, Answered
<1>5. ASSUME NEW i \in DOMAIN agent.queue, RemoveQueued(i) PROVE UNCHANGED forgotten
  BY <1>5 DEF RemoveQueued
<1>6. ASSUME Render \/ FlushFrame \/ NewSession \/ Reconcile PROVE UNCHANGED forgotten
  BY <1>6 DEF Render, FlushFrame,
     NewSession, NewSessionAsked, NewSessionDone, NewSessionFailed,
     Reconcile, ReconcileAsks, ReconcileAnswered, ReconcileRejected, ReconcileApplies
<1>7. QED
  BY <1>1, <1>2, <1>3, <1>4, <1>5, <1>6 DEF Next, Dispose, vars

\* A final can only be replaced by one that is at least as new: what
\* both action properties say, from one lemma about the step.
Better(r) ==
    final[r].confirmed /\ r \notin forgotten' /\ final'[r] # NoEntry
        => final'[r].confirmed /\ final'[r].seq >= final[r].seq

\* Every step keeps confirmed entries backed, and replaces them by better
\* ones only.
LEMMA StepBacked ==
    ASSUME IInv, [Next]_vars
    PROVE  Backed' /\ \A r \in Runs : Better(r)
<1>1. SoundStep /\ TypeOK'
  BY StepSound, StepType DEF IInv
<1>2. /\ final \in [Runs -> Entry] /\ final' \in [Runs -> Entry]
      /\ \A r \in Runs : final[r].seq \in Nat /\ final'[r].seq \in Nat
  BY <1>1, RunTerminalAssumption DEF IInv, TypeOK, Entry
<1>3. \A r \in Runs : coord.term[r].seq \in Nat /\ coord'.term[r].seq \in Nat
  BY <1>1, SoundAt, RunTerminalAssumption DEF IInv, SoundStep, Term
<1>4. forgotten \subseteq forgotten'
  <2>1. CASE UNCHANGED forgotten
    BY <2>1
  <2>2. CASE \E co : Handled(co)
    BY <2>2 DEF Handled
  <2>3. CASE forgotten' = Runs
    BY <2>3 DEF IInv, TypeOK
  <2>4. QED
    BY <2>1, <2>2, <2>3, ForgetSteps DEF IInv
<1>5. ASSUME NEW r \in Runs, final'[r] \in {final[r], NoEntry}
      PROVE  /\ Better(r)
             /\ r \notin forgotten' /\ final'[r].confirmed
                  => coord'.term[r].by = "chat" /\ final'[r].seq <= coord'.term[r].seq
  <2>1. CASE final'[r] = NoEntry
    BY <2>1 DEF Better, NoEntry
  <2>2. CASE final'[r] = final[r]
    <3>1. Better(r)
      BY <1>2, <2>2 DEF Better
    <3>2. ASSUME r \notin forgotten', final'[r].confirmed
          PROVE  coord'.term[r].by = "chat" /\ final'[r].seq <= coord'.term[r].seq
      <4>1. coord.term[r].by = "chat" /\ final[r].seq <= coord.term[r].seq
        BY <1>4, <2>2, <3>2 DEF IInv, Backed
      <4>2. coord'.term[r].by = "chat" /\ coord'.term[r].seq >= coord.term[r].seq
        BY <1>1, <3>2, <4>1 DEF SoundStep, CommitsStay
      <4>3. QED
        BY <1>2, <1>3, <2>2, <4>1, <4>2
    <3>3. QED
      BY <3>1, <3>2
  <2>3. QED
    BY <1>5, <2>1, <2>2
<1>6. CASE Keeps
  BY <1>5, <1>6 DEF Keeps, Backed
<1>7. ASSUME NEW r \in Runs, NEW seq \in 0..MaxSeq, TakesFinal(r, seq)
      PROVE  Backed' /\ \A q \in Runs : Better(q)
  <2>1. \A q \in Runs \ {r} : final'[q] = final[q]
    BY <1>2, <1>7 DEF TakesFinal, Replaced
  <2>2. final'[r] = [text |-> r, confirmed |-> TRUE, seq |-> seq]
    BY <1>2, <1>7 DEF TakesFinal, Replaced
  <2>3. final'[r].confirmed /\ final'[r].seq = seq /\ seq \in Nat
    BY <2>2, RunTerminalAssumption
  <2>4. coord'.term[r].by = "chat" /\ final'[r].seq <= coord'.term[r].seq
    BY <1>3, <1>7, <2>3 DEF TakesFinal
  <2>5. Better(r)
    <3>1. ASSUME final[r].confirmed, r \notin forgotten' PROVE seq >= final[r].seq
      <4>1. coord.term[r].by = "chat" /\ final[r].seq <= coord.term[r].seq
        BY <1>4, <3>1 DEF IInv, Backed
      <4>2. seq >= coord.term[r].seq
        BY <1>7, <3>1, <4>1 DEF TakesFinal
      <4>3. QED
        BY <1>2, <1>3, <2>3, <4>1, <4>2
    <3>2. QED
      BY <2>3, <3>1 DEF Better
  <2>6. QED
    BY <1>5, <2>1, <2>4, <2>5 DEF Backed
<1>8. ASSUME NEW r \in Runs, PostsFallback(r)
      PROVE  Backed' /\ \A q \in Runs : Better(q)
  <2>1. \A q \in Runs \ {r} : final'[q] = final[q]
    BY <1>2, <1>8 DEF PostsFallback, Replaced
  <2>2. ~final'[r].confirmed
    <3>1. final'[r] = [text |-> coord.timer[r], confirmed |-> FALSE, seq |-> 0]
      BY <1>2, <1>8 DEF PostsFallback, Replaced
    <3>2. QED
      BY <3>1
  <2>3. coord.term[r].by # "chat"
    BY <1>8, SoundAt DEF IInv, PostsFallback
  <2>4. Better(r)
    BY <1>4, <2>3 DEF IInv, Backed, Better
  <2>5. QED
    BY <1>5, <2>1, <2>2, <2>4 DEF Backed
<1>9. QED
  BY <1>6, <1>7, <1>8, FinalSteps DEF IInv

\* The inductive invariant: types, sound bookkeeping, no live patch of a
\* finished run, and confirmed transcript entries backed by their record.
THEOREM Inductive == Spec => []IInv
<1>1. Init => IInv
  <2> SUFFICES ASSUME Init PROVE IInv
    OBVIOUS
  <2>1. NoFlushAfterFinal /\ Backed
    BY DEF Init, NoFlushAfterFinal, Backed, NoCoordination, EmptyTerm, NoEntry
  <2>2. QED
    BY <2>1, InitSound DEF IInv
<1>2. IInv /\ [Next]_vars => IInv'
  BY StepSound, StepType, NoFlushStep, StepBacked DEF IInv, SoundStep
<1>3. QED
  BY <1>1, <1>2, PTL DEF Spec

\* Once a run is settled, no timer can post a second outcome for it.
THEOREM NoFallbackWhenClosed == Spec => []ClosedRunHasNoFallback
<1>1. IInv => ClosedRunHasNoFallback
  BY DEF IInv, Sound, ClosedRunHasNoFallback, Pending
<1>2. QED
  BY <1>1, Inductive, PTL

\* No live patch of a run outlives the chat final of the run.
THEOREM NoLateFlush == Spec => []NoFlushAfterFinal
<1>1. IInv => NoFlushAfterFinal
  BY DEF IInv
<1>2. QED
  BY <1>1, Inductive, PTL

\* The text of a chat final is never replaced by a fallback's.
THEOREM ConfirmedStay == Spec => ConfirmedStays
<1>1. IInv /\ [Next]_vars =>
         [\A r \in Runs : /\ final[r].confirmed /\ r \notin forgotten'
                          /\ final'[r] # NoEntry
                         => final'[r].confirmed]_vars
  BY StepBacked DEF Better
<1>2. QED
  BY <1>1, Inductive, PTL DEF Spec, ConfirmedStays

\* Nor by that of an older final.
THEOREM NewestStay == Spec => NewestFinalStays
<1>1. IInv /\ [Next]_vars =>
         [\A r \in Runs : /\ final[r].confirmed /\ r \notin forgotten'
                          /\ final'[r] # NoEntry
                         => final'[r].seq >= final[r].seq]_vars
  BY StepBacked DEF Better
<1>2. QED
  BY <1>1, Inductive, PTL DEF Spec, NewestFinalStays

\* An agent shown as running can always be reconciled: it names its run.
THEOREM RunningNames == Spec => []RunningNamesARun
<1>1. Init => RunningNamesARun
  BY DEF Init, RunningNamesARun
<1>2. TypeOK /\ RunningNamesARun /\ [Next]_vars => RunningNamesARun'
  <2> SUFFICES ASSUME TypeOK, RunningNamesARun, [Next]_vars PROVE RunningNamesARun'
    OBVIOUS
  <2> USE DEF RunningNamesARun
  <2>0. None \notin Runs /\ Local \subseteq Runs
    BY RunTerminalAssumption, AgentRunAssumption
  <2>1. ASSUME NEW r \in Runs, ChatEvent(r) PROVE RunningNamesARun'
    <3>1. ASSUME NEW status \in {"idle", "error"},
                 \/ UNCHANGED agent
                 \/ agent' = IF snap.run = r THEN Settled(agent, status) ELSE StreamCleared(agent)
          PROVE  RunningNamesARun'
      BY <3>1 DEF Settled, StreamCleared
    <3>2. ASSUME NEW seq \in 0..MaxSeq, ChatFinal(r, seq) PROVE RunningNamesARun'
      BY <3>1, <3>2 DEF ChatFinal
    <3>3. ASSUME NEW status \in {"idle", "error"}, ChatStopped(r, status)
          PROVE  RunningNamesARun'
      BY <3>1, <3>3 DEF ChatStopped
    <3>4. QED
      BY <2>1, <3>2, <3>3 DEF ChatEvent, ChatDelta, ChatEcho
  <2>2. ASSUME NEW r \in Runs, AgentEvent(r) PROVE RunningNamesARun'
    BY <2>0, <2>2 DEF AgentEvent, AgentDelta, LifecycleStart, LifecycleEnd, LifecycleError,
       Started, Settled
  <2>3. ASSUME NEW r \in Runs, FallbackFires(r) \/ WindowElapses(r) \/ Gateway(r)
        PROVE  RunningNamesARun'
    BY <2>3 DEF FallbackFires, Settled, WindowElapses, Gateway, GatewayStarts, GatewayEnds
  <2>4. ASSUME NEW base, NEW m \in Local, NEW byQueue, Sends(base, m, byQueue)
        PROVE  RunningNamesARun'
    BY <2>0, <2>4 DEF Sends
  <2>5. ASSUME NEW m \in Local, UserSends(m) PROVE RunningNamesARun'
    <3>1. CASE Sends(agent, m, FALSE)
      BY <2>4, <3>1
    <3>2. CASE ~Sends(agent, m, FALSE)
      <4>1. agent' = [status |-> agent.status, run |-> agent.run,
                      stream |-> agent.stream, queue |-> Append(agent.queue, m)]
        BY <2>5, <3>2 DEF UserSends
      <4>2. QED
        BY <4>1
    <3>3. QED
      BY <3>1, <3>2
  <2>6. ASSUME Render PROVE RunningNamesARun'
    <3>1. CASE QueueReady(agent)
      <4>1. Head(agent.queue) \in Local
        BY <3>1 DEF QueueReady, TypeOK, Agent
      <4>2. QED
        BY <2>4, <2>6, <3>1, <4>1 DEF Render
    <3>2. CASE ~QueueReady(agent)
      BY <2>6, <3>2 DEF Render
    <3>3. QED
      BY <3>1, <3>2
  <2>7. ASSUME NEW m \in Local, Reply(m) PROVE RunningNamesARun'
    BY <2>7 DEF Reply, ReplyStarted, ReplyImmediate, ReplyFailed, Settled
  <2>8. ASSUME NEW i \in DOMAIN agent.queue, RemoveQueued(i) PROVE RunningNamesARun'
    BY <2>8 DEF RemoveQueued
  <2>9. ASSUME FlushFrame PROVE RunningNamesARun'
    BY <2>9 DEF FlushFrame, Flushed
  <2>10. ASSUME NewSession \/ Reconcile \/ Dispose PROVE RunningNamesARun'
    BY <2>10 DEF NewSession, NewSessionAsked, NewSessionDone, NewSessionFailed, Dispose, Settled,
       Reconcile, ReconcileAsks, ReconcileAnswered, ReconcileRejected, ReconcileApplies
  <2>11. CASE UNCHANGED vars
    BY <2>11 DEF vars
  <2>12. QED
    BY <2>1, <2>2, <2>3, <2>5, <2>6, <2>7, <2>8, <2>9, <2>10, <2>11 DEF Next
<1>3. QED
  BY <1>1, <1>2, TypeCorrect, PTL DEF Spec
=============================================================================
