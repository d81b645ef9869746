------------------------------ MODULE TaskBoard ------------------------------
(***************************************************************************)
(* The task boards of several windows of Studio (cq-office) and the file   *)
(* of tasks they share through the host.                                   *)
(*                                                                         *)
(* A window shows a change before the host has it, sends the whole record, *)
(* shows the host's answer, and puts the old card back when it gives up.   *)
(* Every four seconds it asks for all tasks, and the answer replaces the   *)
(* cards of the same id, whatever was changed meanwhile.  An attempt that  *)
(* was given up may still reach the host, even after a later change.       *)
(*                                                                         *)
(* Of a task there are the status, the archived mark, the time of its last *)
(* change and its history.  Inferred cards, the gateway's own tasks and    *)
(* the archiving of duplicates are left out, as is a host without the      *)
(* route (404), which ends the polling.  What is dispatched is rendered    *)
(* before anything else happens, and the cards saved in the settings are   *)
(* loaded first.                                                           *)
(***************************************************************************)
EXTENDS Integers, SequencesExt

CONSTANTS
    Windows,
    Old,           \* tasks stored before
    Made,          \* tasks made by hand: a new id each
    Heard,         \* tasks made of a message of the gateway: one id in all windows
    Statuses,      \* "todo", the status of a new task, among them
    StoreLimit,    \* MAX_TASKS
    MaxChanges,    \* how many changes the windows make
    MaxResends,       \* MAX_RETRIES
    MaxMishaps,    \* how often an attempt or the host fails
    MaxDamages,    \* how often somebody else spoils the file
    NoCard

Cards == Old \cup Made \cup Heard
Changes == 1..MaxChanges

ASSUME BoardAssumption ==
    /\ "todo" \in Statuses
    /\ StoreLimit \in Nat \ {0} /\ IsFiniteSet(Old) /\ Cardinality(Old) <= StoreLimit
    /\ MaxChanges \in Nat /\ MaxResends \in Nat /\ MaxMishaps \in Nat /\ MaxDamages \in Nat

VARIABLES
    tasks,     \* the records of tasks.json
    intact,    \* tasks.json can be parsed
    boards,    \* the cards of each window
    posts,     \* the changes, each with its request
    lists,     \* the list request of each window
    polling,   \* sharedRefreshInFlightRef of each window
    mishaps, damages

board == <<tasks, intact, boards, posts, lists, polling, mishaps, damages>>

Contents == [status : Statuses, archived : BOOLEAN]
New == [status |-> "todo", archived |-> FALSE]
NoSheet == [t \in Cards |-> NoCard]
Sheets == [Cards -> Contents \cup {NoCard}]

\* q.before: the card put back; q.strays: attempts given up that the host may get yet
Unsent == [stage |-> "none", kind |-> "none", win |-> NoCard, card |-> NoCard,
           content |-> New, before |-> NoCard, answer |-> NoCard, tries |-> 0, strays |-> 0]
NoList == [stage |-> "none", cards |-> NoSheet]

Content(r) == [status |-> r.status, archived |-> r.archived]
BoardTypeOK ==
    /\ \A i \in DOMAIN tasks : tasks[i].id \in Cards /\ Content(tasks[i]) \in Contents
    /\ \A i, j \in DOMAIN tasks : tasks[i].id = tasks[j].id => i = j
    /\ Len(tasks) <= StoreLimit
    /\ boards \in [Windows -> Sheets]
    /\ \A w \in Windows : polling[w] <=> lists[w].stage # "none"
    /\ \A c \in Changes : posts[c].stage \in {"none", "sent", "answered", "missing", "over"}

BoardInit ==
    /\ tasks = <<>> \/ \E gone \in [Old -> BOOLEAN] :
          tasks = [i \in DOMAIN SetToSeq(Old) |->
                      [id |-> SetToSeq(Old)[i], status |-> "todo",
                       archived |-> gone[SetToSeq(Old)[i]], at |-> 0, history |-> <<"created">>]]
    /\ intact = TRUE
    /\ boards \in [Windows -> {NoSheet, [t \in Cards |-> IF t \in Old THEN New ELSE NoCard]}]
    /\ posts = [c \in Changes |-> Unsent]
    /\ lists = [w \in Windows |-> NoList] /\ polling = [w \in Windows |-> FALSE]
    /\ mishaps = 0 /\ damages = 0

-----------------------------------------------------------------------------
(* What the host makes of a request (shared-store.ts).                     *)

\* A file that cannot be parsed counts as empty.
Stored == IF intact THEN tasks ELSE <<>>
Has(ts, t) == \E i \in DOMAIN ts : ts[i].id = t
The(ts, t) == CHOOSE r \in Range(ts) : r.id = t

\* What the history gains (appendHistory): an archiving hides a new status.
Gains(old, new) ==
    CASE ~old.archived /\ new.archived -> <<"archived">>
      [] old.status # new.status -> <<"status_changed">>
      [] old.at # new.at -> <<"updated">>
      [] OTHER -> <<>>
\* (seeded fault: what the window sent)
WindowsHistory(old, new) == new.history \o Gains(old, new)
HistoryOf(old, new) == old.history \o Gains(old, new)

\* When the file is full the first archived task goes, or else the oldest.
Leaver(ts) ==
    LET archived == {i \in DOMAIN ts : ts[i].archived}
    IN IF archived = {} THEN 1 ELSE Min(archived)
Upserted(ts, new) ==
    IF Has(ts, new.id)
    THEN [i \in DOMAIN ts |->
             IF ts[i].id = new.id THEN [new EXCEPT !.history = HistoryOf(ts[i], new)] ELSE ts[i]]
    ELSE Append(IF Len(ts) >= StoreLimit THEN RemoveAt(ts, Leaver(ts)) ELSE ts,
                [new EXCEPT !.history = <<"created">>])

\* The record a PUT sends; a DELETE takes the one stored.  A message has the
\* same time in every window, a DELETE the time of the attempt.
Given(q, c) ==
    [id |-> q.card, status |-> q.content.status, archived |-> q.content.archived,
     at |-> IF q.kind = "capture" THEN 0 ELSE c, history |-> <<>>]
Archived(ts, q, c) ==
    [The(ts, q.card) EXCEPT !.archived = TRUE, !.at = MaxChanges + c + q.tries]
Written(ts, q, c) == Upserted(ts, IF q.kind = "remove" THEN Archived(ts, q, c) ELSE Given(q, c))

StoreLists(w) ==
    /\ lists[w].stage = "sent"
    /\ lists' = [lists EXCEPT
         ![w].stage = "answered",
         ![w].cards = [t \in Cards |-> IF Has(Stored, t) THEN Content(The(Stored, t)) ELSE NoCard]]
    /\ UNCHANGED <<tasks, intact, boards, posts, polling, mishaps, damages>>

\* An attempt arrives, and the host does nothing else until it has dealt with
\* it.  A stray one is answered to nobody.
Arrived(c, stray) == IF stray THEN posts[c].strays > 0 ELSE posts[c].stage = "sent"
Missing(q) == q.kind = "remove" /\ ~Has(Stored, q.card)
StoreTakes(c, stray) ==
    LET q == posts[c]
        new == Written(Stored, q, c)
    IN /\ Arrived(c, stray) /\ ~Missing(q)
       /\ tasks' = new /\ intact' = TRUE
       /\ posts' = [posts EXCEPT ![c] =
            IF stray THEN [q EXCEPT !.strays = @ - 1]
            ELSE [q EXCEPT !.stage = "answered", !.answer = Content(The(new, q.card))]]
       /\ UNCHANGED <<boards, lists, polling, mishaps, damages>>
StoreMisses(c, stray) ==
    LET q == posts[c] IN
    /\ Arrived(c, stray) /\ Missing(q)
    /\ posts' = [posts EXCEPT ![c] = IF stray THEN [q EXCEPT !.strays = @ - 1]
                                   ELSE [q EXCEPT !.stage = "missing"]]
    /\ UNCHANGED <<tasks, intact, boards, lists, polling, mishaps, damages>>

\* Somebody else writes the file (the task-manager skill tells agents to).
Spoils ==
    /\ damages < MaxDamages
    /\ intact' = FALSE /\ damages' = damages + 1
    /\ UNCHANGED <<tasks, boards, posts, lists, polling, mishaps>>

-----------------------------------------------------------------------------
(* The windows (useTaskBoardController.ts).                                *)

Shows(w, t, content) == boards' = [boards EXCEPT ![w][t] = content]

\* The next change; the record its request sends.
NextChange(q) ==
    \E c \in Changes :
        /\ posts[c] = Unsent /\ \A d \in 1..(c - 1) : posts[d] # Unsent
        /\ posts' = [posts EXCEPT ![c] = q]
        /\ UNCHANGED <<tasks, intact, lists, polling, mishaps, damages>>
Posts(kind, w, t, content, before) ==
    NextChange([Unsent EXCEPT !.stage = "sent", !.kind = kind, !.win = w, !.card = t,
                              !.content = content, !.before = before])
Open(w, t) == boards[w][t] # NoCard /\ ~boards[w][t].archived

\* A task made by hand is shown when the host answers.
Creates(w, t) ==
    /\ t \in Made /\ \A c \in Changes : posts[c].card # t
    /\ Posts("create", w, t, New, NoCard) /\ UNCHANGED boards
\* A message of the gateway becomes a task in every window that hears it.
Captures(w, t) ==
    /\ t \in Heard /\ \A c \in Changes : posts[c].kind = "capture" => posts[c].win # w
    /\ Posts("capture", w, t, New, NoCard)
    /\ IF Open(w, t) THEN UNCHANGED boards ELSE Shows(w, t, New)
\* The user, or a run of the agent, moves a card; the record shown is sent.
Moves(w, t) ==
    /\ Open(w, t)
    /\ \E s \in Statuses \ {boards[w][t].status} :
          /\ Posts("move", w, t, [boards[w][t] EXCEPT !.status = s], boards[w][t])
          /\ Shows(w, t, [boards[w][t] EXCEPT !.status = s])
Removes(w, t) ==
    /\ Open(w, t)
    /\ Posts("remove", w, t, boards[w][t], boards[w][t])
    /\ Shows(w, t, [boards[w][t] EXCEPT !.archived = TRUE])

\* What the agent's run shows, or its waiting for the user, changes the card
\* of this window alone: nothing is sent.
Follows(w, t) ==
    /\ boards[w][t] # NoCard
    /\ NextChange([Unsent EXCEPT !.stage = "over"])
    /\ \E s \in Statuses \ {boards[w][t].status} : Shows(w, t, [boards[w][t] EXCEPT !.status = s])

\* Of a request that is over only its strays matter.
PostOver(q) ==
    [q EXCEPT !.stage = "over", !.before = NoCard, !.answer = NoCard, !.tries = 0,
              !.content = IF q.strays = 0 THEN New ELSE @]
ShowsAnswer(c) ==
    /\ posts[c].stage = "answered"
    /\ Shows(posts[c].win, posts[c].card, posts[c].answer)
    /\ posts' = [posts EXCEPT ![c] = PostOver(@)]
    /\ UNCHANGED <<tasks, intact, lists, polling, mishaps, damages>>

\* The window gives up: the old card comes back; a new task stays as a card
\* that nobody else has.
PutsBack(q) ==
    CASE q.kind = "create" -> Shows(q.win, q.card, New)
      [] q.kind = "capture" -> UNCHANGED boards
      [] OTHER -> Shows(q.win, q.card, q.before)
NotFound(c) ==
    /\ posts[c].stage = "missing"
    /\ PutsBack(posts[c])
    /\ posts' = [posts EXCEPT ![c] = PostOver(@)]
    /\ UNCHANGED <<tasks, intact, lists, polling, mishaps, damages>>

\* An attempt fails, perhaps to arrive later: the next one leaves, or the
\* window gives up, as it does after eight seconds without an answer (final).
Fails(c, stray, final) ==
    LET q == [posts[c] EXCEPT !.strays = @ + (IF stray THEN 1 ELSE 0), !.answer = NoCard]
    IN IF q.tries < MaxResends /\ ~final
       THEN /\ posts' = [posts EXCEPT ![c] = [q EXCEPT !.stage = "sent", !.tries = @ + 1]]
            /\ UNCHANGED boards
       ELSE posts' = [posts EXCEPT ![c] = PostOver(q)] /\ PutsBack(q)
AttemptFails(c) ==
    /\ mishaps < MaxMishaps /\ mishaps' = mishaps + 1
    /\ \/ posts[c].stage = "sent" /\ \E stray, final \in BOOLEAN : Fails(c, stray, final)
       \/ /\ posts[c].stage \in {"answered", "missing"}
          /\ \E final \in BOOLEAN : Fails(c, FALSE, final)
    /\ UNCHANGED <<tasks, intact, lists, polling, damages>>

\* The write fails (500), or the host dies before the new file has the name.
WrittenInPlace == FALSE             \* seeded fault: what was there is lost
AsBefore == intact
StoreFails(c) ==
    /\ mishaps < MaxMishaps /\ mishaps' = mishaps + 1
    /\ posts[c].stage = "sent" /\ ~Missing(posts[c])
    /\ intact' = AsBefore
    /\ Fails(c, FALSE, FALSE)
    /\ UNCHANGED <<tasks, lists, polling, damages>>

\* Every four seconds, unless the last answer is still awaited.  A list that
\* fails is asked for again twice; ListFails is when the window gives up.
Polls(w) ==
    /\ ~polling[w]
    /\ polling' = [polling EXCEPT ![w] = TRUE]
    /\ lists' = [lists EXCEPT ![w] = [NoList EXCEPT !.stage = "sent"]]
    /\ UNCHANGED <<tasks, intact, boards, posts, mishaps, damages>>
ShowsList(w) ==
    /\ lists[w].stage = "answered"
    /\ boards' = [boards EXCEPT ![w] = [t \in Cards |-> IF lists[w].cards[t] = NoCard THEN @[t]
                                                        ELSE lists[w].cards[t]]]
    /\ lists' = [lists EXCEPT ![w] = NoList] /\ polling' = [polling EXCEPT ![w] = FALSE]
    /\ UNCHANGED <<tasks, intact, posts, mishaps, damages>>
StaysPolling(w) == polling            \* seeded fault: the mark is only taken back after an answer
PollsAgain(w) == [polling EXCEPT ![w] = FALSE]
ListFails(w) ==
    /\ mishaps < MaxMishaps /\ mishaps' = mishaps + 1
    /\ lists[w].stage # "none"
    /\ lists' = [lists EXCEPT ![w] = NoList]
    /\ polling' = PollsAgain(w)
    /\ UNCHANGED <<tasks, intact, boards, posts, damages>>

BoardNext ==
    \/ Spoils
    \/ \E w \in Windows :
          \/ Polls(w) \/ StoreLists(w) \/ ShowsList(w) \/ ListFails(w)
          \/ \E t \in Cards :
                Creates(w, t) \/ Captures(w, t) \/ Moves(w, t) \/ Removes(w, t) \/ Follows(w, t)
    \/ \E c \in Changes :
          \/ \E stray \in BOOLEAN : StoreTakes(c, stray) \/ StoreMisses(c, stray)
          \/ StoreFails(c) \/ ShowsAnswer(c) \/ NotFound(c) \/ AttemptFails(c)

\* The interval asks, the host answers, the answer is handled.  Nothing is
\* asked of the changes: they may fail or never be answered.
BoardFairness ==
    \A w \in Windows : WF_board(Polls(w)) /\ WF_board(StoreLists(w)) /\ WF_board(ShowsList(w))
BoardSpec == BoardInit /\ [][BoardNext]_board /\ BoardFairness

-----------------------------------------------------------------------------
(* Properties.                                                             *)

\* Nobody loses a task or its history to another window's stale record, to a
\* crash of the host or to a late attempt: a stored task stays stored and its
\* history only grows.  Only a full file lets a task go for a new one, and an
\* archived one before an open one.  A file spoilt by others is excepted.
LetGo(i) ==
    /\ Len(Stored) = StoreLimit /\ Len(Stored') = StoreLimit
    /\ ~Has(Stored', Stored[i].id)
    /\ \A j \in DOMAIN Stored \ {i} : Has(Stored', Stored[j].id)
    /\ Stored[i].archived \/ \A j \in DOMAIN Stored : ~Stored[j].archived
TasksKept ==
    [][damages' = 0 =>
        \A i \in DOMAIN Stored :
            \/ /\ Has(Stored', Stored[i].id)
               /\ IsPrefix(Stored[i].history, The(Stored', Stored[i].id).history)
            \/ LetGo(i)]_board

\* When the windows change nothing any more and nothing fails, all boards come
\* to show every stored task as it is stored, whatever was lost, answered
\* late or put back before.
BoardsAgree ==
    <>[](\A w \in Windows : \A i \in DOMAIN Stored :
            boards[w][Stored[i].id] = Content(Stored[i]))
=============================================================================
