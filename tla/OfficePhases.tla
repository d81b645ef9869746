----------------------------- MODULE OfficePhases -----------------------------
(***************************************************************************)
(* The fold from DSH session events to the phase the office animates       *)
(* (packages/dsh-office-adapter/lib/states.js).  What classifyToolCall     *)
(* reads out of a tool's name and arguments is the class of the event.     *)
(***************************************************************************)
EXTENDS Naturals

CONSTANT None

ToolPhases == {"coding", "research", "test", "review", "deploy"}
Phases == ToolPhases \cup {"idle", "plan", "approval", "blocked", "done"}
Stops == {"blocked", "error", "aborted", "interrupted", "max-tokens"}

PhaseState == [phase: Phases, lastTool: ToolPhases \cup {None},
               approval: BOOLEAN, todosKnown: BOOLEAN, openTodos: BOOLEAN]
initialPhaseState ==
    [phase |-> "idle", lastTool |-> None,
     approval |-> FALSE, todosKnown |-> FALSE, openTodos |-> FALSE]

\* Events that carry nothing else the fold reads; tool calls with their
\* class (None for a tool no rule knows); whole todo lists; ends of turns.
Plain(type) == [type |-> type]
ToolCallEvent(class) == [type |-> "tool/call", class |-> class]
TodoEvent(list) == [type |-> "todo/write", list |-> list]
EndEvent(kind) == [type |-> "turn/end", kind |-> kind]
TodoLists == {"empty", "allDone", "someOpen"}

LastToolOnly(s, default) == s.lastTool                 \* seeded fault
Fallback(s, default) == IF s.lastTool = None THEN default ELSE s.lastTool

OnTodoAlwaysPlan(s, list) ==                           \* seeded fault
    [s EXCEPT !.todosKnown = list # "empty", !.openTodos = list = "someOpen",
              !.phase = "plan"]
OnTodo(s, list) ==
    [s EXCEPT !.todosKnown = list # "empty", !.openTodos = list = "someOpen",
              !.phase = IF s.approval THEN "approval" ELSE "plan"]

applyPhaseEvent(s, e) ==
    CASE e.type \in {"turn/start", "user/message"} -> [s EXCEPT !.approval = FALSE]
      [] e.type = "tool/call" ->
           [s EXCEPT !.lastTool = IF e.class = None THEN s.lastTool ELSE e.class,
                     !.phase = CASE s.approval -> "approval"
                                 [] ~s.approval /\ e.class = None -> s.phase
                                 [] OTHER -> e.class]
      [] e.type = "todo/write" -> OnTodo(s, e.list)
      [] e.type = "approval/asked" -> [s EXCEPT !.approval = TRUE, !.phase = "approval"]
      [] e.type = "approval/decided" ->
           [s EXCEPT !.approval = FALSE, !.phase = Fallback(s, "coding")]
      [] e.type = "turn/end" /\ e.kind = "completed" ->
           [s EXCEPT !.phase = IF s.todosKnown /\ ~s.openTodos THEN "done"
                               ELSE Fallback(s, s.phase)]
      [] e.type = "turn/end" /\ e.kind \in Stops -> [s EXCEPT !.phase = "blocked"]
      [] OTHER -> s
=============================================================================
