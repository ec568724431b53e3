----------------------------- MODULE Transport -----------------------------
(***************************************************************************)
(* transport.py's InProcessTransport: publish() hands the event to every   *)
(* handler subscribed at that moment as a task of its own, which nothing   *)
(* waits for; a handler's exception ends its task and nothing else.        *)
(***************************************************************************)
EXTENDS Naturals

CONSTANTS
    Handlers,   \* the subscriptions that are ever made
    Standing    \* those made whenever the process starts

VARIABLES
    listening,  \* _subscribers: of the event's type, and of "*"
    tasks,      \* the tasks created by publish that have not run
    handled     \* how many events each standing handler has been given

transportVars == <<listening, tasks, handled>>

TransportInit ==
    /\ listening = Standing
    /\ tasks = {}
    /\ handled = [h \in Standing |-> 0]

-----------------------------------------------------------------------------
\* The definitions named ..._Mut are broken variants of the definition that follows
\* them, each a slip somebody could make in that code; the properties below are
\* checked to catch them.

Publish_MutOneTask(event) ==
    /\ \E h \in listening : tasks' = tasks \union {[to |-> h, event |-> event]}
    /\ UNCHANGED <<listening, handled>>

\* publish of an event that is JSON-serializable; one that is not raises instead.
Publish(event) ==
    /\ tasks' = tasks \union {[to |-> h, event |-> event] : h \in listening}
    /\ UNCHANGED <<listening, handled>>

\* _run_handler_safely, whether the handler returns or raises.
RunHandler(task) ==
    /\ task \in tasks
    /\ tasks' = tasks \ {task}
    /\ handled' = [h \in Standing |-> IF h = task.to THEN handled[h] + 1 ELSE handled[h]]
    /\ UNCHANGED listening

Subscribe(h) ==
    /\ h \notin listening
    /\ listening' = listening \union {h}
    /\ UNCHANGED <<tasks, handled>>

\* unsubscribe: events published before still reach the handler.
Unsubscribe(h) ==
    /\ h \in listening
    /\ listening' = listening \ {h}
    /\ UNCHANGED <<tasks, handled>>

\* The process stops, with the tasks that have not run, and starts again.
Restart ==
    /\ listening' = Standing
    /\ tasks' = {}
    /\ UNCHANGED handled
=============================================================================
