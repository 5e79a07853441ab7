----------------------------- MODULE WebRuntime -----------------------------
(***************************************************************************)
(* The WebSocket side of AppRuntime (adapters/web/runtime.py): two tasks   *)
(* of one event loop, the broadcast loop and the drain of the event queue, *)
(* and a task per client.  A task runs alone until it awaits, so the       *)
(* actions are the stretches between two awaits.                           *)
(*                                                                         *)
(* Abstractions: the leaderboard is a version, and of the messages only    *)
(* LEADERBOARD_UPDATE is kept, the one that is sent when something changed;*)
(* the others are sent in every round.  A broadcast that began earlier is  *)
(* ahead of a later one at every client, as the server writes to a socket  *)
(* in the order of the calls.                                              *)
(***************************************************************************)
EXTENDS Integers, Sequences, SequencesExt

CONSTANTS Clients, MaxBoard, MaxConnects, MaxRefreshes, MaxWebFaults

ASSUME WebAssumption == {MaxBoard, MaxConnects, MaxRefreshes, MaxWebFaults} \subseteq Nat

VARIABLES board,        \* the version of the leaderboard in the database
          clients,      \* _websocket_clients
          socket,       \* of each client: "closed", "open", or "broken", which
                        \*   its task has not noticed
          shown,        \* the version a client was sent last
          fingerprint,  \* _leaderboard_fingerprint, -1 for None
          refreshes,    \* LEADERBOARD_REFRESH events in the queue
          task,         \* the locals of the two tasks
          sending,      \* the tasks inside broadcast, the earlier first
          calm,         \* the version when the list was last changed, or a client
                        \*   lost (history)
          webCount      \* counters of the bounds

webVars == <<board, clients, socket, shown, fingerprint, refreshes, task, sending, calm, webCount>>

Tasks == {"loop", "drain"}
Asleep == [pc |-> "sleep", rankings |-> -1, next |-> 1, failed |-> {}]

WebInit ==
    /\ board = 0 /\ clients = <<>> /\ socket = [c \in Clients |-> "closed"]
    /\ shown = [c \in Clients |-> -1] /\ fingerprint = -1 /\ refreshes = 0
    /\ task = [t \in Tasks |-> Asleep] /\ sending = <<>>
    /\ calm = 0 /\ webCount = [connects |-> 0, refreshes |-> 0, faults |-> 0]

Becomes(t, pc) == task' = [task EXCEPT ![t].pc = pc]
CountWeb(field, bound) == webCount[field] < bound /\ webCount' = [webCount EXCEPT ![field] = @ + 1]

\* A trade, or a quote.
BoardChanges ==
    /\ board < MaxBoard /\ board' = board + 1
    /\ UNCHANGED <<clients, socket, shown, fingerprint, refreshes, task, sending, calm, webCount>>

\* publish_decision_batch_status of a completed batch, from the batch's thread.
PublishCompleted ==
    /\ CountWeb("refreshes", MaxRefreshes) /\ refreshes' = refreshes + 1
    /\ UNCHANGED <<board, clients, socket, shown, fingerprint, task, sending, calm>>

\* serve_websocket up to the loop.  The page read the leaderboard over HTTP before,
\* just now or when it first connected; nothing is sent.
Connect(c) ==
    /\ socket[c] = "closed" /\ CountWeb("connects", MaxConnects)
    /\ socket' = [socket EXCEPT ![c] = "open"] /\ clients' = Append(clients, c)
    /\ \E v \in {shown[c], board} : shown' = [shown EXCEPT ![c] = v]
    /\ calm' = board
    /\ UNCHANGED <<board, fingerprint, refreshes, task, sending>>

Vanish(c) ==
    /\ socket[c] = "open" /\ socket' = [socket EXCEPT ![c] = "broken"] /\ calm' = board
    /\ UNCHANGED <<board, clients, shown, fingerprint, refreshes, task, sending, webCount>>

\* receive_text raises, and the finally clause takes the client off the list, also
\* while a broadcast iterates over it.
Disconnect(c) ==
    /\ socket[c] # "closed" /\ socket' = [socket EXCEPT ![c] = "closed"]
    /\ clients' = Remove(clients, c) /\ calm' = board
    /\ UNCHANGED <<board, shown, fingerprint, refreshes, task, sending, webCount>>

-----------------------------------------------------------------------------
\* A round of _broadcast_loop, which reads nothing for nobody; an event of the queue.
WakeUpLoop ==
    /\ task["loop"].pc = "sleep" /\ clients # <<>> /\ Becomes("loop", "load")
    /\ UNCHANGED <<board, clients, socket, shown, fingerprint, refreshes, sending, calm, webCount>>

TakeEvent ==
    /\ task["drain"].pc = "sleep" /\ refreshes > 0 /\ refreshes' = refreshes - 1
    /\ Becomes("drain", "load")
    /\ UNCHANGED <<board, clients, socket, shown, fingerprint, sending, calm, webCount>>

\* The rankings are read by a thread, while the event loop goes on.
LoadRankings(t) ==
    /\ task[t].pc = "load" /\ task' = [task EXCEPT ![t].pc = "loaded", ![t].rankings = board]
    /\ UNCHANGED <<board, clients, socket, shown, fingerprint, refreshes, sending, calm, webCount>>

\* An exception the task lists is logged, and an event that was taken is gone; any
\* other, like sqlite3.OperationalError, ends the task.
LoadRaises(t) ==
    /\ task[t].pc = "load" /\ CountWeb("faults", MaxWebFaults)
    /\ \E pc \in {"sleep", "dead"} : Becomes(t, pc)
    /\ UNCHANGED <<board, clients, socket, shown, fingerprint, refreshes, sending, calm>>

\* broadcast_leaderboard_update: the fingerprint is kept before anything is sent.
CompareFingerprint(t) ==
    /\ task[t].pc = "loaded"
    /\ IF fingerprint = task[t].rankings
       THEN task' = [task EXCEPT ![t] = Asleep] /\ UNCHANGED <<fingerprint, sending>>
       ELSE /\ task' = [task EXCEPT ![t].pc = "send"]
            /\ fingerprint' = task[t].rankings /\ sending' = Append(sending, t)
    /\ UNCHANGED <<board, clients, socket, shown, refreshes, calm, webCount>>

Ahead(t) == {sending[i] : i \in {j \in DOMAIN sending : \E k \in DOMAIN sending : j < k /\ sending[k] = t}}

\* The iterator takes whatever is at its position by now, and send_text reaches the
\* client or raises.
SendText(t) ==
    /\ task[t].pc = "send" /\ task[t].next <= Len(clients)
    /\ \A u \in Ahead(t) : task[u].next > task[t].next
    /\ LET c == clients[task[t].next] IN
          IF socket[c] = "open"
          THEN shown' = [shown EXCEPT ![c] = task[t].rankings] /\ task' = [task EXCEPT ![t].next = @ + 1]
          ELSE UNCHANGED shown /\ task' = [task EXCEPT ![t].next = @ + 1, ![t].failed = @ \cup {c}]
    /\ UNCHANGED <<board, clients, socket, fingerprint, refreshes, sending, calm, webCount>>

\* Mutant of Remembered: the fingerprint is kept once everything was sent.
RememberedAtEnd(t) == task[t].rankings

Remembered(t) == fingerprint

EndBroadcast(t) ==
    /\ task[t].pc = "send" /\ task[t].next > Len(clients)
    /\ clients' = SelectSeq(clients, LAMBDA c : c \notin task[t].failed)
    /\ calm' = IF clients' = clients THEN calm ELSE board
    /\ fingerprint' = Remembered(t)
    /\ task' = [task EXCEPT ![t] = Asleep] /\ sending' = Remove(sending, t)
    /\ UNCHANGED <<board, socket, shown, refreshes, webCount>>

-----------------------------------------------------------------------------
TaskStep(t) ==
    \/ t = "loop" /\ WakeUpLoop
    \/ t = "drain" /\ TakeEvent
    \/ LoadRankings(t) \/ CompareFingerprint(t) \/ SendText(t) \/ EndBroadcast(t)

WebNext ==
    \/ BoardChanges \/ PublishCompleted
    \/ \E c \in Clients : Connect(c) \/ Vanish(c) \/ Disconnect(c)
    \/ \E t \in Tasks : TaskStep(t) \/ LoadRaises(t)

WebSpec == WebInit /\ [][WebNext]_webVars /\ \A t \in Tasks : WF_webVars(TaskStep(t))
-----------------------------------------------------------------------------
\* The list may be shifted under a broadcast, rankings may be older than those another
\* task sends, and an update is sent once, to whom the list has at that time.  Still a
\* change of the leaderboard that comes when nobody comes or goes any more reaches
\* every client that is there, unless the loop has died of an exception.
LatestIsShown ==
    \A c \in Clients :
        (c \in ToSet(clients) /\ socket[c] = "open" /\ board > calm)
            ~> (shown[c] = board \/ board = calm \/ task["loop"].pc = "dead")
=============================================================================
