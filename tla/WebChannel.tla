------------------------------ MODULE WebChannel -------------------------------
(***************************************************************************)
(* The web channel (hamroh/web): posts are handled in parallel, each user  *)
(* is one chat, message ids come from the hub, which also fans the bot's   *)
(* events out to the open streams of a chat.  A post is counted by the     *)
(* rate limiter, takes an id, is stored, then submitted; a message of the  *)
(* bot takes an id, is published, then stored.                             *)
(*                                                                         *)
(* Every message has a number of its own, its token, so that an id used    *)
(* twice can be seen.  Typing events and reactions are not kept by anybody *)
(* and are left out.                                                       *)
(***************************************************************************)
EXTENDS Naturals, FiniteSetsExt, RateLimits

CONSTANTS Posts, Sends,  \* requests, and tool calls, that may run at the same time
          Streams,       \* event streams a user may hold open
          WebChats,      \* chats of web users
          MaxMessages,   \* bound: posts and sends
          MaxEvents      \* bound: deaths of the process and new buckets of the limiter

Tasks == Posts \cup Sends
Free == "free"
Unloaded == 0           \* no entry in _last_ids

VARIABLES
    running,     \* the process is up
    task,        \* each request or send: where it is, its chat, id and token
    quota,       \* table rate_limits
    lastIds,     \* WebHub._last_ids, one more than the code's so that 0 is "no entry"
    idLock,      \* WebHub._lock: its holder
    table,       \* messages of web chats: [chat, id, token, out]
    users,       \* table users: chats with a row
    submitted,   \* tokens handed to the engine
    subs,        \* WebHub._subscribers
    stream,      \* what the client of each stream knows
    clock,       \* bucket of the rate limiter
    stored,      \* history: tokens whose row was written
    passed,      \* history: posts let through in each bucket
    notices,     \* history: callers told to send the notice, in each bucket
    raced,       \* history: tokens whose post failed on the users table
    messages, events

db == <<quota, table, users>>
hub == <<lastIds, idLock, subs>>
history == <<stored, passed, notices, raced>>
vars == <<running, task, db, hub, submitted, stream, clock, history, messages, events>>

Rest == [pc |-> "rest"]
At(t, pc) == task[t].pc = pc
Goto(t, pc) == task' = [task EXCEPT ![t].pc = pc]
Done(t) == task' = [task EXCEPT ![t] = Rest]
Busy == {t \in Tasks : task[t] # Rest}
MaxStored(c) == Max({0} \cup {r.id : r \in {x \in table : x.chat = c}})

Fresh(t) ==
    /\ running /\ task[t] = Rest /\ messages < MaxMessages /\ messages' = messages + 1

-----------------------------------------------------------------------------
(* Posts: WebInbound.accept *)

\* check_and_record: one statement counts, the comparison follows.
Post(t, c) ==
    /\ Fresh(t)
    /\ LET key == <<c, clock>>
           counted == Count(quota, key)
           over == Over(counted, key)
       IN  /\ quota' = counted
           /\ task' = [task EXCEPT ![t] = [pc |-> IF over THEN "over" ELSE "id", chat |-> c,
                                           id |-> 0, token |-> messages', bucket |-> clock,
                                           known |-> FALSE, recorded |-> TRUE]]
           /\ passed' = IF over THEN passed ELSE [passed EXCEPT ![key] = @ + 1]
    /\ UNCHANGED <<running, table, users, hub, submitted, stream, clock, stored, notices,
                   raced, events>>

\* _over_limit: the notice, the pruning, and 429.
OverLimit(t) ==
    /\ At(t, "over")
    /\ LET key == <<task[t].chat, task[t].bucket>>
       IN  /\ quota' = FlipAndPrune(quota, key)
           /\ notices' = IF Notices(quota, key) THEN [notices EXCEPT ![key] = @ + 1] ELSE notices
    /\ Done(t)
    /\ UNCHANGED <<running, table, users, hub, submitted, stream, clock, stored, passed,
                   raced, messages, events>>

InsertMessage(t) ==
    /\ At(t, "insert")
    /\ LET m == task[t]
       IN  /\ table' = {r \in table : r.chat # m.chat \/ r.id # m.id}
                       \cup {[chat |-> m.chat, id |-> m.id, token |-> m.token, out |-> FALSE]}
           /\ stored' = stored \cup {m.token}
    /\ Goto(t, "user")
    /\ UNCHANGED <<running, quota, users, hub, submitted, stream, clock, passed, notices,
                   raced, messages, events>>

\* upsert_user reads, then inserts or updates.
ReadUser(t) ==
    /\ At(t, "user")
    /\ task' = [task EXCEPT ![t] = [@ EXCEPT !.pc = "upsert", !.known = task[t].chat \in users]]
    /\ UNCHANGED <<running, db, hub, submitted, stream, clock, history, messages, events>>

\* The second INSERT of a new user's row fails on the primary key: the request
\* ends with an error, its message stored and not submitted.
UpsertUser(t) ==
    /\ At(t, "upsert")
    /\ LET c == task[t].chat
       IN  IF ~task[t].known /\ c \in users
           THEN Done(t) /\ raced' = raced \cup {task[t].token} /\ UNCHANGED users
           ELSE Goto(t, "submit") /\ users' = users \cup {c} /\ UNCHANGED raced
    /\ UNCHANGED <<running, quota, table, hub, submitted, stream, clock, stored, passed,
                   notices, messages, events>>

Submit(t) ==
    /\ At(t, "submit")
    /\ submitted' = submitted \cup {task[t].token}
    /\ Done(t)
    /\ UNCHANGED <<running, db, hub, stream, clock, history, messages, events>>

-----------------------------------------------------------------------------
(* The hub, and the bot's messages: ChannelBot.send_message *)

\* A tool's message is recorded after it was sent; a notice of the engine never is.
Send(t, c, recorded) ==
    /\ Fresh(t)
    /\ task' = [task EXCEPT ![t] = [pc |-> "id", chat |-> c, id |-> 0, token |-> messages',
                                    bucket |-> clock, known |-> FALSE, recorded |-> recorded]]
    /\ UNCHANGED <<running, db, hub, submitted, stream, clock, history, events>>

\* A plausible slip: the ids are loaded without the lock.
LoadIdsUnlocked(t) ==
    /\ At(t, "id") /\ lastIds[task[t].chat] = Unloaded
    /\ idLock' = t
    /\ task' = [task EXCEPT ![t] = [@ EXCEPT !.pc = "assign", !.id = MaxStored(task[t].chat)]]
    /\ UNCHANGED <<running, db, lastIds, subs, submitted, stream, clock, history, messages, events>>

\* next_message_id of a chat not seen yet: its highest stored id, under the lock.
LoadIds(t) ==
    /\ At(t, "id") /\ idLock = Free /\ lastIds[task[t].chat] = Unloaded
    /\ idLock' = t
    /\ task' = [task EXCEPT ![t] = [@ EXCEPT !.pc = "assign", !.id = MaxStored(task[t].chat)]]
    /\ UNCHANGED <<running, db, lastIds, subs, submitted, stream, clock, history, messages, events>>

\* WebHub.publish: to every open stream of the chat.
Publish(c, token) ==
    stream' = [q \in Streams |-> IF q \in subs[c]
                                 THEN [stream[q] EXCEPT !.seen = @ \cup {token}]
                                 ELSE stream[q]]

\* A plausible slip: both the load and the allocation advance the counter.
AdvancedTwice(id) == id + 2

\* The entry of _last_ids once `id' is taken.
Advanced(id) == id + 1

\* The id; what the bot sends is published before anything else runs.
AssignId(t) ==
    /\ \/ At(t, "assign")
       \/ At(t, "id") /\ idLock = Free /\ lastIds[task[t].chat] # Unloaded
    /\ LET c == task[t].chat
           last == IF At(t, "assign") THEN task[t].id + 1 ELSE lastIds[c]
           m == [task[t] EXCEPT !.id = last]
       IN  /\ lastIds' = [lastIds EXCEPT ![c] = Advanced(last)]
           /\ IF t \in Posts
              THEN task' = [task EXCEPT ![t] = [m EXCEPT !.pc = "insert"]] /\ UNCHANGED stream
              ELSE /\ task' = [task EXCEPT ![t] = IF m.recorded THEN [m EXCEPT !.pc = "record"]
                                                  ELSE Rest]
                   /\ Publish(c, m.token)
    /\ idLock' = IF At(t, "assign") THEN Free ELSE idLock
    /\ UNCHANGED <<running, db, subs, submitted, clock, history, messages, events>>

\* record_outbound
RecordOutbound(t) ==
    /\ At(t, "record")
    /\ LET m == task[t]
       IN  /\ table' = {r \in table : r.chat # m.chat \/ r.id # m.id}
                       \cup {[chat |-> m.chat, id |-> m.id, token |-> m.token, out |-> TRUE]}
           /\ stored' = stored \cup {m.token}
    /\ Done(t)
    /\ UNCHANGED <<running, quota, users, hub, submitted, stream, clock, passed, notices,
                   raced, messages, events>>

-----------------------------------------------------------------------------
(* Event streams and history *)

Closed == [chat |-> "none", caughtUp |-> FALSE, seen |-> {}, early |-> {}]

\* The stream opens; `early' are messages published before and not stored yet.
Subscribe(q, c) ==
    /\ running /\ stream[q] = Closed
    /\ subs' = [subs EXCEPT ![c] = @ \cup {q}]
    /\ stream' = [stream EXCEPT ![q] =
           [chat |-> c, caughtUp |-> FALSE, seen |-> {},
            early |-> {task[t].token : t \in {s \in Sends : At(s, "record") /\ task[s].chat = c}}]]
    /\ UNCHANGED <<running, task, db, lastIds, idLock, submitted, clock, history, messages, events>>

\* GET /api/history, as the documentation asks for after a reconnect.
History(q) ==
    /\ running /\ stream[q] # Closed /\ ~stream[q].caughtUp
    /\ stream' = [stream EXCEPT ![q] =
           [stream[q] EXCEPT !.caughtUp = TRUE,
                             !.seen = @ \cup {r.token : r \in {x \in table : x.chat = stream[q].chat}}]]
    /\ UNCHANGED <<running, task, db, hub, submitted, clock, history, messages, events>>

\* A plausible slip: the last client to leave takes the chat's entry with it.
UnsubscribeChat(q) ==
    /\ stream[q] # Closed
    /\ subs' = [subs EXCEPT ![stream[q].chat] = {}]
    /\ stream' = [stream EXCEPT ![q] = Closed]
    /\ UNCHANGED <<running, task, db, lastIds, idLock, submitted, clock, history, messages, events>>

Unsubscribe(q) ==
    /\ stream[q] # Closed
    /\ subs' = [subs EXCEPT ![stream[q].chat] = @ \ {q}]
    /\ stream' = [stream EXCEPT ![q] = Closed]
    /\ UNCHANGED <<running, task, db, lastIds, idLock, submitted, clock, history, messages, events>>

-----------------------------------------------------------------------------
(* Clock, restart *)

Tick ==
    /\ events < MaxEvents /\ events' = events + 1
    /\ clock' = clock + 1
    /\ UNCHANGED <<running, task, db, hub, submitted, stream, history, messages>>

Die ==
    /\ running /\ events < MaxEvents /\ events' = events + 1
    /\ running' = FALSE
    /\ task' = [t \in Tasks |-> Rest]
    /\ lastIds' = [c \in WebChats |-> Unloaded] /\ idLock' = Free
    /\ subs' = [c \in WebChats |-> {}] /\ stream' = [q \in Streams |-> Closed]
    /\ UNCHANGED <<db, submitted, clock, history, messages>>

\* A plausible slip: the web channel's database is not replayed at boot.
BootWithoutReplay ==
    /\ ~running /\ running' = TRUE
    /\ UNCHANGED <<task, db, hub, submitted, stream, clock, history, messages, events>>

\* The rows never handed to claude are submitted again; which of the others were, Engine
\* says.
Boot ==
    /\ ~running /\ running' = TRUE
    /\ submitted' = submitted \cup {r.token : r \in {x \in table : ~x.out}}
    /\ UNCHANGED <<task, db, hub, stream, clock, history, messages, events>>

-----------------------------------------------------------------------------
Keys == WebChats \X (0 .. MaxEvents)

Init ==
    /\ running = TRUE /\ task = [t \in Tasks |-> Rest]
    /\ quota = NoRows /\ table = {} /\ users = {}
    /\ lastIds = [c \in WebChats |-> Unloaded] /\ idLock = Free
    /\ subs = [c \in WebChats |-> {}] /\ stream = [q \in Streams |-> Closed]
    /\ submitted = {} /\ clock = 0
    /\ stored = {} /\ raced = {}
    /\ passed = [k \in Keys |-> 0] /\ notices = [k \in Keys |-> 0]
    /\ messages = 0 /\ events = 0

Step(t) ==
    \/ OverLimit(t) \/ LoadIds(t) \/ AssignId(t) \/ InsertMessage(t) \/ ReadUser(t)
    \/ UpsertUser(t) \/ Submit(t) \/ RecordOutbound(t)

Next ==
    \/ \E t \in Posts, c \in WebChats : Post(t, c)
    \/ \E t \in Sends, c \in WebChats, recorded \in BOOLEAN : Send(t, c, recorded)
    \/ \E t \in Tasks : Step(t)
    \/ \E q \in Streams : History(q) \/ Unsubscribe(q) \/ \E c \in WebChats : Subscribe(q, c)
    \/ Tick \/ Die \/ Boot

Spec == Init /\ [][Next]_vars

-----------------------------------------------------------------------------
(* Properties *)

Tokens == 1 .. MaxMessages

Points == {"over", "id", "assign", "insert", "user", "upsert", "submit", "record"}
TaskStates ==
    [pc : Points, chat : WebChats, id : 0 .. MaxMessages, token : Tokens, bucket : 0 .. clock,
     known : BOOLEAN, recorded : BOOLEAN]
Row == [chat : WebChats, id : Tokens, token : Tokens, out : BOOLEAN]
Open == [chat : WebChats, caughtUp : BOOLEAN, seen : SUBSET Tokens, early : SUBSET Tokens]

\* Types of the tables, the tasks, the hub and the clients.
TypeOK ==
    /\ running \in BOOLEAN
    /\ task \in [Tasks -> TaskStates \cup {Rest}]
    /\ IsTable(quota, WebChats \X (0 .. clock))
    /\ lastIds \in [WebChats -> 0 .. MaxMessages + 1] /\ idLock \in Tasks \cup {Free}
    /\ table \subseteq Row
    /\ users \subseteq WebChats /\ submitted \subseteq Tokens
    /\ subs \in [WebChats -> SUBSET Streams] /\ stream \in [Streams -> Open \cup {Closed}]
    /\ stored \subseteq Tokens /\ raced \subseteq Tokens
    /\ passed \in [Keys -> Nat] /\ notices \in [Keys -> Nat]
    /\ messages \in 0 .. MaxMessages /\ events \in 0 .. MaxEvents /\ clock \in 0 .. events

Inserting == {t \in Tasks : task[t].pc \in {"insert", "record"}}

\* An id names one message of its chat: no row is ever written over another message's, and
\* two messages on their way to the table never have the same id, whichever of posts and
\* sends run at once and wherever the process dies (next_message_id: "next free id").
IdsIdentify ==
    /\ \A x, y \in Inserting : x # y => <<task[x].chat, task[x].id>> # <<task[y].chat, task[y].id>>
    /\ \A n \in stored : \E r \in table : r.token = n

\* No more posts of a chat pass in a bucket than the limit allows, and of the callers over
\* it at most one is told to notify, with concurrent posts and across restarts
\* (rate_limiter.py: "concurrent calls can't slip past the limit or notify twice").
LimitHolds == \A k \in Keys : passed[k] <= Limit /\ notices[k] <= 1

\* While the process is up a stored post has been submitted, or its request is still about
\* to, or failed on the users table (see the hazard there).
PostsReachEngine ==
    running => \A r \in table :
        \/ r.out \/ r.token \in submitted \cup raced
        \/ \E t \in Posts : task[t] # Rest /\ task[t].token = r.token

\* A client that opens its stream and then reads the history has every message of the bot,
\* but for those sent before the stream and stored after the history was read.
CaughtUp ==
    \A q \in Streams : stream[q].caughtUp =>
        \A r \in table : r.out /\ r.chat = stream[q].chat
            => r.token \in stream[q].seen \cup stream[q].early

-----------------------------------------------------------------------------
(* Inductive invariant *)

\* Tasks that have no id yet.
Waiting == {t \in Tasks : task[t].pc \in {"over", "id", "assign"}}

\* What a post does is only done by posts, what a send does by sends.
TasksKeepKind ==
    \A t \in Tasks :
        /\ task[t].pc \in {"over", "insert", "user", "upsert", "submit"} => t \in Posts
        /\ task[t].pc = "record" => t \notin Posts

\* Tokens are new when they are given, and go into the table once.
TokensApart ==
    /\ \A t \in Tasks : task[t] # Rest => task[t].token <= messages
    /\ \A r \in table : r.token <= messages
    /\ \A s, t \in Tasks : s # t /\ task[s] # Rest /\ task[t] # Rest => task[s].token # task[t].token
    /\ \A t \in Waiting \cup Inserting, r \in table : task[t].token # r.token

\* There are no more ids than messages that have got one.
IdsAreFew ==
    LET Given == messages - Cardinality(Waiting)
    IN  /\ Given >= 0
        /\ \A c \in WebChats : lastIds[c] <= Given + 1
        /\ \A r \in table : r.id <= Given
        /\ \A t \in Tasks : task[t] # Rest => task[t].id <= Given

\* The entry of a chat in _last_ids is above every id of the chat, in the table or on its
\* way there; a chat without one has no ids on their way.
IdsAreBelow ==
    /\ \A c \in WebChats, r \in table :
           lastIds[c] # Unloaded /\ r.chat = c => r.id < lastIds[c]
    /\ \A t \in Inserting : 0 < task[t].id /\ task[t].id < lastIds[task[t].chat]
    /\ \A t \in Inserting, r \in table : r.chat = task[t].chat => r.id # task[t].id

\* Who loads the highest id of a chat has the lock, and it stays the highest.
LoadsAreLocked ==
    \A t \in Tasks : At(t, "assign") =>
        /\ idLock = t /\ lastIds[task[t].chat] = Unloaded
        /\ \A r \in table : r.chat = task[t].chat => r.id <= task[t].id

\* The rows of the limiter count what passed and say who was told; a row that was
\* pruned is of a bucket that has passed.
QuotaCounts ==
    \A k \in Keys :
        \/ /\ k \in DOMAIN quota
           /\ passed[k] <= quota[k].count
           /\ notices[k] = 0 \/ (notices[k] = 1 /\ quota[k].notified)
        \/ /\ k \notin DOMAIN quota
           /\ notices[k] <= 1
           /\ k[2] < clock \/ (passed[k] = 0 /\ notices[k] = 0)

\* A client's stream is in the hub's list of its chat, and in no other.
SubsMatch == \A q \in Streams, c \in WebChats : q \in subs[c] <=> stream[q].chat = c

\* What was published and is not yet stored, each client of the chat has seen or came too
\* late for.
PublishedIsSeen ==
    \A q \in Streams, t \in Tasks :
        At(t, "record") /\ task[t].chat = stream[q].chat
            => task[t].token \in stream[q].seen \cup stream[q].early

IInv ==
    /\ TypeOK /\ TasksKeepKind /\ TokensApart /\ IdsAreFew /\ IdsAreBelow
    /\ LoadsAreLocked /\ QuotaCounts /\ SubsMatch /\ PublishedIsSeen
    /\ IdsIdentify /\ LimitHolds /\ PostsReachEngine /\ CaughtUp
================================================================================
