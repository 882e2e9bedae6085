------------------------------ MODULE MCMessages -------------------------------
(***************************************************************************)
(* The two ways in for a person's message, beside each other: Telegram's   *)
(* and the web's. They share the rate limiter's code and the engine, but   *)
(* no rows, so a behaviour is one of one of them, named by part, and the   *)
(* other stays in its initial state.                                       *)
(***************************************************************************)
EXTENDS Naturals, Sequences, FiniteSets, TLC

CONSTANTS
    Owner, People, Vouched, Senders, Group, Limit, MaxUpdates, MaxEvents, Posts, Sends,
    Streams, WebChats, MaxMessages

ASSUME MessagesAssumption ==
    /\ {Limit, MaxUpdates, MaxEvents, MaxMessages} \subseteq Nat
    /\ IsFiniteSet(Posts \cup Sends) /\ "free" \notin Posts \cup Sends
    /\ "none" \notin WebChats

VARIABLES
    part,
    live, sent, handling, paused, access, limits, refusals, rows, files, pending, turn,
    bucket, told, updates, inboundEvents,
    running, task, quota, lastIds, idLock, table, users, submitted, subs, stream, clock,
    stored, passed, notices, raced, messages, webEvents

In == INSTANCE Inbound WITH events <- inboundEvents
Web == INSTANCE WebChannel WITH events <- webEvents

Parts == {"inbound", "web"}

inVars ==
    <<live, sent, handling, paused, access, limits, refusals, rows, files, pending,
      turn, bucket, told, updates, inboundEvents>>
webVars ==
    <<running, task, quota, lastIds, idLock, table, users, submitted, subs, stream,
      clock, stored, passed, notices, raced, messages, webEvents>>
vars == <<part, inVars, webVars>>

\* The other components stay as they are.
OnlyInbound == UNCHANGED <<part, webVars>>
OnlyWeb == UNCHANGED <<part, inVars>>

Init ==
    /\ part \in Parts
    /\ In!Init /\ (part = "web" => access.policy = "open")
    /\ Web!Init

Next ==
    \/ part = "inbound" /\ (\E u \in In!Users, c \in In!Chats : In!Message(u, c)) /\ OnlyInbound
    \/ part = "inbound" /\ (\E m \in In!Ids : In!EditedMessage(m)) /\ OnlyInbound
    \/ part = "inbound" /\ (\E m \in In!Ids : In!OnEdited(m)) /\ OnlyInbound
    \/ part = "inbound" /\ In!HandleUnauthorized /\ OnlyInbound
    \/ part = "inbound" /\ In!CheckRateLimit /\ OnlyInbound
    \/ part = "inbound" /\ In!PersistInbound /\ OnlyInbound
    \/ part = "inbound" /\ In!ForwardToEngine /\ OnlyInbound
    \/ part = "inbound" /\ (\E delivered \in BOOLEAN : In!Tell(delivered)) /\ OnlyInbound
    \/ part = "inbound" /\ (\E outcome \in {"saved", "rejected", "failed"} : In!Attach(outcome)) /\ OnlyInbound
    \/ part = "inbound" /\ (\E on \in BOOLEAN : In!Pause(on)) /\ OnlyInbound
    \/ part = "inbound" /\ (\E x \in People \cup {Group} : In!Allow(x)) /\ OnlyInbound
    \/ part = "inbound" /\ (\E x \in People \cup {Group} : In!Deny(x)) /\ OnlyInbound
    \/ part = "inbound" /\ (\E p \in In!Policies : In!Policy(p)) /\ OnlyInbound
    \/ part = "inbound" /\ (\E b \in SUBSET pending : In!TurnStarts(b)) /\ OnlyInbound
    \/ part = "inbound" /\ (\E clean \in BOOLEAN : In!TurnEnds(clean)) /\ OnlyInbound
    \/ part = "inbound" /\ In!Tick /\ OnlyInbound
    \/ part = "inbound" /\ In!MonthPasses /\ OnlyInbound
    \/ part = "inbound" /\ In!Die /\ OnlyInbound
    \/ part = "inbound" /\ (\E old \in 0 .. MaxUpdates : In!Boot(old)) /\ OnlyInbound

    \/ part = "web" /\ (\E t \in Posts, c \in WebChats : Web!Post(t, c)) /\ OnlyWeb
    \/ part = "web" /\ (\E t \in Sends, c \in WebChats, recorded \in BOOLEAN : Web!Send(t, c, recorded)) /\ OnlyWeb
    \/ part = "web" /\ (\E t \in Web!Tasks : Web!OverLimit(t)) /\ OnlyWeb
    \/ part = "web" /\ (\E t \in Web!Tasks : Web!LoadIds(t)) /\ OnlyWeb
    \/ part = "web" /\ (\E t \in Web!Tasks : Web!AssignId(t)) /\ OnlyWeb
    \/ part = "web" /\ (\E t \in Web!Tasks : Web!InsertMessage(t)) /\ OnlyWeb
    \/ part = "web" /\ (\E t \in Web!Tasks : Web!ReadUser(t)) /\ OnlyWeb
    \/ part = "web" /\ (\E t \in Web!Tasks : Web!UpsertUser(t)) /\ OnlyWeb
    \/ part = "web" /\ (\E t \in Web!Tasks : Web!Submit(t)) /\ OnlyWeb
    \/ part = "web" /\ (\E t \in Web!Tasks : Web!RecordOutbound(t)) /\ OnlyWeb
    \/ part = "web" /\ (\E q \in Streams : Web!History(q)) /\ OnlyWeb
    \/ part = "web" /\ (\E q \in Streams : Web!Unsubscribe(q)) /\ OnlyWeb
    \/ part = "web" /\ (\E q \in Streams, c \in WebChats : Web!Subscribe(q, c)) /\ OnlyWeb
    \/ part = "web" /\ Web!Tick /\ OnlyWeb
    \/ part = "web" /\ Web!Die /\ OnlyWeb
    \/ part = "web" /\ Web!Boot /\ OnlyWeb

Spec == Init /\ [][Next]_vars

\* Web requests, and clients, that may run at the same time, and the names of both exchanged.
Symmetry == Permutations(Posts) \cup Permutations(Streams)

-----------------------------------------------------------------------------
\* Types of every component's state.
TypeOK ==
    /\ part \in Parts
    /\ part = "inbound" => In!TypeOK
    /\ part = "web" => Web!TypeOK

\* A message past the gate is still let in by access.json at every later step of its
\* handler: a /deny or /policy answered before is never overtaken.
AdmittedStaysAdmitted == part = "inbound" => In!AdmittedStaysAdmitted

\* A chat gets one refusal for every retention period, whatever is killed in between.
OneRefusal == part = "inbound" => In!OneRefusal

\* While the bot is up, a stored message that no turn has taken is in the engine's buffer
\* or still in its handler.
NoRowForgotten == part = "inbound" => In!NoRowForgotten

\* Messages and rows of private chats and of the shared session are never exchanged.
PrivateStaysPrivate == part = "inbound" => In!PrivateStaysPrivate

\* An id names one web message of its chat, and no row is written over another's.
IdsIdentify == part = "web" => Web!IdsIdentify

\* Neither more posts than the limit nor two notices in a bucket.
LimitHolds == part = "web" => Web!LimitHolds

\* A stored web post reaches the engine.
PostsReachEngine == part = "web" => Web!PostsReachEngine

\* A web client that reconnects has every message it can have.
CaughtUp == part = "web" => Web!CaughtUp

-----------------------------------------------------------------------------
\* The inductive invariant of the part a behaviour is of.
IInv ==
    /\ part \in Parts
    /\ part = "inbound" => In!IInv
    /\ part = "web" => Web!IInv
================================================================================
