-------------------------------- MODULE Inbound --------------------------------
(***************************************************************************)
(* From a Telegram update to the engine (hamroh/telegram_io): pause, the   *)
(* extension's private users, access.json, the refusal of strangers, the   *)
(* rate limit, attachments, the message row, submit; the owner's commands; *)
(* and the replay of rows at boot.                                         *)
(*                                                                         *)
(* Telegram's updates are handled one at a time, but every handler awaits: *)
(* turns run, the clock moves and the process may be killed between its    *)
(* steps.  The engine is reduced to a buffer and a turn (Engine models     *)
(* it), the users table and the chat titles are left out.                  *)
(***************************************************************************)
EXTENDS Naturals, Sequences, FiniteSets, RateLimits

CONSTANTS Owner, People,   \* Telegram users: the owner, everyone else
          Vouched,         \* those an extension names private users
          Senders,         \* those whose messages carry a photo or document
          Group,           \* a group chat
          MaxUpdates,      \* bound: messages and edits
          MaxEvents        \* bound: the owner's commands, deaths of the process, new
                           \* buckets of the rate limiter, passings of a retention period

Users == {Owner} \cup People
Chats == Users \cup {Group}        \* a DM has its user's id
Policies == {"owner_only", "allowlist", "open"}

VARIABLES
    live,        \* the process is up and polling
    sent,        \* Telegram: [user, chat, rev] of each message, by id
    handling,    \* the update being handled and where its handler is
    paused,      \* TelegramDispatcher._paused
    access,      \* access.json
    limits,      \* table rate_limits
    refusals,    \* table unauthorized_messages: has the chat a row with refusal_sent
    rows,        \* table messages, of both databases
    files,       \* data/attachments
    pending,     \* Engine._pending
    turn,        \* the messages of the turn in flight
    bucket,      \* the clock
    told,        \* history: refusals sent to a chat in this retention period
    updates, events

tables == <<limits, refusals, rows, files>>
engine == <<pending, turn>>
bounds == <<updates, events>>
vars == <<live, sent, handling, paused, access, tables, engine, bucket, told, bounds>>

Ids == 1 .. MaxUpdates
Idle == [step |-> "idle"]
NoRow == [db |-> "none"]
Stored(m) == rows[m] # NoRow
IsDM(c) == c # Group
Secret(u, c) == c = u /\ u \in Vouched     \* _is_private_user

\* access.gate
Gate(u, c) ==
    CASE access.policy = "owner_only" -> IsDM(c) /\ u = Owner
      [] access.policy = "open" -> TRUE
      [] OTHER -> IF IsDM(c) THEN u = Owner \/ u \in access.allowed ELSE c \in access.allowed

-----------------------------------------------------------------------------
(* One update *)

\* _on_message up to its gates, of message m as Telegram has it now: dropped when
\* paused, else the extension's users skip access.json.
Arrives(m, u, c, rev) ==
    handling' =
        IF paused THEN Idle
        ELSE [step |-> IF Secret(u, c) \/ Gate(u, c) THEN "limit" ELSE "refuse",
              m |-> m, rev |-> rev, user |-> u, chat |-> c, private |-> Secret(u, c),
              marker |-> "none"]

Update == live /\ handling = Idle /\ updates < MaxUpdates /\ updates' = updates + 1

Message(u, c) ==
    /\ Update /\ c \in {u, Group}
    /\ sent' = Append(sent, [user |-> u, chat |-> c, rev |-> 0])
    /\ Arrives(Len(sent) + 1, u, c, 0)
    /\ UNCHANGED <<live, paused, access, tables, engine, bucket, told, events>>

\* The first MessageHandler's filter also matches edited messages that have text, a
\* caption, a photo or a document: an edit runs through _on_message again.
EditedMessage(m) ==
    /\ Update /\ m \in DOMAIN sent
    /\ sent' = [sent EXCEPT ![m].rev = @ + 1]
    /\ Arrives(m, sent[m].user, sent[m].chat, sent'[m].rev)
    /\ UNCHANGED <<live, paused, access, tables, engine, bucket, told, events>>

\* An edit that leaves none of them (a video's caption removed): _on_edited.
OnEdited(m) ==
    /\ Update /\ m \in DOMAIN sent
    /\ sent' = [sent EXCEPT ![m].rev = @ + 1]
    /\ rows' = IF /\ Secret(sent[m].user, sent[m].chat) \/ Gate(sent[m].user, sent[m].chat)
                  /\ Stored(m)
               THEN [rows EXCEPT ![m] = [@ EXCEPT !.rev = sent'[m].rev, !.processed = FALSE]]
               ELSE rows
    /\ UNCHANGED <<live, handling, paused, access, limits, refusals, files, engine,
                   bucket, told, events>>

\* A plausible slip: the DELETE prunes recent rows too.
HandleUnauthorizedPruningAll ==
    /\ handling.step = "refuse"
    /\ LET c == handling.chat
           reply == IsDM(c) /\ refusals[c] = "none"
       IN  /\ refusals' = [d \in Chats |-> IF d = c /\ reply THEN "sent" ELSE "none"]
           /\ handling' = IF reply THEN [handling EXCEPT !.step = "tell"] ELSE Idle
    /\ UNCHANGED <<live, sent, paused, access, limits, rows, files, engine, bucket, told, bounds>>

\* _handle_unauthorized: the row first (which prunes old ones), then the reply.
HandleUnauthorized ==
    /\ handling.step = "refuse"
    /\ LET c == handling.chat
           reply == IsDM(c) /\ refusals[c] = "none"
       IN  /\ refusals' = [d \in Chats |-> IF d = c /\ reply THEN "sent"
                                           ELSE IF refusals[d] = "old" THEN "none"
                                           ELSE refusals[d]]
           /\ handling' = IF reply THEN [handling EXCEPT !.step = "tell"] ELSE Idle
    /\ UNCHANGED <<live, sent, paused, access, limits, rows, files, engine, bucket, told, bounds>>

Tell(delivered) ==
    /\ handling.step = "tell"
    /\ told' = IF delivered THEN [told EXCEPT ![handling.chat] = @ + 1] ELSE told
    /\ handling' = Idle
    /\ UNCHANGED <<live, sent, paused, access, tables, engine, bucket, bounds>>

\* The limiter knows only users other than the owner, and only in DMs.
CheckRateLimit ==
    /\ handling.step = "limit"
    /\ IF ~IsDM(handling.chat) \/ handling.user = Owner
       THEN handling' = [handling EXCEPT !.step = "store"] /\ UNCHANGED limits
       ELSE LET key == <<handling.user, bucket>>
                counted == Count(limits, key)
            IN  IF Over(counted, key)
                THEN handling' = Idle /\ limits' = FlipAndPrune(counted, key)
                ELSE handling' = [handling EXCEPT !.step = "store"] /\ limits' = counted
    /\ UNCHANGED <<live, sent, paused, access, refusals, rows, files, engine, bucket, told, bounds>>

\* _attach_attachment_markers: rejected by kind or size, downloaded, or failed.  The
\* file is named by the message, so an edit downloads it again over the old one.
Attach(outcome) ==
    /\ handling.step = "store" /\ handling.marker = "none" /\ handling.user \in Senders
    /\ handling' = [handling EXCEPT !.marker = outcome]
    /\ files' = IF outcome = "saved" THEN files \cup {handling.m} ELSE files
    /\ UNCHANGED <<live, sent, paused, access, limits, refusals, rows, engine, bucket, told, bounds>>

\* _persist_inbound: the upsert leaves the flags of an existing row alone.
PersistInbound ==
    /\ handling.step = "store"
    /\ handling.user \in Senders => handling.marker # "none"
    /\ LET m == handling.m
           old == rows[m]
       IN  rows' = [rows EXCEPT ![m] =
               [db |-> IF handling.private THEN "private" ELSE "shared",
                rev |-> handling.rev, marker |-> handling.marker,
                consumed |-> Stored(m) /\ old.consumed,
                processed |-> Stored(m) /\ old.processed]]
    /\ handling' = [handling EXCEPT !.step = "submit"]
    /\ UNCHANGED <<live, sent, paused, access, limits, refusals, files, engine, bucket, told, bounds>>

Held(m, rev, private) == [m |-> m, rev |-> rev, private |-> private]

\* _forward_to_engine
ForwardToEngine ==
    /\ handling.step = "submit"
    /\ pending' = pending \cup {Held(handling.m, handling.rev, handling.private)}
    /\ handling' = Idle
    /\ UNCHANGED <<live, sent, paused, access, tables, turn, bucket, told, bounds>>

-----------------------------------------------------------------------------
(* The owner's commands, in the same stream of updates *)

Event == events < MaxEvents /\ events' = events + 1

Command == live /\ handling = Idle /\ Event

Pause(on) ==
    /\ Command /\ paused' = on
    /\ UNCHANGED <<live, sent, handling, access, tables, engine, bucket, told,
                   updates>>

\* A plausible slip: updates are handled concurrently.
DenyConcurrently(x) ==
    /\ live /\ Event
    /\ access' = [access EXCEPT !.allowed = @ \ {x}]
    /\ UNCHANGED <<live, sent, handling, paused, tables, engine, bucket, told,
                   updates>>

Deny(x) ==
    /\ Command /\ access' = [access EXCEPT !.allowed = @ \ {x}]
    /\ UNCHANGED <<live, sent, handling, paused, tables, engine, bucket, told,
                   updates>>

Allow(x) ==
    /\ Command /\ access' = [access EXCEPT !.allowed = @ \cup {x}]
    /\ UNCHANGED <<live, sent, handling, paused, tables, engine, bucket, told,
                   updates>>

Policy(p) ==
    /\ Command /\ access' = [access EXCEPT !.policy = p]
    /\ UNCHANGED <<live, sent, handling, paused, tables, engine, bucket, told,
                   updates>>

-----------------------------------------------------------------------------
(* Engine, clock, restarts *)

\* A turn takes what is buffered for one session and marks it consumed.
TurnStarts(b) ==
    /\ live /\ turn = {} /\ b # {} /\ b \subseteq pending
    /\ \/ b = {p \in pending : ~p.private}
       \/ \E c \in Chats : b = {p \in pending : p.private /\ sent[p.m].chat = c}
    /\ turn' = b /\ pending' = pending \ b
    /\ rows' = [m \in Ids |-> IF \E p \in b : p.m = m /\ p.private = (rows[m].db = "private")
                              THEN [rows[m] EXCEPT !.consumed = TRUE] ELSE rows[m]]
    /\ UNCHANGED <<live, sent, handling, paused, access, limits, refusals, files,
                   bucket, told, bounds>>

\* Only a clean end makes its rows trusted.
TurnEnds(clean) ==
    /\ live /\ turn # {}
    /\ turn' = {}
    /\ rows' = [m \in Ids |-> IF clean /\ \E p \in turn : p.m = m /\ p.private = (rows[m].db = "private")
                              THEN [rows[m] EXCEPT !.processed = TRUE] ELSE rows[m]]
    /\ UNCHANGED <<live, sent, handling, paused, access, limits, refusals, files, pending,
                   bucket, told, bounds>>

Tick ==
    /\ Event /\ bucket' = bucket + 1
    /\ UNCHANGED <<live, sent, handling, paused, access, tables, engine, told, updates>>

\* The retention of refusals passes; no handler takes that long.
MonthPasses ==
    /\ handling = Idle /\ Event
    /\ refusals' = [c \in Chats |-> IF refusals[c] = "sent" THEN "old" ELSE refusals[c]]
    /\ told' = [c \in Chats |-> 0]
    /\ UNCHANGED <<live, sent, handling, paused, access, limits, rows, files, engine, bucket,
                   updates>>

\* /kill, or the process is killed: what is in memory is gone.
Die ==
    /\ live /\ Event
    /\ live' = FALSE /\ handling' = Idle /\ paused' = FALSE /\ pending' = {} /\ turn' = {}
    /\ UNCHANGED <<sent, access, tables, bucket, told, updates>>

\* A plausible slip: the private database is not replayed.
ReplayShared(m) == Stored(m) /\ ~rows[m].consumed /\ rows[m].db = "shared"

\* fetch_unconsumed_inbound, of both databases
Replay(m) == Stored(m) /\ ~rows[m].consumed

\* A plausible slip: a replayed message is the shared session's.
ReplayedAsShared(m) == Held(m, rows[m].rev, FALSE)

\* Every chat in the private database is private.
Replayed(m) == Held(m, rows[m].rev, rows[m].db = "private")

\* Boot: rows up to `old' are older than a day and are settled, the others replayed,
\* before polling starts.  What Telegram queued meanwhile is dropped.
Boot(old) ==
    /\ ~live /\ live' = TRUE
    /\ pending' = {Replayed(m) : m \in {n \in Ids : Replay(n) /\ n > old}}
    /\ rows' = [m \in Ids |-> IF Stored(m) /\ m <= old
                              THEN [rows[m] EXCEPT !.consumed = TRUE] ELSE rows[m]]
    /\ UNCHANGED <<sent, handling, paused, access, limits, refusals, files, turn, bucket,
                   told, bounds>>

-----------------------------------------------------------------------------
Init ==
    /\ live = TRUE /\ sent = <<>> /\ handling = Idle /\ paused = FALSE
    /\ \/ access = [policy |-> "owner_only", allowed |-> {}]
       \/ access \in [policy : Policies \ {"owner_only"}, allowed : {People \cup {Group}}]
    /\ limits = NoRows /\ refusals = [c \in Chats |-> "none"]
    /\ rows = [m \in Ids |-> NoRow] /\ files = {}
    /\ pending = {} /\ turn = {} /\ bucket = 0 /\ told = [c \in Chats |-> 0]
    /\ updates = 0 /\ events = 0

Handler ==
    \/ HandleUnauthorized \/ CheckRateLimit \/ PersistInbound \/ ForwardToEngine
    \/ \E delivered \in BOOLEAN : Tell(delivered)
    \/ \E outcome \in {"saved", "rejected", "failed"} : Attach(outcome)

Next ==
    \/ \E u \in Users, c \in Chats : Message(u, c)
    \/ \E m \in Ids : EditedMessage(m) \/ OnEdited(m)
    \/ Handler
    \/ \E on \in BOOLEAN : Pause(on)
    \/ \E x \in People \cup {Group} : Allow(x) \/ Deny(x)
    \/ \E p \in Policies : Policy(p)
    \/ \E b \in SUBSET pending : TurnStarts(b)
    \/ \E clean \in BOOLEAN : TurnEnds(clean)
    \/ Tick \/ MonthPasses \/ Die
    \/ \E old \in 0 .. MaxUpdates : Boot(old)

Spec == Init /\ [][Next]_vars

-----------------------------------------------------------------------------
(* Properties *)

Row == [db : {"shared", "private"}, rev : Nat, marker : {"none", "saved", "rejected", "failed"},
        consumed : BOOLEAN, processed : BOOLEAN]
Item == [m : Ids, rev : Nat, private : BOOLEAN]
Handling ==
    [step : {"refuse", "tell", "limit", "store", "submit"}, m : Ids, rev : Nat, user : Users,
     chat : Chats, private : BOOLEAN, marker : {"none", "saved", "rejected", "failed"}]

\* Types of the tables, the buffer and the handler.
TypeOK ==
    /\ live \in BOOLEAN /\ paused \in BOOLEAN
    /\ sent \in Seq([user : Users, chat : Chats, rev : Nat]) /\ Len(sent) <= updates
    /\ handling \in Handling \cup {Idle}
    /\ access \in [policy : Policies, allowed : SUBSET (People \cup {Group})]
    /\ IsTable(limits, People \X (0 .. bucket))
    /\ refusals \in [Chats -> {"none", "sent", "old"}] /\ told \in [Chats -> Nat]
    /\ rows \in [Ids -> Row \cup {NoRow}]
    /\ files \subseteq Ids
    /\ pending \subseteq Item /\ turn \subseteq Item
    /\ bucket \in Nat /\ updates \in 0 .. MaxUpdates /\ events \in 0 .. MaxEvents

\* A message past the gate is still let in by access.json at every later step of its
\* handler: a /deny or /policy answered before is never overtaken (access.py: "edits take
\* effect immediately").
AdmittedStaysAdmitted ==
    handling.step \in {"limit", "store", "submit"}
        => handling.private \/ Gate(handling.user, handling.chat)

\* However often a stranger writes, and whatever is killed between the row and the reply,
\* a chat gets one refusal for every retention period.
OneRefusal == \A c \in Chats : told[c] <= 1

\* While the process is up, a row that no turn has taken is in the buffer or still in its
\* handler: nothing stored is forgotten until the next boot.
NoRowForgotten ==
    live => \A m \in Ids :
        Stored(m) /\ ~rows[m].consumed
            => \/ \E p \in pending : p.m = m
               \/ handling.step = "submit" /\ handling.m = m

\* What goes to the shared session is never a row of the private database, nor the other
\* way round, also after a boot.
PrivateStaysPrivate ==
    \A p \in pending \cup turn : Stored(p.m) /\ p.private = (rows[p.m].db = "private")

\* A row counts as processed only for the text that was processed (mark_edited: "a
\* committed benign message can't be edited into poison after the fact").
TrustIsForThisText ==
    [][\A m \in Ids : Stored(m) /\ rows[m].processed /\ rows'[m].rev # rows[m].rev
            => ~rows'[m].processed]_vars

-----------------------------------------------------------------------------
(* Inductive invariant *)

\* The private flag of a message, of whoever sent it, in this chat.
IsSecret(m) == Secret(sent[m].user, sent[m].chat)

\* A handler carries its message's sender, and has stored the row it submits.
HandlingFollowsSender ==
    handling # Idle =>
        /\ handling.m \in DOMAIN sent
        /\ handling.private = IsSecret(handling.m)
        /\ handling.step = "submit" => Stored(handling.m)

\* So does a row, by its database.
RowsFollowSender ==
    \A m \in Ids : Stored(m) => m \in DOMAIN sent /\ (rows[m].db = "private") = IsSecret(m)

\* A process that is down handles and holds nothing.
DownIsEmpty == ~live => handling = Idle /\ pending = {} /\ turn = {}

\* Who was told in this period has a row that says so, and who is about to be was not.
RefusalsHaveRows ==
    /\ \A c \in Chats : told[c] = 0 \/ (told[c] = 1 /\ refusals[c] = "sent")
    /\ handling.step = "tell" => refusals[handling.chat] = "sent" /\ told[handling.chat] = 0

IInv ==
    /\ TypeOK /\ HandlingFollowsSender /\ RowsFollowSender /\ DownIsEmpty
    /\ RefusalsHaveRows /\ AdmittedStaysAdmitted /\ NoRowForgotten /\ PrivateStaysPrivate
================================================================================
