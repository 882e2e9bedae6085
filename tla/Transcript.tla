------------------------------- MODULE Transcript ------------------------------
(***************************************************************************)
(* The messages of a chat as Telegram holds them and as the messages table *)
(* does: the bot's tools (hamroh/tools/telegram) change Telegram first and *)
(* the row after it, in separate awaits; people's reactions come as        *)
(* updates, handled one at a time (dispatcher._on_reaction), and the       *)
(* reactions of a row are read, changed and written back.                  *)
(*                                                                         *)
(* Message 0 is a person's, stored before; the others are the bot's.  Its  *)
(* text is the number of the edit.                                         *)
(***************************************************************************)
EXTENDS Naturals, Sequences, FiniteSets, SequencesExt

CONSTANTS ToolCalls,
          Emojis,
          MaxSent,      \* bound: messages the bot sends
          MaxChanges,   \* bound: edits, deletions and reactions
          MaxDeaths     \* bound

VARIABLES
    telegram,     \* the messages as Telegram holds them
    table,        \* the messages table, the same way
    calling,      \* each tool call under way
    reactions,    \* reaction updates not handled yet
    handler,      \* the one being handled
    torn,         \* history: messages an event the code leaves unguarded touched
    sent, changes, deaths

vars == <<telegram, table, calling, reactions, handler, torn, sent, changes, deaths>>

Ids == 0 .. MaxSent
Who == {"bot", "person"}
Free == [op |-> "none"]
NoMessage == [at |-> "none"]
Plain == [at |-> "chat", text |-> 0, deleted |-> FALSE, by |-> [w \in Who |-> {}]]

Known(i) == telegram[i] # NoMessage /\ ~telegram[i].deleted
Stored(i) == table[i] # NoMessage

\* Calls of one kind under way on message i.
Doing(op, i) == {t \in ToolCalls : calling[t].op = op /\ calling[t].id = i}

Change == changes < MaxChanges /\ changes' = changes + 1
Becomes(t, c) == calling' = [calling EXCEPT ![t] = c]

-----------------------------------------------------------------------------
(* telegram_send_message: all chunks are sent, then all are stored *)

Send(t, chunks) ==
    /\ calling[t] = Free
    /\ Becomes(t, [op |-> "send", left |-> chunks, ids |-> <<>>, id |-> -1])
    /\ UNCHANGED <<telegram, table, reactions, handler, torn, sent, changes, deaths>>

Deliver(t) ==
    /\ calling[t].op = "send" /\ calling[t].left > 0
    /\ sent < MaxSent /\ sent' = sent + 1
    /\ telegram' = [telegram EXCEPT ![sent'] = Plain]
    /\ Becomes(t, [calling[t] EXCEPT !.left = @ - 1, !.ids = Append(@, sent')])
    /\ UNCHANGED <<table, reactions, handler, torn, changes, deaths>>

\* Telegram refuses a chunk: the tool raises, and those delivered before it have no row.
ChunkFails(t) ==
    /\ calling[t].op = "send" /\ calling[t].left > 0
    /\ torn' = torn \cup ToSet(calling[t].ids)
    /\ Becomes(t, Free)
    /\ UNCHANGED <<telegram, table, reactions, handler, sent, changes, deaths>>

\* A plausible slip: only the first chunk, whose id the tool returns, is stored.
RecordFirst(t) ==
    /\ calling[t].op = "send" /\ calling[t].left = 0
    /\ table' = [table EXCEPT ![Head(calling[t].ids)] = Plain]
    /\ Becomes(t, Free)
    /\ UNCHANGED <<telegram, reactions, handler, torn, sent, changes, deaths>>

Record(t) ==
    /\ calling[t].op = "send" /\ calling[t].left = 0
    /\ table' = [table EXCEPT ![Head(calling[t].ids)] = Plain]
    /\ Becomes(t, IF Len(calling[t].ids) = 1 THEN Free ELSE [calling[t] EXCEPT !.ids = Tail(@)])
    /\ UNCHANGED <<telegram, reactions, handler, torn, sent, changes, deaths>>

-----------------------------------------------------------------------------
(* Edits and deletions *)

\* Two edits of one message under way: which row comes last is open.
Edit(t, i) ==
    /\ calling[t] = Free /\ i # 0 /\ Known(i) /\ Change
    /\ telegram' = [telegram EXCEPT ![i].text = changes']
    /\ Becomes(t, [op |-> "edit", id |-> i, text |-> changes'])
    /\ torn' = IF Doing("edit", i) = {} THEN torn ELSE torn \cup {i}
    /\ UNCHANGED <<table, reactions, handler, sent, deaths>>

\* An UPDATE of a row that is not there changes nothing.
MarkEdited(t) ==
    /\ calling[t].op = "edit"
    /\ LET i == calling[t].id
       IN  IF Stored(i)
           THEN table' = [table EXCEPT ![i].text = calling[t].text] /\ UNCHANGED torn
           ELSE torn' = torn \cup {i} /\ UNCHANGED table
    /\ Becomes(t, Free)
    /\ UNCHANGED <<telegram, reactions, handler, sent, changes, deaths>>

Delete(t, i) ==
    /\ calling[t] = Free /\ Known(i) /\ Change
    /\ telegram' = [telegram EXCEPT ![i].deleted = TRUE]
    /\ Becomes(t, [op |-> "delete", id |-> i])
    /\ UNCHANGED <<table, reactions, handler, torn, sent, deaths>>

MarkDeleted(t) ==
    /\ calling[t].op = "delete"
    /\ LET i == calling[t].id
       IN  IF Stored(i)
           THEN table' = [table EXCEPT ![i].deleted = TRUE] /\ UNCHANGED torn
           ELSE torn' = torn \cup {i} /\ UNCHANGED table
    /\ Becomes(t, Free)
    /\ UNCHANGED <<telegram, reactions, handler, sent, changes, deaths>>

-----------------------------------------------------------------------------
(* Reactions *)

Reactions(i) == IF Stored(i) THEN table[i].by ELSE [w \in Who |-> {}]

\* The write puts back what was read, changed: it loses what was written in between.
StoreReactions(i, read, by) ==
    IF Stored(i)
    THEN /\ table' = [table EXCEPT ![i].by = by]
         /\ torn' = IF table[i].by = read THEN torn ELSE torn \cup {i}
    ELSE /\ torn' = torn \cup {i}
         /\ UNCHANGED table

React(t, i, e) ==
    /\ calling[t] = Free /\ Known(i) /\ Change
    /\ telegram' = [telegram EXCEPT ![i].by["bot"] = {e}]
    /\ Becomes(t, [op |-> "react", id |-> i, emoji |-> e])
    /\ torn' = IF Doing("react", i) \cup Doing("store", i) = {} THEN torn ELSE torn \cup {i}
    /\ UNCHANGED <<table, reactions, handler, sent, deaths>>

LoadReactions(t) ==
    /\ calling[t].op = "react"
    /\ Becomes(t, [op |-> "store", id |-> calling[t].id, emoji |-> calling[t].emoji,
                   read |-> Reactions(calling[t].id)])
    /\ UNCHANGED <<telegram, table, reactions, handler, torn, sent, changes, deaths>>

\* The bot has one reaction on a message: its earlier one goes.
AddBotReaction(t) ==
    /\ calling[t].op = "store"
    /\ StoreReactions(calling[t].id, calling[t].read,
                      [calling[t].read EXCEPT !["bot"] = {calling[t].emoji}])
    /\ Becomes(t, Free)
    /\ UNCHANGED <<telegram, reactions, handler, sent, changes, deaths>>

\* A person changes or takes back the reaction; the update says what it was before.
PersonReacts(i, new) ==
    /\ Known(i) /\ new # telegram[i].by["person"] /\ Change
    /\ telegram' = [telegram EXCEPT ![i].by["person"] = new]
    /\ reactions' = Append(reactions, [id |-> i, old |-> telegram[i].by["person"], new |-> new])
    /\ UNCHANGED <<table, calling, handler, torn, sent, deaths>>

OnReaction ==
    /\ handler = Free /\ reactions # <<>>
    /\ handler' = [op |-> "handle", id |-> Head(reactions).id, update |-> Head(reactions),
                   read |-> Reactions(Head(reactions).id)]
    /\ reactions' = Tail(reactions)
    /\ UNCHANGED <<telegram, table, calling, torn, sent, changes, deaths>>

ApplyUserReaction ==
    /\ handler # Free
    /\ StoreReactions(handler.id, handler.read,
           [handler.read EXCEPT !["person"] = (@ \ handler.update.old) \cup handler.update.new])
    /\ handler' = Free
    /\ UNCHANGED <<telegram, calling, reactions, sent, changes, deaths>>

\* Messages with work under way: of a call, of the handler, of an update in the queue.
Busy(i) ==
    \/ \E t \in ToolCalls : calling[t] # Free
           /\ (calling[t].id = i \/ (calling[t].op = "send" /\ i \in ToSet(calling[t].ids)))
    \/ handler # Free /\ handler.id = i
    \/ \E r \in ToSet(reactions) : r.id = i

\* A death between the two halves of a call; updates that wait are dropped at the start.
Restart ==
    /\ deaths < MaxDeaths /\ deaths' = deaths + 1
    /\ torn' = torn \cup {i \in Ids : Busy(i)}
    /\ calling' = [t \in ToolCalls |-> Free] /\ reactions' = <<>> /\ handler' = Free
    /\ UNCHANGED <<telegram, table, sent, changes>>

-----------------------------------------------------------------------------
Init ==
    /\ telegram = [i \in Ids |-> IF i = 0 THEN Plain ELSE NoMessage] /\ table = telegram
    /\ calling = [t \in ToolCalls |-> Free] /\ reactions = <<>> /\ handler = Free
    /\ torn = {} /\ sent = 0 /\ changes = 0 /\ deaths = 0

Next ==
    \/ \E t \in ToolCalls :
          \/ \E chunks \in 1..2 : Send(t, chunks)
          \/ Deliver(t) \/ ChunkFails(t) \/ Record(t)
          \/ \E i \in Ids : Edit(t, i) \/ Delete(t, i) \/ \E e \in Emojis : React(t, i, e)
          \/ MarkEdited(t) \/ MarkDeleted(t) \/ LoadReactions(t) \/ AddBotReaction(t)
    \/ \E i \in Ids, new \in {{}} \cup {{e} : e \in Emojis} : PersonReacts(i, new)
    \/ OnReaction \/ ApplyUserReaction \/ Restart

Spec == Init /\ [][Next]_vars

-----------------------------------------------------------------------------
By == [Who -> SUBSET Emojis]
Message == [at : {"chat"}, text : 0 .. MaxChanges, deleted : BOOLEAN, by : By]
Update == [id : Ids, old : SUBSET Emojis, new : SUBSET Emojis]
Calling ==
    [op : {"send"}, left : 0 .. 2, ids : Seq(Ids), id : {-1}]
        \cup [op : {"edit"}, id : Ids, text : 0 .. MaxChanges]
        \cup [op : {"delete"}, id : Ids]
        \cup [op : {"react"}, id : Ids, emoji : Emojis]
        \cup [op : {"store"}, id : Ids, emoji : Emojis, read : By]
Handling == [op : {"handle"}, id : Ids, update : Update, read : By]

\* Types of the messages, the rows and the calls.
TypeOK ==
    /\ telegram \in [Ids -> {NoMessage} \cup Message]
    /\ table \in [Ids -> {NoMessage} \cup Message]
    /\ calling \in [ToolCalls -> {Free} \cup Calling]
    /\ reactions \in Seq(Update) /\ handler \in {Free} \cup Handling
    /\ handler # Free => handler.id = handler.update.id
    /\ torn \subseteq Ids /\ sent \in 0 .. MaxSent /\ changes \in 0 .. MaxChanges

\* A message nothing is under way on is stored as Telegram has it: its text, everyone's
\* reactions, or that it was deleted.  Apart are those a call left half done by a death or
\* by a refused chunk, changed before they were stored, edited or reacted to twice at
\* once, or with a reaction lost between a read and a write (db/messages.py:371-407).
RowsFollowTelegram ==
    \A i \in Ids \ torn : ~Busy(i) =>
        /\ telegram[i] = NoMessage <=> table[i] = NoMessage
        /\ Stored(i) =>
               /\ table[i].deleted = telegram[i].deleted
               /\ table[i].text = telegram[i].text /\ table[i].by = telegram[i].by

-----------------------------------------------------------------------------
(* Inductive invariant *)

\* The row of a message, or what it will be when it is stored.
Row(i) == IF Stored(i) THEN table[i] ELSE Plain
Sending(t) == calling[t].op = "send"
Delivered(i) == telegram[i] # NoMessage

\* Who changes a message changes one that was delivered, and rows are of such.
ChangesAreOfMessages ==
    /\ \A i \in Ids : Delivered(i) <=> i <= sent
    /\ \A i \in Ids : Stored(i) => Delivered(i)
    /\ \A t \in ToolCalls :
           calling[t].op \in {"edit", "delete", "react", "store"} => Delivered(calling[t].id)
    /\ handler # Free => Delivered(handler.id)
    /\ \A k \in DOMAIN reactions : Delivered(reactions[k].id)

\* Each message that a send delivered and has not stored is in one place of one call.
SendsApart ==
    \A t \in ToolCalls : Sending(t) =>
        /\ calling[t].left = 0 => calling[t].ids # <<>>
        /\ \A j \in DOMAIN calling[t].ids :
               Delivered(calling[t].ids[j]) /\ ~Stored(calling[t].ids[j])
        /\ \A u \in ToolCalls : Sending(u) =>
               \A j \in DOMAIN calling[t].ids, k \in DOMAIN calling[u].ids :
                   calling[t].ids[j] = calling[u].ids[k] => t = u /\ j = k

\* What was delivered is stored, or will be.
RowsCome ==
    \A i \in Ids \ torn : Delivered(i) =>
        Stored(i) \/ \E t \in ToolCalls : Sending(t) /\ i \in ToSet(calling[t].ids)

\* A row differs from its message in what one call is about to write.
Carried(i) ==
    /\ Doing("edit", i) = {} => Row(i).text = telegram[i].text
    /\ \A t \in Doing("edit", i) : calling[t].text = telegram[i].text
    /\ Doing("delete", i) = {} => Row(i).deleted = telegram[i].deleted
    /\ Doing("delete", i) # {} => telegram[i].deleted
    /\ Doing("react", i) \cup Doing("store", i) = {} => Row(i).by["bot"] = telegram[i].by["bot"]
    /\ \A t \in Doing("react", i) \cup Doing("store", i) :
           telegram[i].by["bot"] = {calling[t].emoji}

CallsCarry == \A i \in Ids \ torn : Delivered(i) => Carried(i)

\* From reaction b on, the updates of queue q before place k leave v on message i.
Leaves(q, i, b, k, v) ==
    \/ v = b /\ \A l \in 1 .. (k - 1) : q[l].id # i
    \/ \E j \in 1 .. (k - 1) :
           /\ q[j].id = i /\ v = q[j].new
           /\ \A l \in (j + 1) .. (k - 1) : q[l].id # i

\* The updates of queue q lead, each from what those before it leave, from b to v.
Lead(q, i, b, v) ==
    /\ \A k \in DOMAIN q : q[k].id = i => Leaves(q, i, b, k, q[k].old)
    /\ Leaves(q, i, b, Len(q) + 1, v)

\* A person's updates lead from the row, and the update being handled, to the message.
Handled(i) == handler # Free /\ handler.id = i
Reached(i) == IF Handled(i) THEN handler.update.new ELSE Row(i).by["person"]
UpdatesLead ==
    \A i \in Ids \ torn : Delivered(i) =>
        /\ Handled(i) => handler.update.old = Row(i).by["person"]
        /\ Lead(reactions, i, Reached(i), telegram[i].by["person"])

IInv ==
    /\ TypeOK /\ ChangesAreOfMessages /\ SendsApart /\ RowsCome /\ CallsCarry /\ UpdatesLead
    /\ RowsFollowTelegram
================================================================================
