----------------------------- MODULE MCInbound_proofs -----------------------------
(***************************************************************************)
(* Proofs about the way in from Telegram (Inbound, as the part "inbound"   *)
(* of MCMessages), for any users, groups and bounds.                       *)
(***************************************************************************)
EXTENDS MCMessages, SequenceTheorems, TLAPS

\* What the types say of a handler at work.
LEMMA HandlingFacts ==
  ASSUME In!TypeOK, handling.step # "idle"
  PROVE  /\ handling \in In!Handling
         /\ handling.m \in In!Ids /\ handling.rev \in Nat /\ handling.user \in In!Users
         /\ handling.chat \in In!Chats /\ handling.private \in BOOLEAN
         /\ handling.marker \in {"none", "saved", "rejected", "failed"}
  BY DEF In!TypeOK, In!Handling, In!Idle

\* A handler moves on to its next step.
LEMMA HandlingMoves ==
  ASSUME NEW h \in In!Handling, NEW s \in {"tell", "store", "submit"}
  PROVE  /\ [h EXCEPT !.step = s] \in In!Handling
         /\ [h EXCEPT !.step = s].step = s
         /\ [h EXCEPT !.step = s].m = h.m
         /\ [h EXCEPT !.step = s].user = h.user /\ [h EXCEPT !.step = s].chat = h.chat
         /\ [h EXCEPT !.step = s].private = h.private
  BY DEF In!Handling

LEMMA HandlingMarked ==
  ASSUME NEW h \in In!Handling, NEW o \in {"saved", "rejected", "failed"}
  PROVE  /\ [h EXCEPT !.marker = o] \in In!Handling
         /\ [h EXCEPT !.marker = o].step = h.step
         /\ [h EXCEPT !.marker = o].m = h.m
         /\ [h EXCEPT !.marker = o].user = h.user /\ [h EXCEPT !.marker = o].chat = h.chat
         /\ [h EXCEPT !.marker = o].private = h.private
  BY DEF In!Handling

\* A handler begins, at its gate, or the update is dropped.
LEMMA HandlingBegins ==
  ASSUME NEW m \in In!Ids, NEW u \in In!Users, NEW c \in In!Chats, NEW rev \in Nat,
         In!Arrives(m, u, c, rev)
  PROVE  \/ handling' = In!Idle
         \/ /\ handling' \in In!Handling
            /\ handling'.step \in {"limit", "refuse"}
            /\ handling'.step = "limit" => In!Secret(u, c) \/ In!Gate(u, c)
            /\ handling'.m = m /\ handling'.user = u /\ handling'.chat = c
            /\ handling'.private = In!Secret(u, c)
  BY DEF In!Arrives, In!Handling, In!Secret

\* The statements of the limiter keep its table's types.
LEMMA CountTypes ==
  ASSUME NEW K, NEW t, In!IsTable(t, K), NEW key \in K
  PROVE  In!IsTable(In!Count(t, key), K)
<1> DEFINE old == IF key \in DOMAIN t THEN t[key] ELSE [count |-> 0, notified |-> FALSE]
           new == [old EXCEPT !.count = @ + 1]
<1>1. old \in [count : Nat, notified : BOOLEAN]
  BY DEF In!IsTable
<1>2. \A r \in [count : Nat, notified : BOOLEAN] :
          [r EXCEPT !.count = @ + 1] \in [count : Nat, notified : BOOLEAN]
  OBVIOUS
<1>3. In!Count(t, key) = [k \in DOMAIN t \cup {key} |-> IF k = key THEN new ELSE t[k]]
  BY DEF In!Count
<1> HIDE DEF old
<1>4. new \in [count : Nat, notified : BOOLEAN]
  BY <1>1, <1>2
<1> HIDE DEF new
<1>5. QED
  BY <1>3, <1>4 DEF In!IsTable

LEMMA PruneTypes ==
  ASSUME NEW K, NEW t, In!IsTable(t, K), NEW key
  PROVE  In!IsTable(In!FlipAndPrune(t, key), K)
<1> DEFINE flipped == IF key \in DOMAIN t THEN [t EXCEPT ![key].notified = TRUE] ELSE t
           kept == {k \in DOMAIN t : k[2] + 2 >= key[2]}
<1>1. flipped \in [DOMAIN t -> [count : Nat, notified : BOOLEAN]]
  BY DEF In!IsTable
<1>2. In!FlipAndPrune(t, key) = [k \in kept |-> flipped[k]]
  BY DEF In!FlipAndPrune, In!Restrict
<1> HIDE DEF flipped
<1>3. QED
  BY <1>1, <1>2 DEF In!IsTable

LEMMA TableGrows ==
  ASSUME NEW K, NEW t, In!IsTable(t, K), NEW L, K \subseteq L
  PROVE  In!IsTable(t, L)
  BY DEF In!IsTable


\* A row stays a row.
LEMMA RowFacts ==
  ASSUME NEW r \in In!Row \cup {In!NoRow}
  PROVE  /\ r # In!NoRow => /\ r \in In!Row /\ r.rev \in Nat /\ r.db \in {"shared", "private"}
                            /\ r.consumed \in BOOLEAN /\ r.processed \in BOOLEAN
                            /\ [r EXCEPT !.consumed = TRUE] \in In!Row
                            /\ [r EXCEPT !.processed = TRUE] \in In!Row
                            /\ \A n \in Nat : [r EXCEPT !.rev = n, !.processed = FALSE] \in In!Row
         /\ In!NoRow \notin In!Row
  BY DEF In!Row, In!NoRow

LEMMA RowConsumed ==
  ASSUME NEW r \in In!Row
  PROVE  [r EXCEPT !.consumed = TRUE].consumed
  BY DEF In!Row

\* The types of a behaviour's messages.
LEMMA SentTypes ==
  ASSUME In!TypeOK
  PROVE  /\ \A u \in In!Users, c \in In!Chats :
                /\ Append(sent, [user |-> u, chat |-> c, rev |-> 0])
                      \in Seq([user : In!Users, chat : In!Chats, rev : Nat])
                /\ Len(Append(sent, [user |-> u, chat |-> c, rev |-> 0])) = Len(sent) + 1
         /\ \A m \in DOMAIN sent :
                /\ sent[m] \in [user : In!Users, chat : In!Chats, rev : Nat]
                /\ [sent EXCEPT ![m].rev = @ + 1] \in Seq([user : In!Users, chat : In!Chats, rev : Nat])
                /\ Len([sent EXCEPT ![m].rev = @ + 1]) = Len(sent)
                /\ [sent EXCEPT ![m].rev = @ + 1][m].rev \in Nat
                /\ m \in 1 .. updates
         /\ Len(sent) \in Nat
<1> DEFINE S == [user : In!Users, chat : In!Chats, rev : Nat]
<1>1. sent \in Seq(S) /\ Len(sent) <= updates /\ updates \in Nat
  BY MessagesAssumption DEF In!TypeOK
<1>2. Len(sent) \in Nat /\ DOMAIN sent = 1 .. Len(sent) /\ \A m \in DOMAIN sent : sent[m] \in S
  BY <1>1, LenProperties, ElementOfSeq
<1>3. ASSUME NEW m \in DOMAIN sent
      PROVE  /\ [sent EXCEPT ![m].rev = @ + 1] \in Seq(S)
             /\ Len([sent EXCEPT ![m].rev = @ + 1]) = Len(sent)
             /\ [sent EXCEPT ![m].rev = @ + 1][m].rev \in Nat
  <2> DEFINE new == [sent[m] EXCEPT !.rev = @ + 1]
             s == [sent EXCEPT ![m] = new]
  <2>1. new \in S /\ new.rev \in Nat
    BY <1>2
  <2>2. s = [sent EXCEPT ![m].rev = @ + 1]
    OBVIOUS
  <2> HIDE DEF new
  <2>3. s \in Seq(S) /\ Len(s) = Len(sent) /\ s[m] = new
    BY <1>1, <1>2, <2>1, ExceptSeq
  <2>4. QED
    BY <2>1, <2>2, <2>3
<1>4. ASSUME NEW u \in In!Users, NEW c \in In!Chats
      PROVE  /\ Append(sent, [user |-> u, chat |-> c, rev |-> 0]) \in Seq(S)
             /\ Len(Append(sent, [user |-> u, chat |-> c, rev |-> 0])) = Len(sent) + 1
  BY <1>1, AppendProperties
<1>5. ASSUME NEW m \in DOMAIN sent PROVE m \in 1 .. updates
  BY <1>1, <1>2
<1>6. QED
  BY <1>2, <1>3, <1>4, <1>5

\* An edit counts as an update and adds no message.
LEMMA UpdateCounts ==
  ASSUME In!TypeOK, updates < MaxUpdates, updates' = updates + 1, Len(sent') = Len(sent)
  PROVE  Len(sent') <= updates' /\ updates' \in 0 .. MaxUpdates
<1>1. updates \in 0 .. MaxUpdates /\ Len(sent) <= updates /\ Len(sent) \in Nat
  BY SentTypes DEF In!TypeOK
<1>2. updates' \in 0 .. MaxUpdates
  BY <1>1, MessagesAssumption
<1>3. QED
  BY <1>1, <1>2

\* Every step keeps the types.
LEMMA InTypes ==
  ASSUME In!TypeOK, In!PrivateStaysPrivate, In!Next
  PROVE  In!TypeOK'
<1>1. ASSUME NEW u \in In!Users, NEW c \in In!Chats, In!Message(u, c) PROVE In!TypeOK'
  <2>1. sent' \in Seq([user : In!Users, chat : In!Chats, rev : Nat]) /\ Len(sent') <= updates'
    BY <1>1, SentTypes, MessagesAssumption DEF In!Message, In!Update, In!TypeOK
  <2>2. Len(sent) + 1 \in In!Ids
    BY <1>1, SentTypes, MessagesAssumption DEF In!Message, In!Update, In!TypeOK, In!Ids
  <2>3. handling' \in In!Handling \cup {In!Idle}
    BY <1>1, <2>2, HandlingBegins DEF In!Message
  <2>4. QED
    BY <1>1, <2>1, <2>2, <2>3, MessagesAssumption DEF In!TypeOK, In!Message, In!Update,
       In!tables, In!engine
<1>2. ASSUME NEW m \in In!Ids, In!EditedMessage(m) PROVE In!TypeOK'
  <2>1. /\ m \in DOMAIN sent /\ updates < MaxUpdates /\ updates' = updates + 1
        /\ sent' = [sent EXCEPT ![m].rev = @ + 1]
    BY <1>2 DEF In!EditedMessage, In!Update
  <2>2. /\ sent' \in Seq([user : In!Users, chat : In!Chats, rev : Nat]) /\ Len(sent') = Len(sent)
        /\ sent'[m].rev \in Nat /\ sent[m] \in [user : In!Users, chat : In!Chats, rev : Nat]
    BY <1>2, <2>1, SentTypes
  <2>3. Len(sent') <= updates' /\ updates' \in 0 .. MaxUpdates
    BY <2>1, <2>2, UpdateCounts
  <2>4. handling' \in In!Handling \cup {In!Idle}
    BY <1>2, <2>1, <2>2, HandlingBegins DEF In!EditedMessage
  <2>5. QED
    BY <1>2, <2>1, <2>2, <2>3, <2>4, MessagesAssumption DEF In!TypeOK, In!EditedMessage,
       In!Update, In!tables, In!engine
<1>3. ASSUME NEW m \in In!Ids, In!OnEdited(m) PROVE In!TypeOK'
  <2>1. /\ m \in DOMAIN sent /\ updates < MaxUpdates /\ updates' = updates + 1
        /\ sent' = [sent EXCEPT ![m].rev = @ + 1]
    BY <1>3 DEF In!OnEdited, In!Update
  <2>2. /\ sent' \in Seq([user : In!Users, chat : In!Chats, rev : Nat]) /\ Len(sent') = Len(sent)
        /\ sent'[m].rev \in Nat /\ sent[m] \in [user : In!Users, chat : In!Chats, rev : Nat]
    BY <1>3, <2>1, SentTypes
  <2>3. Len(sent') <= updates' /\ updates' \in 0 .. MaxUpdates
    BY <2>1, <2>2, UpdateCounts
  <2>4. rows' \in [In!Ids -> In!Row \cup {In!NoRow}]
    BY <1>3, <2>2, RowFacts DEF In!OnEdited, In!TypeOK, In!Stored
  <2>5. QED
    BY <1>3, <2>1, <2>2, <2>3, <2>4, MessagesAssumption DEF In!TypeOK, In!OnEdited,
       In!Update, In!engine
<1>4. ASSUME In!HandleUnauthorized PROVE In!TypeOK'
  <2>1. handling' \in In!Handling \cup {In!Idle}
    BY <1>4, HandlingFacts, HandlingMoves DEF In!HandleUnauthorized
  <2>2. refusals' \in [In!Chats -> {"none", "sent", "old"}]
    BY <1>4 DEF In!HandleUnauthorized, In!TypeOK
  <2>3. QED
    BY <1>4, <2>1, <2>2, MessagesAssumption DEF In!TypeOK, In!HandleUnauthorized,
       In!engine, In!bounds
<1>5. ASSUME In!CheckRateLimit PROVE In!TypeOK'
  <2>1. handling' \in In!Handling \cup {In!Idle}
    BY <1>5, HandlingFacts, HandlingMoves DEF In!CheckRateLimit
  <2>2. In!IsDM(handling.chat) /\ handling.user # Owner => <<handling.user, bucket>> \in People \X (0 .. bucket)
    BY <1>5, HandlingFacts DEF In!CheckRateLimit, In!TypeOK, In!Users
  <2>3. In!IsTable(limits, People \X (0 .. bucket))
    BY <1>5 DEF In!TypeOK
  <2>4. In!IsTable(limits', People \X (0 .. bucket))
    BY <1>5, <2>2, <2>3, CountTypes, PruneTypes DEF In!CheckRateLimit
  <2>5. QED
    BY <1>5, <2>1, <2>2, <2>3, <2>4, MessagesAssumption DEF In!TypeOK, In!CheckRateLimit,
       In!engine, In!bounds
<1>6. ASSUME In!PersistInbound PROVE In!TypeOK'
  <2>1. handling' \in In!Handling \cup {In!Idle}
    BY <1>6, HandlingFacts, HandlingMoves DEF In!PersistInbound
  <2>2. rows' \in [In!Ids -> In!Row \cup {In!NoRow}]
    BY <1>6, HandlingFacts DEF In!PersistInbound, In!TypeOK, In!Stored, In!Row, In!NoRow
  <2>3. QED
    BY <1>6, <2>1, <2>2, MessagesAssumption DEF In!TypeOK, In!PersistInbound, In!engine,
       In!bounds
<1>7. ASSUME In!ForwardToEngine PROVE In!TypeOK'
  <2>1. pending' \subseteq In!Item
    BY <1>7, HandlingFacts DEF In!ForwardToEngine, In!Held, In!Item, In!TypeOK
  <2>2. QED
    BY <1>7, <2>1, MessagesAssumption DEF In!TypeOK, In!ForwardToEngine, In!tables,
       In!bounds
<1>8. ASSUME NEW delivered \in BOOLEAN, In!Tell(delivered) PROVE In!TypeOK'
  <2>1. told' \in [In!Chats -> Nat]
    BY <1>8, HandlingFacts DEF In!Tell, In!TypeOK
  <2>2. QED
    BY <1>8, <2>1, MessagesAssumption DEF In!TypeOK, In!Tell, In!tables, In!engine,
       In!bounds
<1>9. ASSUME NEW outcome \in {"saved", "rejected", "failed"}, In!Attach(outcome) PROVE
     In!TypeOK'
  <2>1. handling' \in In!Handling \cup {In!Idle}
    BY <1>9, HandlingFacts, HandlingMarked DEF In!Attach
  <2>2. files' \subseteq In!Ids
    BY <1>9, HandlingFacts DEF In!Attach, In!TypeOK
  <2>3. QED
    BY <1>9, <2>1, <2>2, MessagesAssumption DEF In!TypeOK, In!Attach, In!engine,
       In!bounds
<1>10. ASSUME NEW on \in BOOLEAN, In!Pause(on) PROVE In!TypeOK'
  BY <1>10, MessagesAssumption DEF In!TypeOK, In!Pause, In!Command, In!Event, In!tables,
     In!engine
<1>11. ASSUME NEW x \in People \cup {Group}, In!Allow(x) PROVE In!TypeOK'
  <2>1. access' \in [policy : In!Policies, allowed : SUBSET (People \cup {Group})]
    BY <1>11 DEF In!Allow, In!TypeOK
  <2>2. inboundEvents' \in 0 .. MaxEvents
    BY <1>11, MessagesAssumption DEF In!Allow, In!Command, In!Event, In!TypeOK
  <2>3. QED
    BY <1>11, <2>1, <2>2, MessagesAssumption DEF In!TypeOK, In!Allow, In!Command,
       In!Event, In!tables, In!engine
<1>12. ASSUME NEW x \in People \cup {Group}, In!Deny(x) PROVE In!TypeOK'
  <2>1. access' \in [policy : In!Policies, allowed : SUBSET (People \cup {Group})]
    BY <1>12 DEF In!Deny, In!TypeOK
  <2>2. inboundEvents' \in 0 .. MaxEvents
    BY <1>12, MessagesAssumption DEF In!Deny, In!Command, In!Event, In!TypeOK
  <2>3. QED
    BY <1>12, <2>1, <2>2, MessagesAssumption DEF In!TypeOK, In!Deny, In!Command,
       In!Event, In!tables, In!engine
<1>13. ASSUME NEW p \in In!Policies, In!Policy(p) PROVE In!TypeOK'
  <2>1. access' \in [policy : In!Policies, allowed : SUBSET (People \cup {Group})]
    BY <1>13 DEF In!Policy, In!TypeOK
  <2>2. inboundEvents' \in 0 .. MaxEvents
    BY <1>13, MessagesAssumption DEF In!Policy, In!Command, In!Event, In!TypeOK
  <2>3. QED
    BY <1>13, <2>1, <2>2, MessagesAssumption DEF In!TypeOK, In!Policy, In!Command,
       In!Event, In!tables, In!engine
<1>14. ASSUME NEW b \in SUBSET pending, In!TurnStarts(b) PROVE In!TypeOK'
  <2>1. rows' \in [In!Ids -> In!Row \cup {In!NoRow}]
    BY <1>14, RowFacts DEF In!TurnStarts, In!TypeOK, In!PrivateStaysPrivate, In!Stored
  <2>2. QED
    BY <1>14, <2>1, MessagesAssumption DEF In!TypeOK, In!TurnStarts, In!bounds
<1>15. ASSUME NEW clean \in BOOLEAN, In!TurnEnds(clean) PROVE In!TypeOK'
  <2>1. \A m \in In!Ids : rows'[m] \in {rows[m], [rows[m] EXCEPT !.processed = TRUE]}
            /\ (rows'[m] # rows[m] => rows[m] # In!NoRow)
    BY <1>15 DEF In!TurnEnds, In!TypeOK, In!PrivateStaysPrivate, In!Stored
  <2>2. DOMAIN rows' = In!Ids /\ rows' = [m \in In!Ids |-> rows'[m]]
    BY <1>15 DEF In!TurnEnds
  <2>3. \A m \in In!Ids : rows[m] \in In!Row \cup {In!NoRow}
    BY <1>15 DEF In!TypeOK
  <2>4. \A m \in In!Ids : rows'[m] \in In!Row \cup {In!NoRow}
    <3>1. ASSUME NEW m \in In!Ids PROVE rows'[m] \in In!Row \cup {In!NoRow}
      <4>1. CASE rows'[m] = rows[m]
        BY <2>3, <4>1
      <4>2. CASE rows'[m] # rows[m]
        <5>1. /\ rows[m] \in In!Row \cup {In!NoRow} /\ rows[m] # In!NoRow
              /\ rows'[m] = [rows[m] EXCEPT !.processed = TRUE]
          BY <2>1, <2>3, <4>2
        <5>2. QED
          BY <5>1, RowFacts
      <4>3. QED
        BY <4>1, <4>2
    <3>2. QED
      BY <3>1
  <2>5. rows' \in [In!Ids -> In!Row \cup {In!NoRow}]
    BY <1>15, <2>2, <2>4
  <2>6. QED
    BY <1>15, <2>1, <2>2, <2>3, <2>4, <2>5, MessagesAssumption DEF In!TypeOK,
       In!TurnEnds, In!bounds
<1>16. ASSUME In!Tick PROVE In!TypeOK'
  <2>1. In!IsTable(limits', People \X (0 .. bucket'))
    BY <1>16, TableGrows DEF In!Tick, In!tables, In!TypeOK
  <2>2. QED
    BY <1>16, <2>1, MessagesAssumption DEF In!TypeOK, In!Tick, In!Event, In!tables,
       In!engine
<1>17. ASSUME In!MonthPasses PROVE In!TypeOK'
  BY <1>17, MessagesAssumption DEF In!TypeOK, In!MonthPasses, In!Event, In!engine
<1>18. ASSUME In!Die PROVE In!TypeOK'
  <2>1. inboundEvents' \in 0 .. MaxEvents
    BY <1>18, MessagesAssumption DEF In!Die, In!Event, In!TypeOK
  <2>2. QED
    BY <1>18, <2>1, MessagesAssumption DEF In!TypeOK, In!Die, In!Event, In!tables
<1>19. ASSUME NEW old \in 0 .. MaxUpdates, In!Boot(old) PROVE In!TypeOK'
  <2>1. rows' \in [In!Ids -> In!Row \cup {In!NoRow}]
    BY <1>19, RowFacts DEF In!Boot, In!TypeOK, In!Stored
  <2>2. \A m \in In!Ids : In!Stored(m) => In!Replayed(m) \in In!Item
    BY <1>19, RowFacts DEF In!TypeOK, In!Replayed, In!Held, In!Item, In!Stored
  <2>3. pending' \subseteq In!Item
    BY <1>19, <2>2 DEF In!Boot, In!Replay
  <2>4. QED
    BY <1>19, <2>1, <2>2, <2>3, MessagesAssumption DEF In!TypeOK, In!Boot, In!bounds
<1>20. QED
  BY <1>1, <1>2, <1>3, <1>4, <1>5, <1>6, <1>7, <1>8, <1>9, <1>10, <1>11, <1>12, <1>13,
     <1>14, <1>15, <1>16, <1>17, <1>18, <1>19 DEF In!Next, In!Handler


LEMMA SentAppended ==
  ASSUME In!TypeOK, NEW e, sent' = Append(sent, e)
  PROVE  \A m \in DOMAIN sent : m \in DOMAIN sent' /\ sent'[m] = sent[m]
  BY LenProperties, AppendProperties DEF In!TypeOK

LEMMA SentEdited ==
  ASSUME In!TypeOK, NEW n \in DOMAIN sent, sent' = [sent EXCEPT ![n].rev = @ + 1]
  PROVE  \A m \in DOMAIN sent :
             m \in DOMAIN sent' /\ sent'[m].user = sent[m].user /\ sent'[m].chat = sent[m].chat
<1> DEFINE new == [sent[n] EXCEPT !.rev = @ + 1]
<1>1. new.user = sent[n].user /\ new.chat = sent[n].chat
  BY SentTypes
<1>2. sent' = [sent EXCEPT ![n] = new]
  OBVIOUS
<1> HIDE DEF new
<1>3. QED
  BY <1>1, <1>2

\* Who sent a message, and where, does not change.
LEMMA SentKept ==
  ASSUME In!TypeOK, In!Next
  PROVE  \A n \in DOMAIN sent :
             n \in DOMAIN sent' /\ sent'[n].user = sent[n].user /\ sent'[n].chat = sent[n].chat
<1> DEFINE Goal ==
             \A n \in DOMAIN sent :
                 n \in DOMAIN sent' /\ sent'[n].user = sent[n].user /\ sent'[n].chat = sent[n].chat
<1> SUFFICES Goal
  OBVIOUS
<1>1. ASSUME NEW u \in In!Users, NEW c \in In!Chats, In!Message(u, c) PROVE Goal
  BY <1>1, SentAppended DEF In!Message, In!Update, In!tables, In!engine
<1>2. ASSUME NEW m \in In!Ids, In!EditedMessage(m) PROVE Goal
  BY <1>2, SentEdited DEF In!EditedMessage, In!Update, In!tables, In!engine
<1>3. ASSUME NEW m \in In!Ids, In!OnEdited(m) PROVE Goal
  BY <1>3, SentEdited DEF In!OnEdited, In!Update, In!engine
<1>4. ASSUME UNCHANGED sent PROVE Goal
  BY <1>4
<1> HIDE DEF Goal
<1>5. QED
  BY <1>1, <1>2, <1>3, <1>4 DEF In!Next, In!Handler, In!HandleUnauthorized, In!engine,
     In!bounds, In!CheckRateLimit, In!PersistInbound, In!ForwardToEngine, In!tables,
     In!Tell, In!Attach, In!Pause, In!Command, In!Event, In!Allow, In!Deny, In!Policy,
     In!TurnStarts, In!TurnEnds, In!Tick, In!MonthPasses, In!Die, In!Boot

LEMMA SecretKept ==
  ASSUME In!TypeOK, In!Next
  PROVE  \A m \in DOMAIN sent : m \in DOMAIN sent' /\ (In!IsSecret(m))' = In!IsSecret(m)
  BY SentKept DEF In!IsSecret, In!Secret

\* A flag set in a row leaves it a row of its database.
LEMMA RowMarked ==
  ASSUME In!TypeOK, NEW m \in In!Ids, In!Stored(m), NEW n \in Nat,
         NEW r, r \in {rows[m], [rows[m] EXCEPT !.consumed = TRUE], [rows[m] EXCEPT !.processed = TRUE],
                [rows[m] EXCEPT !.rev = n, !.processed = FALSE]}
  PROVE  /\ r # In!NoRow /\ r.db = rows[m].db
         /\ r.consumed \/ r.consumed = rows[m].consumed
<1>1. rows[m] \in In!Row /\ In!NoRow \notin In!Row
  BY RowFacts DEF In!TypeOK, In!Stored
<1>2. QED
  BY <1>1 DEF In!Row, In!NoRow

\* What a step does to a row.
LEMMA RowsAfter ==
  ASSUME In!TypeOK, In!PrivateStaysPrivate, NEW n \in In!Ids, In!Next
  PROVE  \/ rows'[n] = rows[n]
         \/ /\ In!Stored(n) /\ (In!Stored(n))' /\ rows'[n].db = rows[n].db
            /\ rows'[n].consumed \/ rows'[n].consumed = rows[n].consumed
         \/ In!PersistInbound /\ n = handling.m
<1> DEFINE Goal ==
             \/ rows'[n] = rows[n]
             \/ /\ In!Stored(n) /\ (In!Stored(n))' /\ rows'[n].db = rows[n].db
                /\ rows'[n].consumed \/ rows'[n].consumed = rows[n].consumed
             \/ In!PersistInbound /\ n = handling.m
<1> SUFFICES Goal
  OBVIOUS
<1>1. ASSUME NEW m \in In!Ids, In!OnEdited(m) PROVE Goal
  <2> DEFINE new == [rows[m] EXCEPT !.rev = sent'[m].rev, !.processed = FALSE]
  <2>1. sent'[m].rev \in Nat
    BY <1>1, SentTypes DEF In!OnEdited
  <2>2. In!Stored(m) => /\ new # In!NoRow /\ new.db = rows[m].db
                        /\ new.consumed \/ new.consumed = rows[m].consumed
    BY <2>1, RowMarked
  <2>3. rows' = rows \/ (In!Stored(m) /\ rows' = [rows EXCEPT ![m] = new])
    BY <1>1 DEF In!OnEdited
  <2> HIDE DEF new
  <2>4. QED
    BY <2>2, <2>3 DEF In!Stored, In!TypeOK
<1>2. ASSUME In!PersistInbound PROVE Goal
  BY <1>2 DEF In!PersistInbound, In!engine, In!bounds, In!TypeOK
<1>3. ASSUME NEW b \in SUBSET pending, In!TurnStarts(b) PROVE Goal
  <2>1. \/ rows'[n] = rows[n]
        \/ In!Stored(n) /\ rows'[n] = [rows[n] EXCEPT !.consumed = TRUE]
    BY <1>3 DEF In!TurnStarts, In!PrivateStaysPrivate
  <2>2. QED
    BY <2>1, RowMarked DEF In!Stored
<1>4. ASSUME NEW clean \in BOOLEAN, In!TurnEnds(clean) PROVE Goal
  <2>1. \/ rows'[n] = rows[n]
        \/ In!Stored(n) /\ rows'[n] = [rows[n] EXCEPT !.processed = TRUE]
    BY <1>4 DEF In!TurnEnds, In!PrivateStaysPrivate
  <2>2. QED
    BY <2>1, RowMarked DEF In!Stored
<1>5. ASSUME NEW old \in 0 .. MaxUpdates, In!Boot(old) PROVE Goal
  <2>1. \/ rows'[n] = rows[n]
        \/ In!Stored(n) /\ rows'[n] = [rows[n] EXCEPT !.consumed = TRUE]
    BY <1>5 DEF In!Boot
  <2>2. QED
    BY <2>1, RowMarked DEF In!Stored
<1>6. ASSUME UNCHANGED rows PROVE Goal
  BY <1>6
<1> HIDE DEF Goal
<1>7. QED
  BY <1>1, <1>2, <1>3, <1>4, <1>5, <1>6 DEF In!Next, In!Handler, In!Message, In!Update,
     In!tables, In!engine, In!EditedMessage, In!HandleUnauthorized, In!bounds,
     In!CheckRateLimit, In!ForwardToEngine, In!Tell, In!Attach, In!Pause, In!Command,
     In!Event, In!Allow, In!Deny, In!Policy, In!Tick, In!MonthPasses, In!Die

\* The row of an edited message stays in its database, since its sender is the same.
LEMMA RowsKept ==
  ASSUME In!TypeOK, In!HandlingFollowsSender, In!RowsFollowSender, In!PrivateStaysPrivate, In!Next
  PROVE  \A n \in In!Ids : In!Stored(n) =>
             (In!Stored(n))' /\ (rows'[n].db = "private") = (rows[n].db = "private")
<1>1. ASSUME In!PersistInbound
      PROVE  rows'[handling.m] # In!NoRow /\ (rows'[handling.m].db = "private") = handling.private
  BY <1>1, HandlingFacts DEF In!PersistInbound, In!TypeOK, In!NoRow
<1>2. ASSUME In!PersistInbound PROVE handling.private = In!IsSecret(handling.m)
  BY <1>2 DEF In!PersistInbound, In!HandlingFollowsSender, In!Idle
<1>3. QED
  BY <1>1, <1>2, RowsAfter DEF In!Stored, In!RowsFollowSender

\* A handler begins with its message's sender.
LEMMA MessageBegins ==
  ASSUME In!TypeOK, NEW u \in In!Users, NEW c \in In!Chats, In!Message(u, c)
  PROVE  \/ handling' = In!Idle
         \/ /\ handling'.m \in DOMAIN sent' /\ handling'.step \in {"limit", "refuse"}
            /\ handling'.private = (In!IsSecret(handling.m))'
            /\ handling'.step = "limit" => handling'.private \/ (In!Gate(handling.user, handling.chat))'
<1>1. /\ sent' = Append(sent, [user |-> u, chat |-> c, rev |-> 0])
      /\ In!Arrives(Len(sent) + 1, u, c, 0) /\ updates < MaxUpdates
      /\ access' = access
  BY DEF In!Message, In!Update
<1>2. Len(sent) + 1 \in In!Ids
  BY <1>1, SentTypes, MessagesAssumption DEF In!TypeOK, In!Ids
<1>3. /\ Len(sent) + 1 \in DOMAIN sent'
      /\ sent'[Len(sent) + 1].user = u /\ sent'[Len(sent) + 1].chat = c
  BY <1>1, AppendProperties, LenProperties DEF In!TypeOK
<1>4. QED
  BY <1>1, <1>2, <1>3, HandlingBegins DEF In!IsSecret, In!Gate

LEMMA EditBegins ==
  ASSUME In!TypeOK, NEW m \in In!Ids, In!EditedMessage(m)
  PROVE  \/ handling' = In!Idle
         \/ /\ handling'.m \in DOMAIN sent' /\ handling'.step \in {"limit", "refuse"}
            /\ handling'.private = (In!IsSecret(handling.m))'
            /\ handling'.step = "limit" => handling'.private \/ (In!Gate(handling.user, handling.chat))'
<1>1. /\ m \in DOMAIN sent /\ sent' = [sent EXCEPT ![m].rev = @ + 1]
      /\ In!Arrives(m, sent[m].user, sent[m].chat, sent'[m].rev)
      /\ access' = access
  BY DEF In!EditedMessage
<1>2. sent'[m].rev \in Nat /\ sent[m].user \in In!Users /\ sent[m].chat \in In!Chats
  BY <1>1, SentTypes
<1>3. m \in DOMAIN sent' /\ sent'[m].user = sent[m].user /\ sent'[m].chat = sent[m].chat
  BY <1>1, SentEdited
<1>4. QED
  BY <1>1, <1>2, <1>3, HandlingBegins DEF In!IsSecret, In!Gate

\* What a step does to the handler.
LEMMA HandlerAfter ==
  ASSUME In!TypeOK, In!Next
  PROVE  \/ handling' = In!Idle
         \/ /\ handling'.m \in DOMAIN sent' /\ handling'.step \in {"limit", "refuse"}
            /\ handling'.private = (In!IsSecret(handling.m))'
            /\ handling'.step = "limit" => handling'.private \/ (In!Gate(handling.user, handling.chat))'
         \/ handling' = handling
         \/ /\ handling.step # "idle" /\ handling'.m = handling.m
            /\ handling'.user = handling.user /\ handling'.chat = handling.chat
            /\ handling'.private = handling.private
            /\ \/ In!HandleUnauthorized /\ handling'.step = "tell"
               \/ In!CheckRateLimit /\ handling'.step = "store"
               \/ In!PersistInbound /\ handling'.step = "submit"
               \/ (\E o \in {"saved", "rejected", "failed"} : In!Attach(o)) /\ handling'.step = "store"
<1> DEFINE Goal ==
             \/ handling' = In!Idle
             \/ /\ handling'.m \in DOMAIN sent' /\ handling'.step \in {"limit", "refuse"}
                /\ handling'.private = (In!IsSecret(handling.m))'
                /\ handling'.step = "limit" => handling'.private \/ (In!Gate(handling.user, handling.chat))'
             \/ handling' = handling
             \/ /\ handling.step # "idle" /\ handling'.m = handling.m
                /\ handling'.user = handling.user /\ handling'.chat = handling.chat
                /\ handling'.private = handling.private
                /\ \/ In!HandleUnauthorized /\ handling'.step = "tell"
                   \/ In!CheckRateLimit /\ handling'.step = "store"
                   \/ In!PersistInbound /\ handling'.step = "submit"
                   \/ (\E o \in {"saved", "rejected", "failed"} : In!Attach(o)) /\ handling'.step = "store"
<1> SUFFICES Goal
  OBVIOUS
<1>1. ASSUME NEW u \in In!Users, NEW c \in In!Chats, In!Message(u, c) PROVE Goal
  BY <1>1, MessageBegins DEF In!Message, In!Update, In!tables, In!engine
<1>2. ASSUME NEW m \in In!Ids, In!EditedMessage(m) PROVE Goal
  BY <1>2, EditBegins DEF In!EditedMessage, In!Update, In!tables, In!engine
<1>3. ASSUME In!HandleUnauthorized PROVE Goal
  <2>1. handling' \in {In!Idle, [handling EXCEPT !.step = "tell"]} /\ handling.step # "idle"
    BY <1>3 DEF In!HandleUnauthorized
  <2>2. ASSUME handling' = [handling EXCEPT !.step = "tell"] PROVE Goal
    <3>1. handling \in In!Handling
      BY <2>1, HandlingFacts
    <3>2. QED
      BY <1>3, <2>1, <2>2, <3>1, HandlingMoves
  <2>3. QED
    BY <2>1, <2>2
<1>4. ASSUME In!CheckRateLimit PROVE Goal
  <2>1. handling' \in {In!Idle, [handling EXCEPT !.step = "store"]} /\ handling.step # "idle"
    BY <1>4 DEF In!CheckRateLimit
  <2>2. ASSUME handling' = [handling EXCEPT !.step = "store"] PROVE Goal
    <3>1. handling \in In!Handling
      BY <2>1, HandlingFacts
    <3>2. QED
      BY <1>4, <2>1, <2>2, <3>1, HandlingMoves
  <2>3. QED
    BY <2>1, <2>2
<1>5. ASSUME In!PersistInbound PROVE Goal
  <2>1. handling' \in {In!Idle, [handling EXCEPT !.step = "submit"]} /\ handling.step # "idle"
    BY <1>5 DEF In!PersistInbound
  <2>2. ASSUME handling' = [handling EXCEPT !.step = "submit"] PROVE Goal
    <3>1. handling \in In!Handling
      BY <2>1, HandlingFacts
    <3>2. QED
      BY <1>5, <2>1, <2>2, <3>1, HandlingMoves
  <2>3. QED
    BY <2>1, <2>2
<1>6. ASSUME In!ForwardToEngine PROVE Goal
  BY <1>6 DEF In!ForwardToEngine, In!tables, In!bounds
<1>7. ASSUME NEW delivered \in BOOLEAN, In!Tell(delivered) PROVE Goal
  BY <1>7 DEF In!Tell, In!tables, In!engine, In!bounds
<1>8. ASSUME NEW outcome \in {"saved", "rejected", "failed"}, In!Attach(outcome) PROVE
     Goal
  <2>1. handling' = [handling EXCEPT !.marker = outcome] /\ handling.step = "store"
    BY <1>8 DEF In!Attach
  <2>2. QED
    BY <1>8, <2>1, HandlingFacts, HandlingMarked
<1>9. ASSUME In!Die PROVE Goal
  BY <1>9 DEF In!Die, In!Event, In!tables
<1>10. ASSUME UNCHANGED handling PROVE Goal
  BY <1>10
<1> HIDE DEF Goal
<1>11. QED
  BY <1>1, <1>2, <1>3, <1>4, <1>5, <1>6, <1>7, <1>8, <1>9, <1>10 DEF In!Next, In!Handler,
     In!OnEdited, In!Update, In!engine, In!Pause, In!Command, In!Event, In!tables, In!Allow,
     In!Deny, In!Policy, In!TurnStarts, In!bounds, In!TurnEnds, In!Tick, In!MonthPasses,
     In!Boot

\* A handler stays with its message's sender.
LEMMA HandlingStep ==
  ASSUME In!TypeOK, In!HandlingFollowsSender, In!RowsFollowSender, In!PrivateStaysPrivate, In!Next
  PROVE  In!HandlingFollowsSender'
<1>1. ASSUME In!PersistInbound PROVE rows'[handling.m] # In!NoRow
  BY <1>1, HandlingFacts DEF In!PersistInbound, In!TypeOK, In!NoRow
<1>2. handling # In!Idle => handling.m \in In!Ids
  BY DEF In!TypeOK, In!Handling
<1>3. ASSUME handling' = handling PROVE In!HandlingFollowsSender'
  BY <1>2, <1>3, SecretKept, RowsKept DEF In!HandlingFollowsSender
<1>4. ASSUME handling.step # "idle", handling'.m = handling.m, handling'.private = handling.private,
             handling'.step = "submit" => In!PersistInbound
      PROVE  In!HandlingFollowsSender'
  BY <1>1, <1>4, SecretKept DEF In!HandlingFollowsSender, In!Idle, In!Stored
<1>5. QED
  BY <1>3, <1>4, HandlerAfter DEF In!HandlingFollowsSender, In!Idle

\* A row stays with its message's sender.
LEMMA RowsStep ==
  ASSUME In!TypeOK, In!HandlingFollowsSender, In!RowsFollowSender, In!PrivateStaysPrivate, In!Next
  PROVE  In!RowsFollowSender'
<1>1. ASSUME In!PersistInbound
      PROVE  /\ (rows'[handling.m].db = "private") = handling.private
             /\ handling.m \in DOMAIN sent /\ handling.private = In!IsSecret(handling.m)
  BY <1>1, HandlingFacts DEF In!PersistInbound, In!TypeOK, In!HandlingFollowsSender, In!Idle
<1>2. QED
  BY <1>1, SecretKept, RowsKept, RowsAfter DEF In!RowsFollowSender, In!Stored

\* A process that is down holds nothing.
LEMMA DownStep ==
  ASSUME In!TypeOK, In!DownIsEmpty, In!Next
  PROVE  In!DownIsEmpty'
<1>1. ASSUME NEW u \in In!Users, NEW c \in In!Chats, In!Message(u, c) PROVE
     In!DownIsEmpty'
  BY <1>1 DEF In!Message, In!Update, In!tables, In!engine, In!DownIsEmpty, In!Idle
<1>2. ASSUME NEW m \in In!Ids, In!EditedMessage(m) PROVE In!DownIsEmpty'
  BY <1>2 DEF In!EditedMessage, In!Update, In!tables, In!engine, In!DownIsEmpty, In!Idle
<1>3. ASSUME In!HandleUnauthorized PROVE In!DownIsEmpty'
  BY <1>3 DEF In!HandleUnauthorized, In!engine, In!bounds, In!DownIsEmpty, In!Idle
<1>4. ASSUME In!CheckRateLimit PROVE In!DownIsEmpty'
  BY <1>4 DEF In!CheckRateLimit, In!engine, In!bounds, In!DownIsEmpty, In!Idle
<1>5. ASSUME In!PersistInbound PROVE In!DownIsEmpty'
  BY <1>5 DEF In!PersistInbound, In!engine, In!bounds, In!DownIsEmpty, In!Idle
<1>6. ASSUME In!ForwardToEngine PROVE In!DownIsEmpty'
  BY <1>6 DEF In!ForwardToEngine, In!tables, In!bounds, In!DownIsEmpty, In!Idle
<1>7. ASSUME NEW delivered \in BOOLEAN, In!Tell(delivered) PROVE In!DownIsEmpty'
  BY <1>7 DEF In!Tell, In!tables, In!engine, In!bounds, In!DownIsEmpty, In!Idle
<1>8. ASSUME NEW outcome \in {"saved", "rejected", "failed"}, In!Attach(outcome) PROVE
     In!DownIsEmpty'
  BY <1>8 DEF In!Attach, In!engine, In!bounds, In!DownIsEmpty, In!Idle
<1>9. ASSUME NEW b \in SUBSET pending, In!TurnStarts(b) PROVE In!DownIsEmpty'
  BY <1>9 DEF In!TurnStarts, In!bounds, In!DownIsEmpty, In!Idle
<1>10. ASSUME NEW clean \in BOOLEAN, In!TurnEnds(clean) PROVE In!DownIsEmpty'
  BY <1>10 DEF In!TurnEnds, In!bounds, In!DownIsEmpty, In!Idle
<1>11. ASSUME In!Die PROVE In!DownIsEmpty'
  BY <1>11 DEF In!Die, In!Event, In!tables, In!DownIsEmpty, In!Idle
<1>12. ASSUME NEW old \in 0 .. MaxUpdates, In!Boot(old) PROVE In!DownIsEmpty'
  BY <1>12 DEF In!Boot, In!bounds, In!DownIsEmpty, In!Idle
<1>13. ASSUME UNCHANGED <<live, handling, pending, turn>> PROVE In!DownIsEmpty'
  BY <1>13 DEF In!DownIsEmpty
<1>14. QED
  BY <1>1, <1>2, <1>3, <1>4, <1>5, <1>6, <1>7, <1>8, <1>9, <1>10, <1>11, <1>12, <1>13 DEF
     In!Next, In!Handler, In!OnEdited, In!Update, In!engine, In!Pause, In!Command, In!Event,
     In!tables, In!Allow, In!Deny, In!Policy, In!Tick, In!MonthPasses

\* A refusal is sent once for each row that says so.
LEMMA RefusalsStep ==
  ASSUME In!TypeOK, In!RefusalsHaveRows, In!Next
  PROVE  In!RefusalsHaveRows'
<1>1. ASSUME In!HandleUnauthorized PROVE In!RefusalsHaveRows'
  BY <1>1, HandlerAfter, HandlingFacts DEF In!HandleUnauthorized, In!engine, In!bounds,
     In!RefusalsHaveRows, In!Idle
<1>2. ASSUME NEW delivered \in BOOLEAN, In!Tell(delivered) PROVE In!RefusalsHaveRows'
  BY <1>2, HandlingFacts DEF In!Tell, In!tables, In!engine, In!bounds,
     In!RefusalsHaveRows, In!Idle, In!TypeOK
<1>3. ASSUME In!MonthPasses PROVE In!RefusalsHaveRows'
  BY <1>3 DEF In!MonthPasses, In!Event, In!engine, In!RefusalsHaveRows, In!Idle
<1>4. ASSUME UNCHANGED <<told, refusals>>, ~In!HandleUnauthorized
      PROVE  In!RefusalsHaveRows'
  BY <1>4, HandlerAfter DEF In!RefusalsHaveRows, In!Idle
<1>5. QED
  BY <1>1, <1>2, <1>3, <1>4 DEF In!Next, In!Handler, In!Message, In!Update, In!tables,
     In!engine, In!EditedMessage, In!OnEdited, In!CheckRateLimit, In!bounds,
     In!PersistInbound, In!ForwardToEngine, In!Attach, In!Pause, In!Command, In!Event,
     In!Allow, In!Deny, In!Policy, In!TurnStarts, In!TurnEnds, In!Tick, In!Die, In!Boot

\* Nothing the owner commands comes between a gate and the end of its handler.
LEMMA AdmittedStep ==
  ASSUME In!TypeOK, In!AdmittedStaysAdmitted, In!Next
  PROVE  In!AdmittedStaysAdmitted'
<1>1. ASSUME NEW x \in People \cup {Group}, In!Allow(x) PROVE In!AdmittedStaysAdmitted'
  BY <1>1 DEF In!Allow, In!Command, In!Event, In!tables, In!engine,
     In!AdmittedStaysAdmitted, In!Idle
<1>2. ASSUME NEW x \in People \cup {Group}, In!Deny(x) PROVE In!AdmittedStaysAdmitted'
  BY <1>2 DEF In!Deny, In!Command, In!Event, In!tables, In!engine,
     In!AdmittedStaysAdmitted, In!Idle
<1>3. ASSUME NEW p \in In!Policies, In!Policy(p) PROVE In!AdmittedStaysAdmitted'
  BY <1>3 DEF In!Policy, In!Command, In!Event, In!tables, In!engine,
     In!AdmittedStaysAdmitted, In!Idle
<1>4. ASSUME UNCHANGED access PROVE In!AdmittedStaysAdmitted'
  BY <1>4, HandlerAfter DEF In!AdmittedStaysAdmitted, In!Gate, In!Idle,
     In!HandleUnauthorized, In!CheckRateLimit, In!PersistInbound, In!Attach
<1>5. QED
  BY <1>1, <1>2, <1>3, <1>4 DEF In!Next, In!Handler, In!Message, In!Update, In!tables,
     In!engine, In!EditedMessage, In!OnEdited, In!HandleUnauthorized, In!bounds,
     In!CheckRateLimit, In!PersistInbound, In!ForwardToEngine, In!Tell, In!Attach, In!Pause,
     In!Command, In!Event, In!TurnStarts, In!TurnEnds, In!Tick, In!MonthPasses, In!Die,
     In!Boot

\* What the buffer and the turn hold stays in its session.
LEMMA PrivateStep ==
  ASSUME In!TypeOK, In!HandlingFollowsSender, In!RowsFollowSender, In!PrivateStaysPrivate,
         In!DownIsEmpty, In!Next
  PROVE  In!PrivateStaysPrivate'
<1>1. ASSUME In!ForwardToEngine PROVE In!PrivateStaysPrivate'
  <2>1. /\ rows' = rows /\ turn' = turn
        /\ pending' = pending \cup {In!Held(handling.m, handling.rev, handling.private)}
    BY <1>1 DEF In!ForwardToEngine, In!tables
  <2>2. In!Stored(handling.m) /\ handling.private = (rows[handling.m].db = "private")
    BY <1>1, HandlingFacts DEF In!ForwardToEngine, In!HandlingFollowsSender, In!RowsFollowSender, In!Idle
  <2>3. QED
    BY <2>1, <2>2 DEF In!PrivateStaysPrivate, In!Held, In!Stored
<1>2. ASSUME NEW b \in SUBSET pending, In!TurnStarts(b) PROVE In!PrivateStaysPrivate'
  BY <1>2, RowsKept DEF In!TurnStarts, In!bounds, In!PrivateStaysPrivate, In!TypeOK,
     In!Item
<1>3. ASSUME NEW clean \in BOOLEAN, In!TurnEnds(clean) PROVE In!PrivateStaysPrivate'
  BY <1>3, RowsKept DEF In!TurnEnds, In!bounds, In!PrivateStaysPrivate, In!TypeOK,
     In!Item
<1>4. ASSUME In!Die PROVE In!PrivateStaysPrivate'
  BY <1>4 DEF In!Die, In!Event, In!tables, In!PrivateStaysPrivate
<1>5. ASSUME NEW old \in 0 .. MaxUpdates, In!Boot(old) PROVE In!PrivateStaysPrivate'
  BY <1>5, RowsKept DEF In!Boot, In!bounds, In!PrivateStaysPrivate, In!Replayed,
     In!Replay, In!Held, In!DownIsEmpty
<1>6. ASSUME UNCHANGED <<pending, turn>> PROVE In!PrivateStaysPrivate'
  BY <1>6, RowsKept DEF In!PrivateStaysPrivate, In!TypeOK, In!Item
<1>7. QED
  BY <1>1, <1>2, <1>3, <1>4, <1>5, <1>6 DEF In!Next, In!Handler, In!Message, In!Update,
     In!tables, In!engine, In!EditedMessage, In!OnEdited, In!HandleUnauthorized, In!bounds,
     In!CheckRateLimit, In!PersistInbound, In!Tell, In!Attach, In!Pause, In!Command,
     In!Event, In!Allow, In!Deny, In!Policy, In!Tick, In!MonthPasses

\* A row that waits has waited before, unless it is new.
LEMMA WaitsBefore ==
  ASSUME In!TypeOK, In!PrivateStaysPrivate, In!Next, NEW n \in In!Ids,
         (In!Stored(n))', ~rows'[n].consumed
  PROVE  (In!Stored(n) /\ ~rows[n].consumed) \/ (handling'.step = "submit" /\ handling'.m = n)
<1>1. ASSUME In!PersistInbound PROVE handling'.step = "submit" /\ handling'.m = handling.m
  BY <1>1, HandlingFacts, HandlingMoves DEF In!PersistInbound
<1>2. QED
  BY <1>1, RowsAfter DEF In!Stored

\* A row waits for its turn in the buffer, or in its handler.
LEMMA ForgottenStep ==
  ASSUME In!TypeOK, In!PrivateStaysPrivate, In!DownIsEmpty, In!NoRowForgotten, In!Next
  PROVE  In!NoRowForgotten'
<1>1. ASSUME NEW u \in In!Users, NEW c \in In!Chats, In!Message(u, c) PROVE
     In!NoRowForgotten'
  BY <1>1, WaitsBefore DEF In!Message, In!Update, In!tables, In!engine,
     In!NoRowForgotten, In!Idle
<1>2. ASSUME NEW m \in In!Ids, In!EditedMessage(m) PROVE In!NoRowForgotten'
  BY <1>2, WaitsBefore DEF In!EditedMessage, In!Update, In!tables, In!engine,
     In!NoRowForgotten, In!Idle
<1>3. ASSUME In!HandleUnauthorized PROVE In!NoRowForgotten'
  BY <1>3, WaitsBefore DEF In!HandleUnauthorized, In!engine, In!bounds,
     In!NoRowForgotten, In!Idle
<1>4. ASSUME In!CheckRateLimit PROVE In!NoRowForgotten'
  BY <1>4, WaitsBefore DEF In!CheckRateLimit, In!engine, In!bounds, In!NoRowForgotten,
     In!Idle
<1>5. ASSUME In!PersistInbound PROVE In!NoRowForgotten'
  <2>1. live' = live /\ pending' = pending /\ handling.step = "store"
    BY <1>5 DEF In!PersistInbound, In!engine
  <2>2. handling'.m = handling.m /\ handling'.step = "submit"
    BY <1>5, HandlingFacts, HandlingMoves DEF In!PersistInbound
  <2>3. QED
    BY <2>1, <2>2, WaitsBefore DEF In!NoRowForgotten
<1>6. ASSUME In!ForwardToEngine PROVE In!NoRowForgotten'
  <2>1. /\ rows' = rows /\ live' = live
        /\ pending' = pending \cup {In!Held(handling.m, handling.rev, handling.private)}
    BY <1>6 DEF In!ForwardToEngine, In!tables
  <2>2. In!Held(handling.m, handling.rev, handling.private).m = handling.m
    BY DEF In!Held
  <2>3. QED
    BY <2>1, <2>2 DEF In!NoRowForgotten, In!Stored
<1>7. ASSUME NEW delivered \in BOOLEAN, In!Tell(delivered) PROVE In!NoRowForgotten'
  BY <1>7, WaitsBefore DEF In!Tell, In!tables, In!engine, In!bounds, In!NoRowForgotten,
     In!Idle
<1>8. ASSUME NEW outcome \in {"saved", "rejected", "failed"}, In!Attach(outcome) PROVE
     In!NoRowForgotten'
  BY <1>8, WaitsBefore DEF In!Attach, In!engine, In!bounds, In!NoRowForgotten, In!Idle
<1>9. ASSUME NEW b \in SUBSET pending, In!TurnStarts(b) PROVE In!NoRowForgotten'
  <2>1. live' = live /\ handling' = handling /\ pending' = pending \ b
    BY <1>9 DEF In!TurnStarts
  <2>2. ASSUME NEW q \in b PROVE rows'[q.m] = [rows[q.m] EXCEPT !.consumed = TRUE]
    BY <1>9, <2>2 DEF In!TurnStarts, In!PrivateStaysPrivate, In!TypeOK, In!Item
  <2>3. ASSUME NEW q \in b PROVE rows'[q.m].consumed
    <3>1. rows[q.m] \in In!Row
      BY <2>3 DEF In!TypeOK, In!Item, In!PrivateStaysPrivate, In!Stored
    <3>2. QED
      BY <2>2, <2>3, <3>1, RowConsumed
  <2>4. QED
    BY <2>1, <2>3, WaitsBefore DEF In!NoRowForgotten
<1>10. ASSUME In!Die PROVE In!NoRowForgotten'
  BY <1>10 DEF In!Die, In!Event, In!tables, In!NoRowForgotten
<1>11. ASSUME NEW old \in 0 .. MaxUpdates, In!Boot(old) PROVE In!NoRowForgotten'
  <2>1. /\ pending' = {In!Replayed(m) : m \in {n \in In!Ids : In!Replay(n) /\ n > old}}
        /\ rows' = [m \in In!Ids |-> IF In!Stored(m) /\ m <= old
                                     THEN [rows[m] EXCEPT !.consumed = TRUE] ELSE rows[m]]
    BY <1>11 DEF In!Boot
  <2>2. ASSUME NEW n \in In!Ids, (In!Stored(n))', ~rows'[n].consumed
        PROVE  In!Replay(n) /\ n > old
    <3>1. In!Stored(n) /\ ~rows[n].consumed
      BY <1>11, <2>2, WaitsBefore DEF In!Boot, In!DownIsEmpty, In!Idle
    <3>2. [rows[n] EXCEPT !.consumed = TRUE].consumed
      BY <3>1, RowFacts, RowConsumed DEF In!TypeOK, In!Stored
    <3>3. QED
      BY <2>1, <2>2, <3>1, <3>2, MessagesAssumption DEF In!Replay, In!Ids
  <2>3. \A n \in In!Ids : In!Replayed(n).m = n
    BY DEF In!Replayed, In!Held
  <2>4. QED
    BY <2>1, <2>2, <2>3 DEF In!NoRowForgotten
<1>12. ASSUME live' = live, pending' = pending,
             handling.step = "submit" => handling' = handling
      PROVE  In!NoRowForgotten'
  BY <1>12, WaitsBefore DEF In!NoRowForgotten
<1>13. QED
  BY <1>1, <1>2, <1>3, <1>4, <1>5, <1>6, <1>7, <1>8, <1>9, <1>10, <1>11, <1>12 DEF
     In!Next, In!Handler, In!OnEdited, In!Update, In!engine, In!Pause, In!Command, In!Event,
     In!tables, In!Allow, In!Deny, In!Policy, In!TurnEnds, In!bounds, In!Tick,
     In!MonthPasses, In!Idle


-----------------------------------------------------------------------------
(* The invariant *)

LEMMA InInitially ==
  ASSUME In!Init
  PROVE  In!IInv
<1>1. In!TypeOK
  <2>1. sent \in Seq([user : In!Users, chat : In!Chats, rev : Nat]) /\ Len(sent) = 0
    BY EmptySeq DEF In!Init
  <2>2. In!IsTable(limits, People \X (0 .. bucket))
    BY DEF In!Init, In!NoRows, In!IsTable
  <2>3. access \in [policy : In!Policies, allowed : SUBSET (People \cup {Group})]
    BY DEF In!Init, In!Policies
  <2>4. /\ handling \in In!Handling \cup {In!Idle} /\ rows \in [In!Ids -> In!Row \cup {In!NoRow}]
        /\ refusals \in [In!Chats -> {"none", "sent", "old"}] /\ told \in [In!Chats -> Nat]
    BY DEF In!Init
  <2>5. updates \in 0 .. MaxUpdates /\ inboundEvents \in 0 .. MaxEvents /\ Len(sent) <= updates
    BY <2>1, MessagesAssumption DEF In!Init
  <2>6. QED
    BY <2>1, <2>2, <2>3, <2>4, <2>5 DEF In!Init, In!TypeOK
<1>2. In!HandlingFollowsSender /\ In!RowsFollowSender /\ In!DownIsEmpty
  BY DEF In!Init, In!HandlingFollowsSender, In!RowsFollowSender, In!DownIsEmpty, In!Stored
<1>3. In!RefusalsHaveRows /\ In!AdmittedStaysAdmitted /\ In!NoRowForgotten /\ In!PrivateStaysPrivate
  BY DEF In!Init, In!RefusalsHaveRows, In!AdmittedStaysAdmitted, In!NoRowForgotten,
         In!PrivateStaysPrivate, In!Stored, In!Idle
<1>4. QED
  BY <1>1, <1>2, <1>3 DEF In!IInv

LEMMA InKeeps ==
  ASSUME In!IInv, In!Next
  PROVE  In!IInv'
  BY InTypes, HandlingStep, RowsStep, DownStep, RefusalsStep, AdmittedStep, PrivateStep,
     ForgottenStep DEF In!IInv

LEMMA InRests ==
  ASSUME In!IInv, UNCHANGED inVars
  PROVE  In!IInv'
<1>1. In!TypeOK'
  BY DEF In!IInv, inVars, In!TypeOK
<1>2. In!HandlingFollowsSender' /\ In!RowsFollowSender' /\ In!DownIsEmpty'
  BY DEF In!IInv, inVars, In!HandlingFollowsSender, In!RowsFollowSender, In!DownIsEmpty,
         In!Stored, In!IsSecret
<1>3. In!RefusalsHaveRows' /\ In!AdmittedStaysAdmitted'
  BY DEF In!IInv, inVars, In!RefusalsHaveRows, In!AdmittedStaysAdmitted, In!Gate
<1>4. In!NoRowForgotten' /\ In!PrivateStaysPrivate'
  BY DEF In!IInv, inVars, In!NoRowForgotten, In!PrivateStaysPrivate, In!Stored
<1>5. QED
  BY <1>1, <1>2, <1>3, <1>4 DEF In!IInv

\* Of two parts one moves, and it takes a step of its own.
LEMMA OnePartMoves ==
  ASSUME Next
  PROVE  \/ part = "inbound" /\ In!Next /\ OnlyInbound
         \/ part = "web" /\ Web!Next /\ OnlyWeb
  BY DEF Next, In!Next, In!Handler, Web!Next, Web!Step

\* The inductive invariant holds in every behaviour of the way in from Telegram.
LEMMA InInvariance == Spec => [](part = "inbound" => In!IInv)
<1>1. Init => (part = "inbound" => In!IInv)
  BY InInitially DEF Init
<1>2. (part = "inbound" => In!IInv) /\ [Next]_vars => (part = "inbound" => In!IInv)'
  <2>1. ASSUME part = "inbound" => In!IInv, Next PROVE (part = "inbound" => In!IInv)'
    BY <2>1, OnePartMoves, InKeeps DEF OnlyInbound, OnlyWeb
  <2>2. ASSUME part = "inbound" => In!IInv, UNCHANGED vars PROVE (part = "inbound" => In!IInv)'
    BY <2>2, InRests DEF vars
  <2>3. QED
    BY <2>1, <2>2
<1>3. QED
  BY <1>1, <1>2, PTL DEF Spec

\* A message past its gate is let in by access.json until its handler ends: no /deny or
\* /policy is answered in between, however updates, turns, deaths and restarts interleave.
THEOREM Admitted == Spec => []AdmittedStaysAdmitted
<1>1. (part = "inbound" => In!IInv) => AdmittedStaysAdmitted
  BY DEF In!IInv, AdmittedStaysAdmitted
<1>2. QED
  BY <1>1, InInvariance, PTL

\* A chat of strangers gets one refusal in a retention period: the row is written before
\* the reply, and neither a death between the two nor the pruning of old rows undoes it.
THEOREM Refused == Spec => []OneRefusal
<1>1. (part = "inbound" => In!IInv) => OneRefusal
  BY DEF In!IInv, OneRefusal, In!OneRefusal, In!RefusalsHaveRows
<1>2. QED
  BY <1>1, InInvariance, PTL

\* A stored row that no turn took is in the buffer or in its handler, for any number of
\* edits, turns, deaths and boots.
THEOREM NoneForgotten == Spec => []NoRowForgotten
<1>1. (part = "inbound" => In!IInv) => NoRowForgotten
  BY DEF In!IInv, NoRowForgotten
<1>2. QED
  BY <1>1, InInvariance, PTL

\* What is buffered or in a turn goes to the session of its row's database.
THEOREM SessionsApart == Spec => []PrivateStaysPrivate
<1>1. (part = "inbound" => In!IInv) => PrivateStaysPrivate
  BY DEF In!IInv, PrivateStaysPrivate
<1>2. QED
  BY <1>1, InInvariance, PTL
================================================================================
