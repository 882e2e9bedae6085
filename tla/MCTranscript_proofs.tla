-------------------------- MODULE MCTranscript_proofs --------------------------
(***************************************************************************)
(* The transcript part of MCServices: its inductive invariant is kept by   *)
(* every step. What a row differs in from its message is what one call is  *)
(* about to write; the updates that wait lead from the row to the message. *)
(***************************************************************************)
EXTENDS MCServices, SequenceTheorems, TLAPS

-----------------------------------------------------------------------------
(* Transcript: queues of updates *)

\* An update of message i that says what the others leave leads on.
LEMMA LeadAppend ==
  ASSUME NEW S, NEW q \in Seq(S), NEW i, NEW b, NEW v, NEW r \in S,
         Tr!Lead(q, i, b, v), r.id = i => r.old = v
  PROVE  Tr!Lead(Append(q, r), i, b, IF r.id = i THEN r.new ELSE v)
<1> DEFINE p == Append(q, r)
           n == Len(q)
           m == n + 1
<1>1. /\ n \in Nat /\ Len(p) = m /\ m = n + 1 /\ m \in Nat /\ DOMAIN p = 1 .. m /\ p[m] = r
      /\ \A k \in 1 .. n : p[k] = q[k]
      /\ DOMAIN q = 1 .. n
  BY AppendProperties
<1> HIDE DEF p, n, m
<1>2. ASSUME NEW k \in 1 .. m, NEW w, Tr!Leaves(q, i, b, k, w)
      PROVE  Tr!Leaves(p, i, b, k, w)
  <2>1. \A l \in 1 .. (k - 1) : p[l] = q[l]
    BY <1>1
  <2>2. CASE w = b /\ \A l \in 1 .. (k - 1) : q[l].id # i
    BY <2>1, <2>2 DEF Tr!Leaves
  <2>3. ASSUME NEW j \in 1 .. (k - 1), q[j].id = i, w = q[j].new,
               \A l \in (j + 1) .. (k - 1) : q[l].id # i
        PROVE  Tr!Leaves(p, i, b, k, w)
    <3>1. p[j].id = i /\ w = p[j].new
      BY <2>1, <2>3
    <3>2. \A l \in (j + 1) .. (k - 1) : p[l].id # i
      BY <1>1, <2>1, <2>3
    <3>3. QED
      BY <3>1, <3>2 DEF Tr!Leaves
  <2>4. QED
    BY <1>2, <2>2, <2>3 DEF Tr!Leaves
<1>3. Tr!Leaves(q, i, b, m, v)
  BY DEF Tr!Lead, n, m
<1>4. \A k \in DOMAIN p : p[k].id = i => Tr!Leaves(p, i, b, k, p[k].old)
  <2>1. SUFFICES ASSUME NEW k \in 1 .. m, p[k].id = i
                 PROVE  Tr!Leaves(p, i, b, k, p[k].old)
    BY <1>1
  <2>2. CASE k = m
    BY <1>1, <1>2, <1>3, <2>1, <2>2
  <2>3. CASE k # m
    <3>1. k \in 1 .. n
      BY <1>1, <2>3
    <3>2. p[k] = q[k] /\ k \in DOMAIN q
      BY <1>1, <3>1
    <3>3. Tr!Leaves(q, i, b, k, q[k].old)
      BY <2>1, <3>2 DEF Tr!Lead
    <3>4. QED
      BY <1>2, <3>2, <3>3
  <2>4. QED
    BY <2>2, <2>3
<1>5. Tr!Leaves(p, i, b, m + 1, IF r.id = i THEN r.new ELSE v)
  <2>1. CASE r.id = i
    <3>1. m \in 1 .. (m + 1 - 1) /\ \A l \in (m + 1) .. (m + 1 - 1) : FALSE
      BY <1>1
    <3>2. p[m].id = i /\ p[m].new = r.new
      BY <1>1, <2>1
    <3>3. QED
      BY <2>1, <3>1, <3>2 DEF Tr!Leaves
  <2>2. CASE r.id # i
    <3>1. Tr!Leaves(p, i, b, m, v)
      BY <1>1, <1>2, <1>3
    <3>2. \A l \in 1 .. (m + 1 - 1) : l \in 1 .. (m - 1) \/ l = m
      BY <1>1
    <3>3. p[m].id # i
      BY <1>1, <2>2
    <3>4. CASE v = b /\ \A l \in 1 .. (m - 1) : p[l].id # i
      <4>1. v = b /\ \A l \in 1 .. (m + 1 - 1) : p[l].id # i
        BY <3>2, <3>3, <3>4
      <4>2. Tr!Leaves(p, i, b, m + 1, v)
        BY <1>1, <4>1 DEF Tr!Leaves
      <4>3. QED
        BY <2>2, <4>2
    <3>5. ASSUME NEW j \in 1 .. (m - 1), p[j].id = i, v = p[j].new,
                 \A l \in (j + 1) .. (m - 1) : p[l].id # i
          PROVE  Tr!Leaves(p, i, b, m + 1, v)
      <4>1. j \in 1 .. (m + 1 - 1) /\ \A l \in (j + 1) .. (m + 1 - 1) : p[l].id # i
        BY <1>1, <3>3, <3>5
      <4>2. p[j].id = i /\ v = p[j].new
        BY <3>5
      <4>3. QED
        BY <1>1, <4>1, <4>2 DEF Tr!Leaves
    <3>6. QED
      BY <1>1, <2>2, <3>1, <3>4, <3>5 DEF Tr!Leaves
  <2>3. QED
    BY <2>1, <2>2
<1>6. Tr!Leaves(p, i, b, Len(p) + 1, IF r.id = i THEN r.new ELSE v)
  BY <1>1, <1>5
<1>7. QED
  BY <1>4, <1>6 DEF Tr!Lead, p

\* The first update of message i says what b is, and the others lead on from it.
LEMMA LeadTail ==
  ASSUME NEW S, NEW q \in Seq(S), q # <<>>, NEW i, NEW b, NEW v, Tr!Lead(q, i, b, v)
  PROVE  /\ q[1].id = i => q[1].old = b
         /\ Tr!Lead(Tail(q), i, IF q[1].id = i THEN q[1].new ELSE b, v)
<1> DEFINE p == Tail(q)
           n == Len(q)
           c == IF q[1].id = i THEN q[1].new ELSE b
<1>1. /\ n \in Nat /\ n # 0 /\ DOMAIN q = 1 .. n
      /\ Len(p) = n - 1 /\ DOMAIN p = 1 .. (n - 1)
      /\ \A k \in 1 .. (n - 1) : p[k] = q[k + 1]
  BY HeadTailProperties, EmptySeq, LenProperties
<1> HIDE DEF p, n
<1>2. q[1].id = i => q[1].old = b
  <2>1. 1 \in DOMAIN q /\ \A l \in 1 .. (1 - 1) : FALSE
    BY <1>1
  <2>2. q[1].id = i => Tr!Leaves(q, i, b, 1, q[1].old)
    BY <2>1 DEF Tr!Lead
  <2>3. QED
    BY <2>1, <2>2 DEF Tr!Leaves
<1>3. ASSUME NEW k \in 1 .. n, NEW w, Tr!Leaves(q, i, b, k + 1, w)
      PROVE  Tr!Leaves(p, i, c, k, w)
  <2>1. \A l \in 1 .. (k - 1) : p[l] = q[l + 1] /\ l + 1 \in 1 .. (k + 1 - 1)
    BY <1>1
  <2>2. 1 \in 1 .. (k + 1 - 1)
    BY <1>1
  <2>3. CASE w = b /\ \A l \in 1 .. (k + 1 - 1) : q[l].id # i
    BY <2>1, <2>2, <2>3 DEF Tr!Leaves
  <2>4. ASSUME NEW j \in 1 .. (k + 1 - 1), q[j].id = i, w = q[j].new,
               \A l \in (j + 1) .. (k + 1 - 1) : q[l].id # i
        PROVE  Tr!Leaves(p, i, c, k, w)
    <3>1. CASE j = 1
      <4>1. \A l \in 1 .. (k - 1) : l + 1 \in (j + 1) .. (k + 1 - 1)
        BY <1>1, <3>1
      <4>2. w = c /\ \A l \in 1 .. (k - 1) : p[l].id # i
        BY <2>1, <2>4, <3>1, <4>1
      <4>3. QED
        BY <4>2 DEF Tr!Leaves
    <3>2. CASE j # 1
      <4> DEFINE m == j - 1
      <4>1. /\ m \in 1 .. (k - 1) /\ m + 1 = j
            /\ \A l \in (m + 1) .. (k - 1) : l \in 1 .. (k - 1)
                   /\ l + 1 \in (j + 1) .. (k + 1 - 1)
        BY <1>1, <3>2
      <4> HIDE DEF m
      <4>2. p[m].id = i /\ w = p[m].new /\ \A l \in (m + 1) .. (k - 1) : p[l].id # i
        BY <2>1, <2>4, <4>1
      <4>3. QED
        BY <4>1, <4>2 DEF Tr!Leaves
    <3>3. QED
      BY <3>1, <3>2
  <2>5. QED
    BY <1>3, <2>3, <2>4 DEF Tr!Leaves
<1>4. \A k \in DOMAIN p : p[k].id = i => Tr!Leaves(p, i, c, k, p[k].old)
  <2>1. SUFFICES ASSUME NEW k \in 1 .. (n - 1), p[k].id = i
                 PROVE  Tr!Leaves(p, i, c, k, p[k].old)
    BY <1>1
  <2>2. p[k] = q[k + 1] /\ k + 1 \in DOMAIN q /\ k \in 1 .. n
    BY <1>1
  <2>3. Tr!Leaves(q, i, b, k + 1, q[k + 1].old)
    BY <2>1, <2>2 DEF Tr!Lead
  <2>4. QED
    BY <1>3, <2>2, <2>3
<1>5. Tr!Leaves(p, i, c, n, v)
  <2>1. Tr!Leaves(q, i, b, n + 1, v) /\ n \in 1 .. n
    BY <1>1 DEF Tr!Lead, n
  <2>2. QED
    BY <1>3, <2>1
<1>6. Tr!Leaves(p, i, c, Len(p) + 1, v)
  <2>1. Len(p) + 1 = n
    BY <1>1
  <2>2. QED
    BY <1>5, <2>1
<1>7. QED
  BY <1>2, <1>4, <1>6 DEF Tr!Lead, p, c

\* With no update of message i, nothing changes.
LEMMA LeadNowhere ==
  ASSUME NEW S, NEW q \in Seq(S), NEW i, NEW b, NEW v, Tr!Lead(q, i, b, v),
         \A k \in DOMAIN q : q[k].id # i
  PROVE  v = b
<1>1. Len(q) \in Nat /\ DOMAIN q = 1 .. Len(q)
  BY LenProperties
<1>2. \A j \in 1 .. (Len(q) + 1 - 1) : j \in DOMAIN q
  BY <1>1
<1>3. QED
  BY <1>2 DEF Tr!Lead, Tr!Leaves

\* The other way round.
LEMMA LeadsNowhere ==
  ASSUME NEW S, NEW q \in Seq(S), NEW i, NEW b, \A k \in DOMAIN q : q[k].id # i
  PROVE  Tr!Lead(q, i, b, b)
<1>1. Len(q) \in Nat /\ DOMAIN q = 1 .. Len(q)
  BY LenProperties
<1>2. \A j \in 1 .. (Len(q) + 1 - 1) : j \in DOMAIN q
  BY <1>1
<1>3. QED
  BY <1>2 DEF Tr!Lead, Tr!Leaves

-----------------------------------------------------------------------------
(* Transcript: messages, rows and calls *)

\* A message with another text, deleted, or with another reaction.
LEMMA WithText ==
  ASSUME NEW m \in Tr!Message, NEW x \in 0 .. MaxChanges
  PROVE  /\ [m EXCEPT !.text = x] \in Tr!Message
         /\ [m EXCEPT !.text = x].text = x /\ [m EXCEPT !.text = x].deleted = m.deleted
         /\ [m EXCEPT !.text = x].by = m.by
  BY DEF Tr!Message

LEMMA WithDeleted ==
  ASSUME NEW m \in Tr!Message
  PROVE  /\ [m EXCEPT !.deleted = TRUE] \in Tr!Message
         /\ [m EXCEPT !.deleted = TRUE].deleted = TRUE
         /\ [m EXCEPT !.deleted = TRUE].text = m.text /\ [m EXCEPT !.deleted = TRUE].by = m.by
  BY DEF Tr!Message

LEMMA WithBy ==
  ASSUME NEW m \in Tr!Message, NEW b \in Tr!By
  PROVE  /\ [m EXCEPT !.by = b] \in Tr!Message
         /\ [m EXCEPT !.by = b].by = b /\ [m EXCEPT !.by = b].deleted = m.deleted
         /\ [m EXCEPT !.by = b].text = m.text
  BY DEF Tr!Message

LEMMA PlainIsMessage ==
  /\ Tr!Plain \in Tr!Message /\ Tr!Plain.text = 0 /\ Tr!Plain.deleted = FALSE
  /\ Tr!Plain.by["bot"] = {} /\ Tr!Plain.by["person"] = {} /\ Tr!Plain.by \in Tr!By
<1> DEFINE b == [w \in Tr!Who |-> {}]
<1>1. b \in Tr!By /\ b["bot"] = {} /\ b["person"] = {}
  BY DEF Tr!By, Tr!Who
<1> HIDE DEF b
<1>2. Tr!Plain = [at |-> "chat", text |-> 0, deleted |-> FALSE, by |-> b]
  BY DEF Tr!Plain, b
<1>3. 0 \in 0 .. MaxChanges
  BY ServicesAssumption
<1>4. QED
  BY <1>1, <1>2, <1>3 DEF Tr!Message

\* What the types say of message i.
LEMMA MessageFacts ==
  ASSUME Tr!TypeOK, NEW i \in Tr!Ids
  PROVE  /\ Tr!Delivered(i) <=> telegram[i] \in Tr!Message
         /\ Tr!Stored(i) <=> table[i] \in Tr!Message
         /\ Tr!Row(i) \in Tr!Message /\ Tr!Row(i).by \in Tr!By
         /\ Tr!Stored(i) => Tr!Row(i) = table[i]
         /\ ~Tr!Stored(i) => Tr!Row(i) = Tr!Plain
         /\ Tr!Reactions(i) = Tr!Row(i).by
         /\ Tr!Known(i) => Tr!Delivered(i)
<1>1. Tr!NoMessage \notin Tr!Message
  BY DEF Tr!NoMessage, Tr!Message
<1>2. /\ telegram[i] \in {Tr!NoMessage} \cup Tr!Message
      /\ table[i] \in {Tr!NoMessage} \cup Tr!Message
  BY DEF Tr!TypeOK
<1>3. \A m \in Tr!Message : m.by \in Tr!By
  BY DEF Tr!Message
<1>4. Tr!Reactions(i) = Tr!Row(i).by
  BY DEF Tr!Reactions, Tr!Row, Tr!Plain
<1>5. QED
  BY <1>1, <1>2, <1>3, <1>4, PlainIsMessage
     DEF Tr!Delivered, Tr!Stored, Tr!Row, Tr!Known

\* What the types say of a call.
LEMMA ToolCallFacts ==
  ASSUME Tr!TypeOK, NEW t \in ToolCalls
  PROVE  /\ calling[t].op = "send" =>
                /\ calling[t] \in [op : {"send"}, left : 0 .. 2, ids : Seq(Tr!Ids), id : {-1}]
                /\ calling[t].ids \in Seq(Tr!Ids) /\ calling[t].left \in 0 .. 2
         /\ calling[t].op \in {"edit", "delete", "react", "store"} => calling[t].id \in Tr!Ids
         /\ calling[t].op = "edit" => calling[t].text \in 0 .. MaxChanges
         /\ calling[t].op \in {"react", "store"} => calling[t].emoji \in Emojis
         /\ calling[t].op = "store" => calling[t].read \in Tr!By
         /\ calling[t].op \in {"none", "send", "edit", "delete", "react", "store"}
         /\ calling[t].op = "none" <=> calling[t] = Tr!Free
<1>1. calling[t] \in {Tr!Free} \cup Tr!Calling
  BY DEF Tr!TypeOK
<1>2. QED
  BY <1>1 DEF Tr!Calling, Tr!Free

\* The call of t is the only one that moves.
OneCalls(t, c) ==
  /\ calling' \in [ToolCalls -> {Tr!Free} \cup Tr!Calling]
  /\ calling'[t] = c
  /\ \A u \in ToolCalls : u # t => calling'[u] = calling[u]

LEMMA CallBecomes ==
  ASSUME Tr!TypeOK, NEW t \in ToolCalls, NEW c \in {Tr!Free} \cup Tr!Calling, Tr!Becomes(t, c)
  PROVE  OneCalls(t, c)
  BY DEF Tr!TypeOK, Tr!Becomes, OneCalls

\* One message changes in Telegram, or one row.
LEMMA TelegramChanges ==
  ASSUME Tr!TypeOK, NEW i \in Tr!Ids, Tr!Delivered(i), NEW m \in Tr!Message,
         telegram' = [telegram EXCEPT ![i] = m]
  PROVE  /\ telegram' \in [Tr!Ids -> {Tr!NoMessage} \cup Tr!Message]
         /\ telegram'[i] = m /\ \A j \in Tr!Ids : j # i => telegram'[j] = telegram[j]
         /\ \A j \in Tr!Ids : Tr!Delivered(j)' <=> Tr!Delivered(j)
<1>1. /\ telegram' \in [Tr!Ids -> {Tr!NoMessage} \cup Tr!Message]
      /\ telegram'[i] = m /\ \A j \in Tr!Ids : j # i => telegram'[j] = telegram[j]
  BY DEF Tr!TypeOK
<1>2. m # Tr!NoMessage
  BY DEF Tr!NoMessage, Tr!Message
<1>3. QED
  BY <1>1, <1>2 DEF Tr!Delivered

LEMMA TableChanges ==
  ASSUME Tr!TypeOK, NEW i \in Tr!Ids, NEW m \in Tr!Message, table' = [table EXCEPT ![i] = m]
  PROVE  /\ table' \in [Tr!Ids -> {Tr!NoMessage} \cup Tr!Message]
         /\ table'[i] = m /\ \A j \in Tr!Ids : j # i => table'[j] = table[j]
         /\ Tr!Stored(i)' /\ Tr!Row(i)' = m
         /\ \A j \in Tr!Ids : j # i => (Tr!Stored(j)'
                <=> Tr!Stored(j)) /\ Tr!Row(j)' = Tr!Row(j)
<1>1. /\ table' \in [Tr!Ids -> {Tr!NoMessage} \cup Tr!Message]
      /\ table'[i] = m /\ \A j \in Tr!Ids : j # i => table'[j] = table[j]
  BY DEF Tr!TypeOK
<1>2. m # Tr!NoMessage
  BY DEF Tr!NoMessage, Tr!Message
<1>3. QED
  BY <1>1, <1>2 DEF Tr!Stored, Tr!Row

-----------------------------------------------------------------------------
(* Transcript: how a message's part of the invariant survives *)

\* The edits, the deletions and the reactions of message i that are under way go on.
SameEdits(i) ==
  \A t \in ToolCalls :
    /\ (calling'[t].op = "edit" /\ calling'[t].id = i)
           <=> (calling[t].op = "edit" /\ calling[t].id = i)
    /\ calling[t].op = "edit" /\ calling[t].id = i => calling'[t].text = calling[t].text

SameDeletions(i) ==
  \A t \in ToolCalls :
    (calling'[t].op = "delete" /\ calling'[t].id = i)
        <=> (calling[t].op = "delete" /\ calling[t].id = i)

Reacts(t, i) == calling[t].op \in {"react", "store"} /\ calling[t].id = i
SameReactions(i) ==
  \A t \in ToolCalls :
    /\ (calling'[t].op \in {"react", "store"} /\ calling'[t].id = i) <=> Reacts(t, i)
    /\ Reacts(t, i) => calling'[t].emoji = calling[t].emoji

\* What a call is about to write, one column each.
TextCarried(i) ==
  /\ Tr!Doing("edit", i) = {} => Tr!Row(i).text = telegram[i].text
  /\ \A t \in Tr!Doing("edit", i) : calling[t].text = telegram[i].text
DeletionCarried(i) ==
  /\ Tr!Doing("delete", i) = {} => Tr!Row(i).deleted = telegram[i].deleted
  /\ Tr!Doing("delete", i) # {} => telegram[i].deleted
ReactionCarried(i) ==
  /\ (\A t \in ToolCalls : ~Reacts(t, i)) => Tr!Row(i).by["bot"] = telegram[i].by["bot"]
  /\ \A t \in ToolCalls : Reacts(t, i) => telegram[i].by["bot"] = {calling[t].emoji}

LEMMA CarriedIs ==
  \A i : Tr!Carried(i) <=> TextCarried(i) /\ DeletionCarried(i) /\ ReactionCarried(i)
<1> TAKE i
<1>1. \A t : t \in Tr!Doing("react", i) \cup Tr!Doing("store", i)
          <=> t \in ToolCalls /\ Reacts(t, i)
  BY DEF Tr!Doing, Reacts
<1>2. Tr!Doing("react", i) \cup Tr!Doing("store", i) = {} <=> \A t \in ToolCalls : ~Reacts(t, i)
  BY <1>1
<1> DEFINE R == Tr!Doing("react", i) \cup Tr!Doing("store", i)
<1> HIDE DEF R
<1>3. (\A t \in R : telegram[i].by["bot"] = {calling[t].emoji})
        <=> \A t \in ToolCalls : Reacts(t, i) => telegram[i].by["bot"] = {calling[t].emoji}
  BY <1>1 DEF R
<1>4. QED
  BY <1>2, <1>3 DEF Tr!Carried, TextCarried, DeletionCarried, ReactionCarried, R

LEMMA CarriedIsThen ==
  \A i : Tr!Carried(i)' <=> TextCarried(i)' /\ DeletionCarried(i)' /\ ReactionCarried(i)'
<1>1. (\A i : Tr!Carried(i) <=> TextCarried(i) /\ DeletionCarried(i) /\ ReactionCarried(i))'
  BY CarriedIs, PTL
<1>2. QED
  BY <1>1

LEMMA TextStays ==
  ASSUME NEW i, TextCarried(i), SameEdits(i), Tr!Row(i)'.text = Tr!Row(i).text,
         telegram'[i].text = telegram[i].text
  PROVE  TextCarried(i)'
<1>1. Tr!Doing("edit", i)' = Tr!Doing("edit", i)
  BY DEF SameEdits, Tr!Doing
<1>2. \A t \in Tr!Doing("edit", i) : calling'[t].text = calling[t].text
  BY DEF SameEdits, Tr!Doing
<1>3. QED
  BY <1>1, <1>2 DEF TextCarried

LEMMA DeletionStays ==
  ASSUME NEW i, DeletionCarried(i), SameDeletions(i),
         Tr!Row(i)'.deleted = Tr!Row(i).deleted, telegram'[i].deleted = telegram[i].deleted
  PROVE  DeletionCarried(i)'
<1>1. Tr!Doing("delete", i)' = Tr!Doing("delete", i)
  BY DEF SameDeletions, Tr!Doing
<1>2. QED
  BY <1>1 DEF DeletionCarried

LEMMA ReactionStays ==
  ASSUME NEW i, ReactionCarried(i), SameReactions(i),
         Tr!Row(i)'.by["bot"] = Tr!Row(i).by["bot"],
         telegram'[i].by["bot"] = telegram[i].by["bot"]
  PROVE  ReactionCarried(i)'
<1>1. \A t \in ToolCalls : Reacts(t, i)' <=> Reacts(t, i)
  BY DEF SameReactions, Reacts
<1>2. QED
  BY <1>1 DEF ReactionCarried, SameReactions

\* What a person's reactions on message i lead to.
Led(i) ==
  /\ Tr!Handled(i) => handler.update.old = Tr!Row(i).by["person"]
  /\ Tr!Lead(reactions, i, Tr!Reached(i), telegram[i].by["person"])

LEMMA LedStays ==
  ASSUME NEW i, Led(i), reactions' = reactions, handler' = handler,
         Tr!Row(i)'.by["person"] = Tr!Row(i).by["person"],
         telegram'[i].by["person"] = telegram[i].by["person"]
  PROVE  Led(i)'
<1>1. Tr!Reached(i)' = Tr!Reached(i) /\ (Tr!Handled(i)' <=> Tr!Handled(i))
  BY DEF Tr!Reached, Tr!Handled
<1>2. QED
  BY <1>1 DEF Led, Tr!Lead, Tr!Leaves

MessageHolds == \A i \in Tr!Ids \ torn : Tr!Delivered(i) => Tr!Carried(i) /\ Led(i)

LEMMA MessageIs == MessageHolds <=> Tr!CallsCarry /\ Tr!UpdatesLead
  BY DEF MessageHolds, Tr!CallsCarry, Tr!UpdatesLead, Led

TranscriptHolds ==
  /\ Tr!TypeOK /\ Tr!ChangesAreOfMessages /\ Tr!SendsApart /\ Tr!RowsCome /\ MessageHolds

\* A step of t leaves the calls of another kind, or on another message, alone.
LEMMA SameKinds ==
  ASSUME NEW t \in ToolCalls, NEW c, OneCalls(t, c), NEW i
  PROVE  /\ ~(calling[t].op = "edit" /\ calling[t].id = i) /\ ~(c.op = "edit" /\ c.id = i)
                => SameEdits(i)
         /\ ~(calling[t].op = "delete" /\ calling[t].id = i) /\ ~(c.op = "delete" /\ c.id = i)
                => SameDeletions(i)
         /\ ~Reacts(t, i) /\ ~(c.op \in {"react", "store"} /\ c.id = i) => SameReactions(i)
<1>1. calling'[t] = c /\ \A u \in ToolCalls : u = t \/ calling'[u] = calling[u]
  BY DEF OneCalls
<1>2. QED
  BY <1>1 DEF SameEdits, SameDeletions, SameReactions, Reacts

LEMMA OtherCalls ==
  ASSUME NEW t \in ToolCalls, NEW c, OneCalls(t, c), NEW i,
         calling[t].op \in {"edit", "delete", "react", "store"} => calling[t].id # i,
         c.op \in {"edit", "delete", "react", "store"} => c.id # i
  PROVE  SameEdits(i) /\ SameDeletions(i) /\ SameReactions(i)
  BY SameKinds DEF Reacts

\* A step on one message leaves the others alone.
LEMMA OneMessage ==
  ASSUME MessageHolds, NEW t \in ToolCalls, NEW c, OneCalls(t, c), NEW i,
         calling[t].op \in {"edit", "delete", "react", "store"} => calling[t].id = i,
         c.op \in {"edit", "delete", "react", "store"} => c.id = i,
         \A j \in Tr!Ids : j # i => telegram'[j] = telegram[j] /\ Tr!Row(j)' = Tr!Row(j),
         \A j \in Tr!Ids : Tr!Delivered(j)' <=> Tr!Delivered(j),
         torn \subseteq torn', UNCHANGED <<reactions, handler>>,
         i \in Tr!Ids \ torn' /\ Tr!Delivered(i) => Tr!Carried(i)' /\ Led(i)'
  PROVE  MessageHolds'
<1>1. SUFFICES ASSUME NEW j \in Tr!Ids \ torn', Tr!Delivered(j)', j # i
      PROVE  Tr!Carried(j)' /\ Led(j)'
  BY DEF MessageHolds
<1>2. Tr!Carried(j) /\ Led(j)
  BY <1>1 DEF MessageHolds
<1>3. SameEdits(j) /\ SameDeletions(j) /\ SameReactions(j)
  BY <1>1, OtherCalls
<1>4. TextCarried(j) /\ DeletionCarried(j) /\ ReactionCarried(j)
  BY <1>2, CarriedIs
<1>5. telegram'[j] = telegram[j] /\ Tr!Row(j)' = Tr!Row(j)
  BY <1>1
<1>6. (TextCarried(j) /\ DeletionCarried(j) /\ ReactionCarried(j))'
  BY <1>3, <1>4, <1>5, TextStays, DeletionStays, ReactionStays
<1>7. Tr!Carried(j)'
  BY <1>6, CarriedIsThen
<1>8. QED
  BY <1>2, <1>5, <1>7, LedStays

\* What a call that sends nothing does to the order of messages and rows.
LEMMA CallStep ==
  ASSUME Tr!TypeOK, Tr!ChangesAreOfMessages, Tr!SendsApart, Tr!RowsCome,
         NEW t \in ToolCalls, NEW c, OneCalls(t, c), c.op # "send",
         calling[t].op = "send" => \A j \in DOMAIN calling[t].ids : calling[t].ids[j] \in torn',
         c.op \in {"edit", "delete", "react", "store"} => c.id \in Tr!Ids /\ Tr!Delivered(c.id),
         \A j \in Tr!Ids : Tr!Delivered(j)' <=> Tr!Delivered(j),
         \A j \in Tr!Ids : Tr!Stored(j)' <=> Tr!Stored(j),
         torn \subseteq torn', UNCHANGED <<reactions, handler, sent>>
  PROVE  Tr!ChangesAreOfMessages' /\ Tr!SendsApart' /\ Tr!RowsCome'
<1>1. \A u \in ToolCalls : u # t => calling'[u] = calling[u]
  BY DEF OneCalls
<1>2. calling'[t] = c
  BY DEF OneCalls
<1>3. \A u \in ToolCalls : calling[u].op \in {"edit", "delete", "react", "store"}
          => calling[u].id \in Tr!Ids
  BY ToolCallFacts
<1>4. Tr!ChangesAreOfMessages'
  <2>1. \A i \in Tr!Ids : Tr!Delivered(i)' <=> i <= sent'
    BY DEF Tr!ChangesAreOfMessages
  <2>2. \A i \in Tr!Ids : Tr!Stored(i)' => Tr!Delivered(i)'
    BY DEF Tr!ChangesAreOfMessages
  <2>3. ASSUME NEW u \in ToolCalls, calling'[u].op \in {"edit", "delete", "react", "store"}
        PROVE  telegram'[calling'[u].id] # Tr!NoMessage
    <3>1. calling'[u].id \in Tr!Ids /\ telegram[calling'[u].id] # Tr!NoMessage
      BY <1>1, <1>2, <1>3, <2>3 DEF Tr!ChangesAreOfMessages, Tr!Delivered
    <3>2. QED
      BY <3>1 DEF Tr!Delivered
  <2>4. handler' # Tr!Free => telegram'[handler'.id] # Tr!NoMessage
    <3>1. handler # Tr!Free => handler.id \in Tr!Ids
      BY DEF Tr!TypeOK, Tr!Handling
    <3>2. QED
      BY <3>1 DEF Tr!ChangesAreOfMessages, Tr!Delivered
  <2>5. \A k \in DOMAIN reactions' : telegram'[reactions'[k].id] # Tr!NoMessage
    <3>1. \A k \in DOMAIN reactions : reactions[k].id \in Tr!Ids
      <4>1. \A k \in DOMAIN reactions : reactions[k] \in Tr!Update
        BY ElementOfSeq DEF Tr!TypeOK
      <4>2. QED
        BY <4>1 DEF Tr!Update
    <3>2. QED
      BY <3>1 DEF Tr!ChangesAreOfMessages, Tr!Delivered
  <2>6. QED
    BY <2>1, <2>2, <2>3, <2>4, <2>5 DEF Tr!ChangesAreOfMessages, Tr!Delivered
<1>5. \A u \in ToolCalls : (Tr!Sending(u)'
          => u # t /\ calling'[u] = calling[u] /\ Tr!Sending(u))
  BY <1>1, <1>2 DEF Tr!Sending
<1>6. \A u \in ToolCalls : Tr!Sending(u)
          => \A j \in DOMAIN calling[u].ids : calling[u].ids[j] \in Tr!Ids
  BY ToolCallFacts, ElementOfSeq DEF Tr!Sending
<1>7. Tr!SendsApart'
  <2>1. SUFFICES ASSUME NEW u \in ToolCalls, Tr!Sending(u)'
        PROVE  /\ calling'[u].left = 0 => calling'[u].ids # <<>>
               /\ \A j \in DOMAIN calling'[u].ids :
                      telegram'[calling'[u].ids[j]] # Tr!NoMessage
                          /\ table'[calling'[u].ids[j]] = Tr!NoMessage
               /\ \A v \in ToolCalls : Tr!Sending(v)' =>
                      \A j \in DOMAIN calling'[u].ids, k \in DOMAIN calling'[v].ids :
                          calling'[u].ids[j] = calling'[v].ids[k] => u = v /\ j = k
    BY DEF Tr!SendsApart, Tr!Delivered, Tr!Stored
  <2>2. calling'[u] = calling[u] /\ Tr!Sending(u)
    BY <1>5, <2>1
  <2>3. \A j \in DOMAIN calling[u].ids :
            telegram'[calling[u].ids[j]] # Tr!NoMessage
                /\ table'[calling[u].ids[j]] = Tr!NoMessage
    BY <1>6, <2>2 DEF Tr!SendsApart, Tr!Delivered, Tr!Stored
  <2>4. \A v \in ToolCalls : Tr!Sending(v)' =>
            \A j \in DOMAIN calling[u].ids, k \in DOMAIN calling'[v].ids :
                calling[u].ids[j] = calling'[v].ids[k] => u = v /\ j = k
    BY <1>5, <2>2 DEF Tr!SendsApart
  <2>5. QED
    BY <2>2, <2>3, <2>4 DEF Tr!SendsApart
<1>8. Tr!RowsCome'
  <2>1. SUFFICES ASSUME NEW i \in Tr!Ids \ torn', Tr!Delivered(i)', ~Tr!Stored(i)'
        PROVE  \E u \in ToolCalls : calling'[u].op = "send" /\ i \in Tr!ToSet(calling'[u].ids)
    BY DEF Tr!RowsCome, Tr!Sending
  <2>2. i \in Tr!Ids \ torn /\ Tr!Delivered(i) /\ ~Tr!Stored(i)
    BY <2>1
  <2>3. PICK u \in ToolCalls : Tr!Sending(u) /\ i \in Tr!ToSet(calling[u].ids)
    BY <2>2 DEF Tr!RowsCome
  <2>4. u # t
    BY <2>1, <2>3 DEF Tr!Sending, Tr!ToSet
  <2>5. QED
    BY <1>1, <2>3, <2>4 DEF Tr!Sending
<1>9. QED
  BY <1>4, <1>7, <1>8

\* What a call leaves of the types.
LEMMA TypesAfterCall ==
  ASSUME Tr!TypeOK, NEW t, NEW c, OneCalls(t, c),
         telegram' \in [Tr!Ids -> {Tr!NoMessage} \cup Tr!Message],
         table' \in [Tr!Ids -> {Tr!NoMessage} \cup Tr!Message],
         torn' \subseteq Tr!Ids, changes' \in 0 .. MaxChanges,
         UNCHANGED <<reactions, handler, sent>>
  PROVE  Tr!TypeOK'
  BY DEF Tr!TypeOK, OneCalls

\* A new call on a message changes it in Telegram first.
LEMMA CallOnTelegram ==
  ASSUME TranscriptHolds, NEW t \in ToolCalls, calling[t] = Tr!Free, NEW i \in Tr!Ids,
             Tr!Known(i),
         NEW c \in Tr!Calling, c.op \in {"edit", "delete", "react"}, c.id = i, Tr!Becomes(t, c),
         NEW m \in Tr!Message, telegram' = [telegram EXCEPT ![i] = m], Tr!Change,
         m.by["person"] = telegram[i].by["person"],
         torn' \in {torn, torn \cup {i}}, UNCHANGED <<table, reactions, handler, sent>>,
         i \notin torn' => Tr!Carried(i)'
  PROVE  TranscriptHolds'
<1>1. Tr!TypeOK
  BY DEF TranscriptHolds
<1>2. OneCalls(t, c) /\ c.op # "send" /\ calling[t].op = "none"
  BY <1>1, CallBecomes DEF Tr!Free
<1>3. Tr!Delivered(i)
  BY <1>1, MessageFacts
<1>4. /\ telegram' \in [Tr!Ids -> {Tr!NoMessage} \cup Tr!Message]
      /\ telegram'[i] = m /\ \A j \in Tr!Ids : j # i => telegram'[j] = telegram[j]
      /\ \A j \in Tr!Ids : Tr!Delivered(j)' <=> Tr!Delivered(j)
  BY <1>1, <1>3, TelegramChanges
<1>5. changes' \in 0 .. MaxChanges
  BY <1>1, ServicesAssumption DEF Tr!Change, Tr!TypeOK
<1>6. /\ table' \in [Tr!Ids -> {Tr!NoMessage} \cup Tr!Message]
      /\ torn' \subseteq Tr!Ids /\ torn \subseteq torn'
      /\ \A j \in Tr!Ids : (Tr!Stored(j)' <=> Tr!Stored(j)) /\ Tr!Row(j)' = Tr!Row(j)
  BY <1>1 DEF Tr!TypeOK, Tr!Stored, Tr!Row
<1>7. Tr!TypeOK'
  BY <1>1, <1>2, <1>4, <1>5, <1>6, TypesAfterCall
<1>8. Tr!ChangesAreOfMessages' /\ Tr!SendsApart' /\ Tr!RowsCome'
  <2>1. Tr!ChangesAreOfMessages /\ Tr!SendsApart /\ Tr!RowsCome
    BY DEF TranscriptHolds
  <2>2. QED
    BY <1>1, <1>2, <1>3, <1>4, <1>6, <2>1, CallStep
<1>9. MessageHolds'
  <2>1. MessageHolds
    BY DEF TranscriptHolds
  <2>2. i \in Tr!Ids \ torn' => Led(i)'
    <3>1. SUFFICES ASSUME i \notin torn PROVE Led(i)'
      BY <1>6
    <3>2. Led(i)
      BY <1>3, <2>1, <3>1 DEF MessageHolds
    <3>3. QED
      BY <1>4, <1>6, <3>2, LedStays
  <2>3. QED
    BY <1>2, <1>4, <1>6, <2>1, <2>2, OneMessage
<1>10. QED
  BY <1>7, <1>8, <1>9 DEF TranscriptHolds

LEMMA EditStep ==
  ASSUME TranscriptHolds, NEW t \in ToolCalls, NEW i \in Tr!Ids, Tr!Edit(t, i)
  PROVE  TranscriptHolds'
<1> DEFINE x == changes'
           m == [telegram[i] EXCEPT !.text = x]
           c == [op |-> "edit", id |-> i, text |-> x]
<1>1. /\ calling[t] = Tr!Free /\ Tr!Known(i) /\ Tr!Change /\ Tr!Becomes(t, c)
      /\ telegram' = [telegram EXCEPT ![i] = m]
      /\ torn' = IF Tr!Doing("edit", i) = {} THEN torn ELSE torn \cup {i}
      /\ UNCHANGED <<table, reactions, handler, sent>>
  BY DEF Tr!Edit
<1>2. Tr!TypeOK /\ MessageHolds
  BY DEF TranscriptHolds
<1>3. x \in 0 .. MaxChanges
  BY <1>1, <1>2, ServicesAssumption DEF Tr!Change, Tr!TypeOK
<1>4. Tr!Delivered(i) /\ telegram[i] \in Tr!Message
  BY <1>1, <1>2, MessageFacts
<1>5. /\ m \in Tr!Message /\ m.text = x
      /\ m.deleted = telegram[i].deleted /\ m.by = telegram[i].by
  BY <1>3, <1>4, WithText
<1>6. c \in Tr!Calling /\ c.op = "edit" /\ c.id = i /\ c.text = x
  BY <1>3 DEF Tr!Calling
<1> HIDE DEF x, m, c
<1>7. OneCalls(t, c) /\ calling[t].op = "none"
  BY <1>1, <1>2, <1>6, CallBecomes DEF Tr!Free
<1>8. telegram'[i] = m
  BY <1>1, <1>2, <1>4, <1>5, TelegramChanges
<1>9. ASSUME i \notin torn' PROVE Tr!Carried(i)'
  <2>1. i \notin torn /\ Tr!Doing("edit", i) = {}
    BY <1>1, <1>9
  <2>2. TextCarried(i) /\ DeletionCarried(i) /\ ReactionCarried(i)
    BY <1>2, <1>4, <2>1, CarriedIs DEF MessageHolds
  <2>3. SameDeletions(i) /\ SameReactions(i)
    BY <1>6, <1>7, SameKinds DEF Reacts
  <2>4. Tr!Row(i)' = Tr!Row(i)
    BY <1>1 DEF Tr!Row, Tr!Stored
  <2>5. DeletionCarried(i)' /\ ReactionCarried(i)'
    BY <1>5, <1>8, <2>2, <2>3, <2>4, DeletionStays, ReactionStays
  <2>6. TextCarried(i)'
    <3>1. Tr!Doing("edit", i)' = {t}
      BY <1>6, <1>7, <2>1 DEF Tr!Doing, OneCalls
    <3>2. calling'[t].text = telegram'[i].text
      BY <1>5, <1>6, <1>7, <1>8 DEF OneCalls
    <3>3. QED
      BY <3>1, <3>2 DEF TextCarried
  <2>7. QED
    BY <2>5, <2>6, CarriedIsThen
<1>10. QED
  BY <1>1, <1>5, <1>6, <1>9, CallOnTelegram

LEMMA DeleteStep ==
  ASSUME TranscriptHolds, NEW t \in ToolCalls, NEW i \in Tr!Ids, Tr!Delete(t, i)
  PROVE  TranscriptHolds'
<1> DEFINE m == [telegram[i] EXCEPT !.deleted = TRUE]
           c == [op |-> "delete", id |-> i]
<1>1. /\ calling[t] = Tr!Free /\ Tr!Known(i) /\ Tr!Change /\ Tr!Becomes(t, c)
      /\ telegram' = [telegram EXCEPT ![i] = m]
      /\ UNCHANGED <<table, reactions, handler, torn, sent>>
  BY DEF Tr!Delete
<1>2. Tr!TypeOK /\ MessageHolds
  BY DEF TranscriptHolds
<1>4. Tr!Delivered(i) /\ telegram[i] \in Tr!Message
  BY <1>1, <1>2, MessageFacts
<1>5. /\ m \in Tr!Message /\ m.deleted = TRUE
      /\ m.text = telegram[i].text /\ m.by = telegram[i].by
  BY <1>4, WithDeleted
<1>6. c \in Tr!Calling /\ c.op = "delete" /\ c.id = i
  BY DEF Tr!Calling
<1> HIDE DEF m, c
<1>7. OneCalls(t, c) /\ calling[t].op = "none"
  BY <1>1, <1>2, <1>6, CallBecomes DEF Tr!Free
<1>8. telegram'[i] = m
  BY <1>1, <1>2, <1>4, <1>5, TelegramChanges
<1>9. ASSUME i \notin torn' PROVE Tr!Carried(i)'
  <2>1. i \notin torn
    BY <1>1, <1>9
  <2>2. TextCarried(i) /\ DeletionCarried(i) /\ ReactionCarried(i)
    BY <1>2, <1>4, <2>1, CarriedIs DEF MessageHolds
  <2>3. SameEdits(i) /\ SameReactions(i)
    BY <1>6, <1>7, SameKinds DEF Reacts
  <2>4. Tr!Row(i)' = Tr!Row(i)
    BY <1>1 DEF Tr!Row, Tr!Stored
  <2>5. TextCarried(i)' /\ ReactionCarried(i)'
    BY <1>5, <1>8, <2>2, <2>3, <2>4, TextStays, ReactionStays
  <2>6. DeletionCarried(i)'
    <3>1. t \in Tr!Doing("delete", i)'
      BY <1>6, <1>7 DEF Tr!Doing, OneCalls
    <3>2. telegram'[i].deleted
      BY <1>5, <1>8
    <3>3. QED
      BY <3>1, <3>2 DEF DeletionCarried
  <2>7. QED
    BY <2>5, <2>6, CarriedIsThen
<1>10. QED
  BY <1>1, <1>5, <1>6, <1>9, CallOnTelegram

LEMMA ReactStep ==
  ASSUME TranscriptHolds, NEW t \in ToolCalls, NEW i \in Tr!Ids, NEW e \in Emojis,
         Tr!React(t, i, e)
  PROVE  TranscriptHolds'
<1> DEFINE b == [telegram[i].by EXCEPT !["bot"] = {e}]
           m == [telegram[i] EXCEPT !.by = b]
           c == [op |-> "react", id |-> i, emoji |-> e]
<1>1. /\ calling[t] = Tr!Free /\ Tr!Known(i) /\ Tr!Change /\ Tr!Becomes(t, c)
      /\ telegram' = [telegram EXCEPT ![i] = m]
      /\ torn' = IF Tr!Doing("react", i) \cup Tr!Doing("store", i) = {} THEN torn
             ELSE torn \cup {i}
      /\ UNCHANGED <<table, reactions, handler, sent>>
  BY DEF Tr!React
<1>2. Tr!TypeOK /\ MessageHolds
  BY DEF TranscriptHolds
<1>4. Tr!Delivered(i) /\ telegram[i] \in Tr!Message /\ telegram[i].by \in Tr!By
  BY <1>1, <1>2, MessageFacts DEF Tr!Message
<1>5. b \in Tr!By /\ b["bot"] = {e} /\ b["person"] = telegram[i].by["person"]
  <2>1. {e} \in SUBSET Emojis /\ "bot" \in Tr!Who /\ "person" \in Tr!Who
    BY DEF Tr!Who
  <2>2. QED
    BY <1>4, <2>1 DEF Tr!By
<1> HIDE DEF b
<1>6. /\ m \in Tr!Message /\ m.by = b
      /\ m.text = telegram[i].text /\ m.deleted = telegram[i].deleted
  BY <1>4, <1>5, WithBy
<1>7. c \in Tr!Calling /\ c.op = "react" /\ c.id = i /\ c.emoji = e
  BY DEF Tr!Calling
<1> HIDE DEF m, c
<1>8. OneCalls(t, c) /\ calling[t].op = "none"
  BY <1>1, <1>2, <1>7, CallBecomes DEF Tr!Free
<1>9. telegram'[i] = m
  BY <1>1, <1>2, <1>4, <1>6, TelegramChanges
<1>10. ASSUME i \notin torn' PROVE Tr!Carried(i)'
  <2>1. i \notin torn /\ Tr!Doing("react", i) \cup Tr!Doing("store", i) = {}
    BY <1>1, <1>10
  <2>2. TextCarried(i) /\ DeletionCarried(i) /\ ReactionCarried(i)
    BY <1>2, <1>4, <2>1, CarriedIs DEF MessageHolds
  <2>3. SameEdits(i) /\ SameDeletions(i)
    BY <1>7, <1>8, SameKinds
  <2>4. Tr!Row(i)' = Tr!Row(i)
    BY <1>1 DEF Tr!Row, Tr!Stored
  <2>5. TextCarried(i)' /\ DeletionCarried(i)'
    BY <1>6, <1>9, <2>2, <2>3, <2>4, TextStays, DeletionStays
  <2>6. ReactionCarried(i)'
    <3>1. \A u \in ToolCalls : ~Reacts(u, i)
      BY <2>1 DEF Reacts, Tr!Doing
    <3>2. \A u \in ToolCalls : u # t => ~Reacts(u, i)'
      BY <1>8, <3>1 DEF Reacts, OneCalls
    <3>3. Reacts(t, i)' /\ calling'[t].emoji = e
      BY <1>7, <1>8 DEF Reacts, OneCalls
    <3>4. telegram'[i].by["bot"] = {e}
      BY <1>5, <1>6, <1>9
    <3>5. QED
      BY <3>2, <3>3, <3>4 DEF ReactionCarried
  <2>7. QED
    BY <2>5, <2>6, CarriedIsThen
<1>11. m.by["person"] = telegram[i].by["person"]
  BY <1>5, <1>6
<1>12. QED
  BY <1>1, <1>6, <1>7, <1>10, <1>11, CallOnTelegram

\* A call on message i that writes its row, or finds none, and is done.
LEMMA CallOnRow ==
  ASSUME TranscriptHolds, NEW t \in ToolCalls, NEW i \in Tr!Ids, calling[t].id = i,
         calling[t].op \in {"edit", "delete", "react", "store"},
         NEW c \in {Tr!Free} \cup Tr!Calling, c = Tr!Free \/ (c.op = "store" /\ c.id = i),
         Tr!Becomes(t, c), NEW m \in Tr!Message,
         \/ Tr!Stored(i) /\ table' = [table EXCEPT ![i] = m]
         \/ table' = table,
         torn' \in {torn, torn \cup {i}}, UNCHANGED <<telegram, reactions, handler, sent,
             changes>>,
         i \notin torn' => Tr!Carried(i)' /\ Tr!Row(i)'.by["person"] = Tr!Row(i).by["person"]
  PROVE  TranscriptHolds'
<1>1. Tr!TypeOK
  BY DEF TranscriptHolds
<1>2. OneCalls(t, c) /\ c.op \in {"none", "store"}
  BY <1>1, CallBecomes DEF Tr!Free
<1>3. Tr!Delivered(i)
  BY DEF TranscriptHolds, Tr!ChangesAreOfMessages
<1>4. /\ table' \in [Tr!Ids -> {Tr!NoMessage} \cup Tr!Message]
      /\ \A j \in Tr!Ids : j # i => Tr!Row(j)' = Tr!Row(j)
      /\ \A j \in Tr!Ids : Tr!Stored(j)' <=> Tr!Stored(j)
  <2>1. CASE Tr!Stored(i) /\ table' = [table EXCEPT ![i] = m]
    <3>1. /\ table' \in [Tr!Ids -> {Tr!NoMessage} \cup Tr!Message] /\ Tr!Stored(i)'
          /\ \A j \in Tr!Ids : j # i => (Tr!Stored(j)' <=> Tr!Stored(j)) /\ Tr!Row(j)' = Tr!Row(j)
      BY <1>1, <2>1, TableChanges
    <3>2. QED
      BY <2>1, <3>1
  <2>2. CASE table' = table
    BY <1>1, <2>2 DEF Tr!TypeOK, Tr!Row, Tr!Stored
  <2>3. QED
    BY <2>1, <2>2
<1>5. \A j \in Tr!Ids : Tr!Delivered(j)' <=> Tr!Delivered(j)
  BY DEF Tr!Delivered
<1>6. torn' \subseteq Tr!Ids /\ torn \subseteq torn'
  BY <1>1 DEF Tr!TypeOK
<1>7. Tr!TypeOK'
  BY <1>1, <1>2, <1>4, <1>6, TypesAfterCall DEF Tr!TypeOK
<1>8. Tr!ChangesAreOfMessages' /\ Tr!SendsApart' /\ Tr!RowsCome'
  <2>1. Tr!ChangesAreOfMessages /\ Tr!SendsApart /\ Tr!RowsCome
    BY DEF TranscriptHolds
  <2>2. QED
    BY <1>1, <1>2, <1>3, <1>4, <1>5, <1>6, <2>1, CallStep DEF Tr!Free
<1>9. MessageHolds'
  <2>1. MessageHolds
    BY DEF TranscriptHolds
  <2>2. i \in Tr!Ids \ torn' => Led(i)'
    <3>1. SUFFICES ASSUME i \notin torn, i \notin torn' PROVE Led(i)'
      BY <1>6
    <3>2. Led(i)
      BY <1>3, <2>1, <3>1 DEF MessageHolds
    <3>3. QED
      BY <3>1, <3>2, LedStays
  <2>3. QED
    BY <1>2, <1>4, <1>5, <1>6, <2>1, <2>2, OneMessage DEF Tr!Free
<1>10. QED
  BY <1>7, <1>8, <1>9 DEF TranscriptHolds

LEMMA MarkEditedStep ==
  ASSUME TranscriptHolds, NEW t \in ToolCalls, Tr!MarkEdited(t)
  PROVE  TranscriptHolds'
<1>1. Tr!TypeOK /\ MessageHolds
  BY DEF TranscriptHolds
<1>2. calling[t].op = "edit" /\ calling[t].id \in Tr!Ids /\ calling[t].text \in 0 .. MaxChanges
  BY <1>1, ToolCallFacts DEF Tr!MarkEdited
<1>3. PICK i \in Tr!Ids : i = calling[t].id
  BY <1>2
<1> DEFINE m == [Tr!Row(i) EXCEPT !.text = calling[t].text]
<1>4. Tr!Row(i) \in Tr!Message /\ (Tr!Stored(i) => Tr!Row(i) = table[i])
  BY <1>1, MessageFacts
<1>5. /\ m \in Tr!Message /\ m.text = calling[t].text
      /\ m.deleted = Tr!Row(i).deleted /\ m.by = Tr!Row(i).by
  BY <1>2, <1>4, WithText
<1>6. /\ \/ Tr!Stored(i) /\ table' = [table EXCEPT ![i] = m] /\ torn' = torn
         \/ ~Tr!Stored(i) /\ table' = table /\ torn' = torn \cup {i}
      /\ Tr!Becomes(t, Tr!Free) /\ UNCHANGED <<telegram, reactions, handler, sent, changes>>
  BY <1>2, <1>3, <1>4 DEF Tr!MarkEdited
<1> HIDE DEF m
<1>7. OneCalls(t, Tr!Free) /\ Tr!Free.op = "none"
  BY <1>1, <1>6, CallBecomes DEF Tr!Free
<1>8. ASSUME i \notin torn'
      PROVE  Tr!Carried(i)' /\ Tr!Row(i)'.by["person"] = Tr!Row(i).by["person"]
  <2>1. Tr!Stored(i) /\ table' = [table EXCEPT ![i] = m] /\ i \notin torn
    BY <1>6, <1>8
  <2>2. Tr!Row(i)' = m
    BY <1>1, <1>5, <2>1, TableChanges
  <2>3. Tr!Delivered(i)
    BY <1>2, <1>3 DEF TranscriptHolds, Tr!ChangesAreOfMessages
  <2>4. TextCarried(i) /\ DeletionCarried(i) /\ ReactionCarried(i)
    BY <1>1, <2>1, <2>3, CarriedIs DEF MessageHolds
  <2>5. SameDeletions(i) /\ SameReactions(i)
    BY <1>2, <1>7, SameKinds DEF Reacts
  <2>6. DeletionCarried(i)' /\ ReactionCarried(i)'
    BY <1>5, <1>6, <2>2, <2>4, <2>5, DeletionStays, ReactionStays
  <2>7. TextCarried(i)'
    <3>1. calling[t].text = telegram[i].text
      BY <1>2, <1>3, <2>4 DEF TextCarried, Tr!Doing
    <3>2. Tr!Row(i)'.text = telegram'[i].text
      BY <1>5, <1>6, <2>2, <3>1
    <3>3. \A u \in Tr!Doing("edit", i)' : u \in Tr!Doing("edit", i) /\ calling'[u] = calling[u]
      BY <1>7 DEF Tr!Doing, OneCalls
    <3>4. QED
      BY <1>6, <2>4, <3>2, <3>3 DEF TextCarried
  <2>8. QED
    BY <1>5, <2>2, <2>6, <2>7, CarriedIsThen
<1>9. QED
  BY <1>2, <1>3, <1>5, <1>6, <1>8, CallOnRow

LEMMA MarkDeletedStep ==
  ASSUME TranscriptHolds, NEW t \in ToolCalls, Tr!MarkDeleted(t)
  PROVE  TranscriptHolds'
<1>1. Tr!TypeOK /\ MessageHolds
  BY DEF TranscriptHolds
<1>2. calling[t].op = "delete" /\ calling[t].id \in Tr!Ids
  BY <1>1, ToolCallFacts DEF Tr!MarkDeleted
<1>3. PICK i \in Tr!Ids : i = calling[t].id
  BY <1>2
<1> DEFINE m == [Tr!Row(i) EXCEPT !.deleted = TRUE]
<1>4. Tr!Row(i) \in Tr!Message /\ (Tr!Stored(i) => Tr!Row(i) = table[i])
  BY <1>1, MessageFacts
<1>5. /\ m \in Tr!Message /\ m.deleted = TRUE
      /\ m.text = Tr!Row(i).text /\ m.by = Tr!Row(i).by
  BY <1>4, WithDeleted
<1>6. /\ \/ Tr!Stored(i) /\ table' = [table EXCEPT ![i] = m] /\ torn' = torn
         \/ ~Tr!Stored(i) /\ table' = table /\ torn' = torn \cup {i}
      /\ Tr!Becomes(t, Tr!Free) /\ UNCHANGED <<telegram, reactions, handler, sent, changes>>
  BY <1>2, <1>3, <1>4 DEF Tr!MarkDeleted
<1> HIDE DEF m
<1>7. OneCalls(t, Tr!Free) /\ Tr!Free.op = "none"
  BY <1>1, <1>6, CallBecomes DEF Tr!Free
<1>8. ASSUME i \notin torn'
      PROVE  Tr!Carried(i)' /\ Tr!Row(i)'.by["person"] = Tr!Row(i).by["person"]
  <2>1. Tr!Stored(i) /\ table' = [table EXCEPT ![i] = m] /\ i \notin torn
    BY <1>6, <1>8
  <2>2. Tr!Row(i)' = m
    BY <1>1, <1>5, <2>1, TableChanges
  <2>3. Tr!Delivered(i) /\ telegram[i] \in Tr!Message
    <3>1. Tr!Delivered(i)
      BY <1>2, <1>3 DEF TranscriptHolds, Tr!ChangesAreOfMessages
    <3>2. QED
      BY <1>1, <3>1, MessageFacts
  <2>4. TextCarried(i) /\ DeletionCarried(i) /\ ReactionCarried(i)
    BY <1>1, <2>1, <2>3, CarriedIs DEF MessageHolds
  <2>5. SameEdits(i) /\ SameReactions(i)
    BY <1>2, <1>7, SameKinds DEF Reacts
  <2>6. TextCarried(i)' /\ ReactionCarried(i)'
    BY <1>5, <1>6, <2>2, <2>4, <2>5, TextStays, ReactionStays
  <2>7. DeletionCarried(i)'
    <3>1. t \in Tr!Doing("delete", i)
      BY <1>2, <1>3 DEF Tr!Doing
    <3>2. telegram[i].deleted
      BY <2>4, <3>1 DEF DeletionCarried
    <3>3. telegram[i].deleted = TRUE
      BY <2>3, <3>2 DEF Tr!Message
    <3>4. Tr!Row(i)'.deleted = telegram'[i].deleted
      BY <1>5, <1>6, <2>2, <3>3
    <3>5. telegram'[i].deleted
      BY <1>6, <3>2
    <3>6. QED
      BY <3>4, <3>5 DEF DeletionCarried
  <2>8. QED
    BY <1>5, <2>2, <2>6, <2>7, CarriedIsThen
<1>9. QED
  BY <1>2, <1>3, <1>5, <1>6, <1>8, CallOnRow

LEMMA LoadReactionsStep ==
  ASSUME TranscriptHolds, NEW t \in ToolCalls, Tr!LoadReactions(t)
  PROVE  TranscriptHolds'
<1>1. Tr!TypeOK /\ MessageHolds
  BY DEF TranscriptHolds
<1>2. calling[t].op = "react" /\ calling[t].id \in Tr!Ids /\ calling[t].emoji \in Emojis
  BY <1>1, ToolCallFacts DEF Tr!LoadReactions
<1>3. PICK i \in Tr!Ids : i = calling[t].id
  BY <1>2
<1> DEFINE r == Tr!Reactions(i)
           c == [op |-> "store", id |-> i, emoji |-> calling[t].emoji, read |-> r]
<1>4. Tr!Row(i) \in Tr!Message /\ r \in Tr!By
  BY <1>1, MessageFacts
<1> HIDE DEF r
<1>5. /\ Tr!Becomes(t, c)
      /\ UNCHANGED <<telegram, table, reactions, handler, torn, sent, changes>>
  BY <1>3 DEF Tr!LoadReactions, r
<1>6. c \in Tr!Calling /\ c.op = "store" /\ c.id = i /\ c.emoji = calling[t].emoji
  BY <1>2, <1>3, <1>4 DEF Tr!Calling
<1> HIDE DEF c
<1>7. OneCalls(t, c)
  BY <1>1, <1>5, <1>6, CallBecomes
<1>8. ASSUME i \notin torn'
      PROVE  Tr!Carried(i)' /\ Tr!Row(i)'.by["person"] = Tr!Row(i).by["person"]
  <2>1. i \notin torn /\ Tr!Row(i)' = Tr!Row(i)
    BY <1>5, <1>8 DEF Tr!Row, Tr!Stored
  <2>2. Tr!Delivered(i)
    BY <1>2, <1>3 DEF TranscriptHolds, Tr!ChangesAreOfMessages
  <2>3. TextCarried(i) /\ DeletionCarried(i) /\ ReactionCarried(i)
    BY <1>1, <2>1, <2>2, CarriedIs DEF MessageHolds
  <2>4. SameEdits(i) /\ SameDeletions(i)
    BY <1>2, <1>6, <1>7, SameKinds
  <2>5. SameReactions(i)
    BY <1>2, <1>3, <1>6, <1>7 DEF SameReactions, Reacts, OneCalls
  <2>6. TextCarried(i)' /\ DeletionCarried(i)' /\ ReactionCarried(i)'
    BY <1>5, <2>1, <2>3, <2>4, <2>5, TextStays, DeletionStays, ReactionStays
  <2>7. QED
    BY <2>1, <2>6, CarriedIsThen
<1>9. QED
  BY <1>2, <1>3, <1>4, <1>5, <1>6, <1>8, CallOnRow

LEMMA AddBotReactionStep ==
  ASSUME TranscriptHolds, NEW t \in ToolCalls, Tr!AddBotReaction(t)
  PROVE  TranscriptHolds'
<1>1. Tr!TypeOK /\ MessageHolds
  BY DEF TranscriptHolds
<1>2. /\ calling[t].op = "store" /\ calling[t].id \in Tr!Ids /\ calling[t].emoji \in Emojis
      /\ calling[t].read \in Tr!By
  BY <1>1, ToolCallFacts DEF Tr!AddBotReaction
<1>3. PICK i \in Tr!Ids : i = calling[t].id
  BY <1>2
<1> DEFINE b == [calling[t].read EXCEPT !["bot"] = {calling[t].emoji}]
           m == [Tr!Row(i) EXCEPT !.by = b]
<1>4. /\ Tr!Row(i) \in Tr!Message /\ (Tr!Stored(i) => Tr!Row(i) = table[i])
  BY <1>1, MessageFacts
<1>5. b \in Tr!By /\ b["bot"] = {calling[t].emoji} /\ b["person"] = calling[t].read["person"]
  <2>1. {calling[t].emoji} \in SUBSET Emojis /\ "bot" \in Tr!Who /\ "person" \in Tr!Who
    BY <1>2 DEF Tr!Who
  <2>2. QED
    BY <1>2, <2>1 DEF Tr!By
<1>6. /\ Tr!StoreReactions(i, calling[t].read, b)
      /\ Tr!Becomes(t, Tr!Free) /\ UNCHANGED <<telegram, reactions, handler, sent, changes>>
  BY <1>3 DEF Tr!AddBotReaction
<1> HIDE DEF b
<1>7. /\ m \in Tr!Message /\ m.by = b
      /\ m.text = Tr!Row(i).text /\ m.deleted = Tr!Row(i).deleted
  BY <1>4, <1>5, WithBy
<1>8. \/ /\ Tr!Stored(i) /\ table' = [table EXCEPT ![i] = m]
         /\ torn' = IF Tr!Row(i).by = calling[t].read THEN torn ELSE torn \cup {i}
      \/ ~Tr!Stored(i) /\ table' = table /\ torn' = torn \cup {i}
  BY <1>4, <1>6 DEF Tr!StoreReactions
<1> HIDE DEF m
<1>9. OneCalls(t, Tr!Free) /\ Tr!Free.op = "none"
  BY <1>1, <1>6, CallBecomes DEF Tr!Free
<1>10. ASSUME i \notin torn'
       PROVE  Tr!Carried(i)' /\ Tr!Row(i)'.by["person"] = Tr!Row(i).by["person"]
  <2>1. /\ Tr!Stored(i) /\ table' = [table EXCEPT ![i] = m] /\ i \notin torn
        /\ Tr!Row(i).by = calling[t].read
    BY <1>8, <1>10
  <2>2. Tr!Row(i)' = m
    BY <1>1, <1>7, <2>1, TableChanges
  <2>3. Tr!Delivered(i)
    BY <1>2, <1>3 DEF TranscriptHolds, Tr!ChangesAreOfMessages
  <2>4. TextCarried(i) /\ DeletionCarried(i) /\ ReactionCarried(i)
    BY <1>1, <2>1, <2>3, CarriedIs DEF MessageHolds
  <2>5. SameEdits(i) /\ SameDeletions(i)
    BY <1>2, <1>9, SameKinds
  <2>6. TextCarried(i)' /\ DeletionCarried(i)'
    BY <1>6, <1>7, <2>2, <2>4, <2>5, TextStays, DeletionStays
  <2>7. ReactionCarried(i)'
    <3>1. telegram[i].by["bot"] = {calling[t].emoji}
      BY <1>2, <1>3, <2>4 DEF ReactionCarried, Reacts
    <3>2. Tr!Row(i)'.by["bot"] = telegram'[i].by["bot"]
      BY <1>5, <1>6, <1>7, <2>2, <3>1
    <3>3. \A u \in ToolCalls : Reacts(u, i)' => Reacts(u, i) /\ calling'[u] = calling[u]
      BY <1>9 DEF Reacts, OneCalls
    <3>4. QED
      BY <1>6, <2>4, <3>2, <3>3 DEF ReactionCarried
  <2>8. Tr!Row(i)'.by["person"] = Tr!Row(i).by["person"]
    BY <1>5, <1>7, <2>1, <2>2
  <2>9. QED
    BY <2>6, <2>7, <2>8, CarriedIsThen
<1>11. torn' \in {torn, torn \cup {i}}
  BY <1>8
<1>12. QED
  BY <1>2, <1>3, <1>6, <1>7, <1>8, <1>10, <1>11, CallOnRow

\* A step that no message and no row sees, and no call on one.
LEMMA MessagesStay ==
  ASSUME MessageHolds, NEW t \in ToolCalls, NEW c, OneCalls(t, c),
         calling[t].op \in {"none", "send"}, c.op \in {"none", "send"},
         \A j \in Tr!Ids : Tr!Delivered(j)
             => telegram'[j] = telegram[j] /\ Tr!Row(j)' = Tr!Row(j),
         \A j \in Tr!Ids \ torn' : Tr!Delivered(j)'
             => Tr!Delivered(j) \/ (Tr!Carried(j)' /\ Led(j)'),
         torn \subseteq torn', UNCHANGED <<reactions, handler>>
  PROVE  MessageHolds'
<1>1. SUFFICES ASSUME NEW j \in Tr!Ids \ torn', Tr!Delivered(j)', Tr!Delivered(j)
      PROVE  Tr!Carried(j)' /\ Led(j)'
  BY DEF MessageHolds
<1>2. Tr!Carried(j) /\ Led(j)
  BY <1>1 DEF MessageHolds
<1>3. SameEdits(j) /\ SameDeletions(j) /\ SameReactions(j)
  BY OtherCalls
<1>4. TextCarried(j) /\ DeletionCarried(j) /\ ReactionCarried(j)
  BY <1>2, CarriedIs
<1>5. telegram'[j] = telegram[j] /\ Tr!Row(j)' = Tr!Row(j)
  BY <1>1
<1>6. (TextCarried(j) /\ DeletionCarried(j) /\ ReactionCarried(j))'
  BY <1>3, <1>4, <1>5, TextStays, DeletionStays, ReactionStays
<1>7. Tr!Carried(j)'
  BY <1>6, CarriedIsThen
<1>8. QED
  BY <1>2, <1>5, <1>7, LedStays

LEMMA ChunkFailsStep ==
  ASSUME TranscriptHolds, NEW t \in ToolCalls, Tr!ChunkFails(t)
  PROVE  TranscriptHolds'
<1>1. /\ Tr!TypeOK /\ MessageHolds
      /\ Tr!ChangesAreOfMessages /\ Tr!SendsApart /\ Tr!RowsCome
  BY DEF TranscriptHolds
<1>2. /\ calling[t].op = "send" /\ Tr!Becomes(t, Tr!Free)
      /\ torn' = torn \cup Tr!ToSet(calling[t].ids)
      /\ UNCHANGED <<telegram, table, reactions, handler, sent, changes>>
  BY DEF Tr!ChunkFails
<1>3. calling[t].ids \in Seq(Tr!Ids)
  BY <1>1, <1>2, ToolCallFacts
<1>4. \A j \in DOMAIN calling[t].ids : calling[t].ids[j] \in Tr!Ids
  BY <1>3, ElementOfSeq
<1>5. /\ \A j \in DOMAIN calling[t].ids : calling[t].ids[j] \in torn'
      /\ torn' \subseteq Tr!Ids /\ torn \subseteq torn'
  BY <1>1, <1>2, <1>4 DEF Tr!ToSet, Tr!TypeOK
<1>6. OneCalls(t, Tr!Free) /\ Tr!Free.op = "none"
  BY <1>1, <1>2, CallBecomes DEF Tr!Free
<1>7. /\ telegram' \in [Tr!Ids -> {Tr!NoMessage} \cup Tr!Message]
      /\ table' \in [Tr!Ids -> {Tr!NoMessage} \cup Tr!Message]
      /\ \A j \in Tr!Ids : /\ Tr!Stored(j)' <=> Tr!Stored(j)
                           /\ Tr!Delivered(j)' <=> Tr!Delivered(j)
                           /\ Tr!Row(j)' = Tr!Row(j)
  BY <1>1, <1>2 DEF Tr!TypeOK, Tr!Stored, Tr!Delivered, Tr!Row
<1>8. Tr!TypeOK'
  BY <1>1, <1>2, <1>5, <1>6, <1>7, TypesAfterCall DEF Tr!TypeOK
<1>9. Tr!ChangesAreOfMessages' /\ Tr!SendsApart' /\ Tr!RowsCome'
  BY <1>1, <1>2, <1>5, <1>6, <1>7, CallStep
<1>10. MessageHolds'
  BY <1>1, <1>2, <1>5, <1>6, <1>7, MessagesStay
<1>11. QED
  BY <1>8, <1>9, <1>10 DEF TranscriptHolds

\* What a step of a send does not touch of the order of messages and rows.
LEMMA SendKeeps ==
  ASSUME Tr!TypeOK, Tr!ChangesAreOfMessages, NEW t \in ToolCalls, NEW c, OneCalls(t, c),
         c.op \in {"none", "send"},
         \A j \in Tr!Ids : Tr!Delivered(j) => Tr!Delivered(j)',
         \A j \in Tr!Ids : Tr!Delivered(j)' <=> j <= sent',
         \A j \in Tr!Ids : Tr!Stored(j)' => Tr!Delivered(j)',
         UNCHANGED <<reactions, handler>>
  PROVE  Tr!ChangesAreOfMessages'
<1>1. ASSUME NEW u \in ToolCalls, calling'[u].op \in {"edit", "delete", "react", "store"}
      PROVE  telegram'[calling'[u].id] # Tr!NoMessage
  <2>1. calling'[u] = calling[u]
    BY <1>1 DEF OneCalls
  <2>2. calling[u].id \in Tr!Ids /\ Tr!Delivered(calling[u].id)
    BY <1>1, <2>1, ToolCallFacts DEF Tr!ChangesAreOfMessages
  <2>3. telegram'[calling[u].id] # Tr!NoMessage
    BY <2>2 DEF Tr!Delivered
  <2>4. QED
    BY <2>1, <2>3
<1>2. handler' # Tr!Free => telegram'[handler'.id] # Tr!NoMessage
  <2>1. handler # Tr!Free => handler.id \in Tr!Ids
    BY DEF Tr!TypeOK, Tr!Handling
  <2>2. QED
    BY <2>1 DEF Tr!ChangesAreOfMessages, Tr!Delivered
<1>3. \A k \in DOMAIN reactions' : telegram'[reactions'[k].id] # Tr!NoMessage
  <2>1. \A k \in DOMAIN reactions : reactions[k] \in Tr!Update
    BY ElementOfSeq DEF Tr!TypeOK
  <2>2. \A k \in DOMAIN reactions : reactions[k].id \in Tr!Ids
    BY <2>1 DEF Tr!Update
  <2>3. QED
    BY <2>2 DEF Tr!ChangesAreOfMessages, Tr!Delivered
<1>4. QED
  BY <1>1, <1>2, <1>3 DEF Tr!ChangesAreOfMessages, Tr!Delivered

LEMMA SendStep ==
  ASSUME TranscriptHolds, NEW t \in ToolCalls, NEW n \in 1 .. 2, Tr!Send(t, n)
  PROVE  TranscriptHolds'
<1> DEFINE c == [op |-> "send", left |-> n, ids |-> <<>>, id |-> -1]
<1>1. /\ Tr!TypeOK /\ MessageHolds
      /\ Tr!ChangesAreOfMessages /\ Tr!SendsApart /\ Tr!RowsCome
  BY DEF TranscriptHolds
<1>2. /\ calling[t].op = "none" /\ Tr!Becomes(t, c)
      /\ UNCHANGED <<telegram, table, reactions, handler, torn, sent, changes>>
  BY DEF Tr!Send, Tr!Free
<1>3. /\ c \in Tr!Calling /\ c.op = "send" /\ c.left # 0 /\ c.ids = <<>>
  <2>1. <<>> \in Seq(Tr!Ids) /\ n \in 0 .. 2
    BY EmptySeq
  <2>2. QED
    BY <2>1 DEF Tr!Calling
<1> HIDE DEF c
<1>4. OneCalls(t, c)
  BY <1>1, <1>2, <1>3, CallBecomes
<1>5. /\ telegram' \in [Tr!Ids -> {Tr!NoMessage} \cup Tr!Message]
      /\ table' \in [Tr!Ids -> {Tr!NoMessage} \cup Tr!Message]
      /\ \A j \in Tr!Ids : /\ Tr!Stored(j)' <=> Tr!Stored(j)
                           /\ Tr!Delivered(j)' <=> Tr!Delivered(j)
                           /\ Tr!Row(j)' = Tr!Row(j)
  BY <1>1, <1>2 DEF Tr!TypeOK, Tr!Stored, Tr!Delivered, Tr!Row
<1>6. Tr!TypeOK'
  BY <1>1, <1>2, <1>4, <1>5, TypesAfterCall DEF Tr!TypeOK
<1>7. Tr!ChangesAreOfMessages'
  <2>1. /\ \A j \in Tr!Ids : Tr!Delivered(j)' <=> j <= sent'
        /\ \A j \in Tr!Ids : Tr!Stored(j)' => Tr!Delivered(j)'
    BY <1>1, <1>2, <1>5 DEF Tr!ChangesAreOfMessages
  <2>2. QED
    BY <1>1, <1>2, <1>3, <1>4, <1>5, <2>1, SendKeeps
<1>8. Tr!SendsApart'
  <2>1. /\ calling'[t].left # 0 /\ DOMAIN calling'[t].ids = {}
        /\ \A u \in ToolCalls : u # t => calling'[u] = calling[u]
    BY <1>3, <1>4, EmptySeq DEF OneCalls
  <2>2. SUFFICES ASSUME NEW u \in ToolCalls, Tr!Sending(u)', u # t
        PROVE  /\ calling'[u].left = 0 => calling'[u].ids # <<>>
               /\ \A j \in DOMAIN calling'[u].ids :
                      telegram'[calling'[u].ids[j]] # Tr!NoMessage
                          /\ table'[calling'[u].ids[j]] = Tr!NoMessage
               /\ \A v \in ToolCalls : v # t /\ Tr!Sending(v)' =>
                      \A j \in DOMAIN calling'[u].ids, k \in DOMAIN calling'[v].ids :
                          calling'[u].ids[j] = calling'[v].ids[k] => u = v /\ j = k
    BY <2>1 DEF Tr!SendsApart, Tr!Delivered, Tr!Stored
  <2>3. Tr!Sending(u) /\ calling'[u] = calling[u]
    BY <2>1, <2>2 DEF Tr!Sending
  <2>4. \A j \in DOMAIN calling[u].ids : calling[u].ids[j] \in Tr!Ids
    BY <1>1, <2>3, ToolCallFacts, ElementOfSeq DEF Tr!Sending
  <2>5. QED
    BY <1>1, <1>2, <2>1, <2>3, <2>4 DEF Tr!SendsApart, Tr!Sending, Tr!Delivered, Tr!Stored
<1>9. Tr!RowsCome'
  <2>1. SUFFICES ASSUME NEW i \in Tr!Ids \ torn', Tr!Delivered(i)', ~Tr!Stored(i)'
        PROVE  \E u \in ToolCalls : calling'[u].op = "send" /\ i \in Tr!ToSet(calling'[u].ids)
    BY DEF Tr!RowsCome, Tr!Sending
  <2>2. PICK u \in ToolCalls : Tr!Sending(u) /\ i \in Tr!ToSet(calling[u].ids)
    BY <1>1, <1>2, <1>5, <2>1 DEF Tr!RowsCome
  <2>3. u # t
    BY <1>2, <2>2 DEF Tr!Sending
  <2>4. QED
    BY <1>4, <2>2, <2>3 DEF Tr!Sending, OneCalls
<1>10. MessageHolds'
  BY <1>1, <1>2, <1>3, <1>4, <1>5, MessagesStay
<1>11. QED
  BY <1>6, <1>7, <1>8, <1>9, <1>10 DEF TranscriptHolds

LEMMA DeliverStep ==
  ASSUME TranscriptHolds, NEW t \in ToolCalls, Tr!Deliver(t)
  PROVE  TranscriptHolds'
<1> DEFINE s == calling[t].ids
           n == calling[t].left
<1>0. PICK x \in Tr!Ids : x = sent + 1
  <2>1. sent < MaxSent /\ sent \in 0 .. MaxSent
    BY DEF Tr!Deliver, TranscriptHolds, Tr!TypeOK
  <2>2. QED
    BY <2>1, ServicesAssumption DEF Tr!Ids
<1> DEFINE q == Append(s, x)
           c == [calling[t] EXCEPT !.left = n - 1, !.ids = q]
<1>1. /\ Tr!TypeOK /\ MessageHolds
      /\ Tr!ChangesAreOfMessages /\ Tr!SendsApart /\ Tr!RowsCome
  BY DEF TranscriptHolds
<1>2. /\ calling[t].op = "send" /\ n > 0 /\ sent < MaxSent /\ sent' = x /\ Tr!Becomes(t, c)
      /\ telegram' = [telegram EXCEPT ![x] = Tr!Plain]
      /\ UNCHANGED <<table, reactions, handler, torn, changes>>
  BY <1>0 DEF Tr!Deliver
<1>3. /\ calling[t] \in [op : {"send"}, left : 0 .. 2, ids : Seq(Tr!Ids), id : {-1}]
      /\ s \in Seq(Tr!Ids) /\ n \in 0 .. 2
  BY <1>1, <1>2, ToolCallFacts
<1>4. x \in Tr!Ids /\ x \in 0 .. MaxSent /\ sent \in Nat /\ x \in Nat
  BY <1>0, <1>1, <1>2, ServicesAssumption DEF Tr!TypeOK, Tr!Ids
<1>5. /\ q \in Seq(Tr!Ids) /\ q # <<>> /\ Len(s) \in Nat
      /\ DOMAIN s = 1 .. Len(s) /\ DOMAIN q = 1 .. (Len(s) + 1) /\ q[Len(s) + 1] = x
      /\ \A j \in 1 .. Len(s) : q[j] = s[j]
  BY <1>3, <1>4, AppendProperties, LenProperties, EmptySeq
<1>6. n - 1 \in 0 .. 2
  BY <1>2, <1>3
<1> DEFINE m == n - 1
<1> HIDE DEF q, m
<1>7. c \in Tr!Calling /\ c.op = "send" /\ c.ids = q
  <2>1. c = [calling[t] EXCEPT !.left = m, !.ids = q]
    BY DEF m
  <2>2. m \in 0 .. 2
    BY <1>6 DEF m
  <2>3. QED
    BY <1>3, <1>5, <2>1, <2>2 DEF Tr!Calling
<1> HIDE DEF c, n
<1>8. OneCalls(t, c)
  BY <1>1, <1>2, <1>7, CallBecomes
<1>9. ~Tr!Delivered(x) /\ ~Tr!Stored(x) /\ \A j \in Tr!Ids : Tr!Delivered(j) <=> j <= sent
  <2>1. ~(x <= sent)
    BY <1>0, <1>4
  <2>2. QED
    BY <1>1, <1>4, <2>1 DEF Tr!ChangesAreOfMessages
<1>10. /\ telegram' \in [Tr!Ids -> {Tr!NoMessage} \cup Tr!Message]
       /\ telegram'[x] = Tr!Plain /\ \A j \in Tr!Ids : j # x => telegram'[j] = telegram[j]
       /\ Tr!Plain # Tr!NoMessage
  BY <1>1, <1>2, <1>4, PlainIsMessage DEF Tr!TypeOK, Tr!NoMessage, Tr!Message
<1>11. /\ table' \in [Tr!Ids -> {Tr!NoMessage} \cup Tr!Message]
       /\ \A j \in Tr!Ids : (Tr!Stored(j)' <=> Tr!Stored(j)) /\ Tr!Row(j)' = Tr!Row(j)
  BY <1>1, <1>2 DEF Tr!TypeOK, Tr!Stored, Tr!Row
<1>12. \A j \in Tr!Ids : Tr!Delivered(j)' <=> Tr!Delivered(j) \/ j = x
  BY <1>10 DEF Tr!Delivered
<1>13. Tr!TypeOK'
  BY <1>1, <1>2, <1>4, <1>8, <1>10, <1>11 DEF Tr!TypeOK, OneCalls
<1>14. Tr!ChangesAreOfMessages'
  <2>1. \A j \in Tr!Ids : Tr!Delivered(j)' <=> j <= sent'
    <3>1. \A j \in Tr!Ids : j <= sent' <=> j <= sent \/ j = x
      BY <1>0, <1>2, <1>4 DEF Tr!Ids
    <3>2. QED
      BY <1>9, <1>12, <3>1
  <2>2. \A j \in Tr!Ids : Tr!Stored(j)' => Tr!Delivered(j)'
    BY <1>1, <1>11, <1>12 DEF Tr!ChangesAreOfMessages
  <2>3. QED
    BY <1>1, <1>2, <1>7, <1>8, <1>12, <2>1, <2>2, SendKeeps
<1>15. ASSUME NEW u \in ToolCalls, Tr!Sending(u)'
       PROVE  /\ Tr!Sending(u)
              /\ calling'[u].left = 0 => calling'[u].ids # <<>>
              /\ \A j \in DOMAIN calling'[u].ids :
                     \/ /\ j \in DOMAIN calling[u].ids /\ calling'[u].ids[j] = calling[u].ids[j]
                        /\ calling[u].ids[j] \in Tr!Ids
                        /\ Tr!Delivered(calling[u].ids[j]) /\ ~Tr!Stored(calling[u].ids[j])
                     \/ u = t /\ j = Len(s) + 1 /\ calling'[u].ids[j] = x
  <2>1. CASE u = t
    <3>1. Tr!Sending(t) /\ calling'[t].ids = q
      BY <1>2, <1>7, <1>8 DEF Tr!Sending, OneCalls
    <3>2. \A j \in 1 .. Len(s) : s[j] \in Tr!Ids /\ Tr!Delivered(s[j]) /\ ~Tr!Stored(s[j])
      BY <1>1, <1>3, <1>5, <3>1, ElementOfSeq DEF Tr!SendsApart
    <3>3. \A j \in DOMAIN q : j \in 1 .. Len(s) \/ j = Len(s) + 1
      BY <1>5
    <3>4. QED
      BY <1>5, <2>1, <3>1, <3>2, <3>3
  <2>2. CASE u # t
    <3>1. calling'[u] = calling[u] /\ Tr!Sending(u)
      BY <1>8, <1>15, <2>2 DEF Tr!Sending, OneCalls
    <3>2. \A j \in DOMAIN calling[u].ids : calling[u].ids[j] \in Tr!Ids
      BY <1>1, <3>1, ToolCallFacts, ElementOfSeq DEF Tr!Sending
    <3>3. QED
      BY <1>1, <3>1, <3>2 DEF Tr!SendsApart
  <2>3. QED
    BY <2>1, <2>2
<1>16. Tr!SendsApart'
  <2>1. SUFFICES ASSUME NEW u \in ToolCalls, Tr!Sending(u)'
        PROVE  /\ calling'[u].left = 0 => calling'[u].ids # <<>>
               /\ \A j \in DOMAIN calling'[u].ids :
                      telegram'[calling'[u].ids[j]] # Tr!NoMessage
                          /\ table'[calling'[u].ids[j]] = Tr!NoMessage
               /\ \A v \in ToolCalls : Tr!Sending(v)' =>
                      \A j \in DOMAIN calling'[u].ids, k \in DOMAIN calling'[v].ids :
                          calling'[u].ids[j] = calling'[v].ids[k] => u = v /\ j = k
    BY DEF Tr!SendsApart, Tr!Delivered, Tr!Stored
  <2>2. \A j \in DOMAIN calling'[u].ids :
            telegram'[calling'[u].ids[j]] # Tr!NoMessage
                /\ table'[calling'[u].ids[j]] = Tr!NoMessage
    <3>1. telegram'[x] # Tr!NoMessage /\ table'[x] = Tr!NoMessage
      BY <1>2, <1>9, <1>10 DEF Tr!Stored
    <3>2. \A i \in Tr!Ids : Tr!Delivered(i) /\ ~Tr!Stored(i) =>
              telegram'[i] # Tr!NoMessage /\ table'[i] = Tr!NoMessage
      BY <1>2, <1>10 DEF Tr!Delivered, Tr!Stored
    <3>3. QED
      BY <1>15, <2>1, <3>1, <3>2
  <2>3. ASSUME NEW v \in ToolCalls, Tr!Sending(v)', NEW j \in DOMAIN calling'[u].ids,
               NEW k \in DOMAIN calling'[v].ids, calling'[u].ids[j] = calling'[v].ids[k]
        PROVE  u = v /\ j = k
    <3>1. \A w \in ToolCalls : Tr!Sending(w)' => Tr!Sending(w) /\
              \A l \in DOMAIN calling'[w].ids :
                  \/ l \in DOMAIN calling[w].ids /\ calling'[w].ids[l] = calling[w].ids[l]
                         /\ calling'[w].ids[l] # x
                  \/ w = t /\ l = Len(s) + 1 /\ calling'[w].ids[l] = x
      BY <1>9, <1>15
    <3>2. QED
      BY <1>1, <2>1, <2>3, <3>1 DEF Tr!SendsApart
  <2>4. QED
    BY <1>15, <2>1, <2>2, <2>3
<1>17. Tr!RowsCome'
  <2>1. SUFFICES ASSUME NEW i \in Tr!Ids \ torn', Tr!Delivered(i)', ~Tr!Stored(i)'
        PROVE  \E u \in ToolCalls : calling'[u].op = "send" /\ i \in Tr!ToSet(calling'[u].ids)
    BY DEF Tr!RowsCome, Tr!Sending
  <2>2. calling'[t].op = "send" /\ calling'[t].ids = q
    BY <1>7, <1>8 DEF OneCalls
  <2>3. CASE i = x
    <3>1. i \in Tr!ToSet(q)
      BY <1>5, <2>3 DEF Tr!ToSet
    <3>2. QED
      BY <2>2, <3>1
  <2>4. CASE i # x
    <3>1. PICK u \in ToolCalls : Tr!Sending(u) /\ i \in Tr!ToSet(calling[u].ids)
      BY <1>1, <1>2, <1>11, <1>12, <2>1, <2>4 DEF Tr!RowsCome
    <3>2. CASE u = t
      <4>1. PICK j \in DOMAIN s : s[j] = i
        BY <3>1, <3>2 DEF Tr!ToSet
      <4>2. j \in DOMAIN q /\ q[j] = i
        BY <1>5, <4>1
      <4>3. i \in Tr!ToSet(q)
        BY <4>2 DEF Tr!ToSet
      <4>4. QED
        BY <2>2, <4>3
    <3>3. CASE u # t
      BY <1>8, <3>1, <3>3 DEF Tr!Sending, OneCalls
    <3>4. QED
      BY <3>2, <3>3
  <2>5. QED
    BY <2>3, <2>4
<1>18. MessageHolds'
  <2>1. Tr!Row(x)' = Tr!Plain /\ telegram'[x] = Tr!Plain
    BY <1>1, <1>4, <1>9, <1>10, <1>11, MessageFacts
  <2>2. \A u \in ToolCalls : calling'[u].op \in {"edit", "delete", "react", "store"}
            => calling'[u].id # x
    BY <1>1, <1>7, <1>8, <1>9, ToolCallFacts DEF OneCalls, Tr!ChangesAreOfMessages
  <2>3. TextCarried(x)' /\ DeletionCarried(x)' /\ ReactionCarried(x)'
    BY <2>1, <2>2 DEF TextCarried, DeletionCarried, ReactionCarried, Tr!Doing, Reacts
  <2>4. Led(x)'
    <3>1. reactions \in Seq(Tr!Update)
      BY <1>1 DEF Tr!TypeOK
    <3>2. \A k \in DOMAIN reactions : reactions[k].id # x
      BY <1>1, <1>9 DEF Tr!ChangesAreOfMessages
    <3>3. ~Tr!Handled(x)
      BY <1>1, <1>9 DEF Tr!ChangesAreOfMessages, Tr!Handled
    <3>4. Tr!Lead(reactions, x, Tr!Plain.by["person"], Tr!Plain.by["person"])
      BY <3>1, <3>2, LeadsNowhere
    <3>5. ~Tr!Handled(x)' /\ Tr!Reached(x)' = Tr!Plain.by["person"]
      BY <1>2, <2>1, <3>3 DEF Tr!Handled, Tr!Reached
    <3>6. Tr!Lead(reactions, x, Tr!Plain.by["person"], Tr!Plain.by["person"])'
      BY <1>2, <3>4 DEF Tr!Lead, Tr!Leaves, Tr!Plain
    <3>7. QED
      BY <2>1, <3>5, <3>6 DEF Led
  <2>5. \A j \in Tr!Ids : Tr!Delivered(j)
            => telegram'[j] = telegram[j] /\ Tr!Row(j)' = Tr!Row(j)
    BY <1>9, <1>10, <1>11
  <2>6. Tr!Carried(x)'
    BY <2>3, CarriedIsThen
  <2>7. QED
    BY <1>1, <1>2, <1>7, <1>8, <1>12, <2>4, <2>5, <2>6, MessagesStay
<1>19. QED
  BY <1>13, <1>14, <1>16, <1>17, <1>18 DEF TranscriptHolds

LEMMA RecordStep ==
  ASSUME TranscriptHolds, NEW t \in ToolCalls, Tr!Record(t)
  PROVE  TranscriptHolds'
<1> DEFINE s == calling[t].ids
           c == IF Len(s) = 1 THEN Tr!Free ELSE [calling[t] EXCEPT !.ids = Tail(s)]
<1>1. /\ Tr!TypeOK /\ MessageHolds
      /\ Tr!ChangesAreOfMessages /\ Tr!SendsApart /\ Tr!RowsCome
  BY DEF TranscriptHolds
<1>2. /\ calling[t].op = "send" /\ calling[t].left = 0 /\ Tr!Becomes(t, c)
      /\ table' = [table EXCEPT ![Head(s)] = Tr!Plain]
      /\ UNCHANGED <<telegram, reactions, handler, torn, sent, changes>>
  BY DEF Tr!Record
<1>3. /\ calling[t] \in [op : {"send"}, left : 0 .. 2, ids : Seq(Tr!Ids), id : {-1}]
      /\ s \in Seq(Tr!Ids) /\ s # <<>> /\ Tr!Sending(t)
  BY <1>1, <1>2, ToolCallFacts DEF Tr!SendsApart, Tr!Sending
<1>4. /\ Len(s) \in Nat /\ DOMAIN s = 1 .. Len(s) /\ 1 \in DOMAIN s /\ Head(s) = s[1]
      /\ Tail(s) \in Seq(Tr!Ids) /\ Len(Tail(s)) = Len(s) - 1
      /\ DOMAIN Tail(s) = 1 .. (Len(s) - 1)
      /\ \A j \in 1 .. (Len(s) - 1) : Tail(s)[j] = s[j + 1]
  BY <1>3, HeadTailProperties, LenProperties, EmptySeq
<1>5. PICK h \in Tr!Ids : h = s[1]
  BY <1>3, <1>4, ElementOfSeq
<1>6. Tr!Delivered(h) /\ ~Tr!Stored(h)
  BY <1>1, <1>3, <1>4, <1>5 DEF Tr!SendsApart
<1>7. /\ c \in {Tr!Free} \cup Tr!Calling
      /\ c.op = "send" => Len(s) # 1 /\ c.ids = Tail(s) /\ c.left = 0
      /\ Len(s) # 1 => c.op = "send" /\ c.ids = Tail(s)
      /\ c.op \in {"none", "send"}
  <2>1. CASE Len(s) = 1
    BY <2>1 DEF Tr!Free
  <2>2. CASE Len(s) # 1
    BY <1>2, <1>3, <1>4, <2>2 DEF Tr!Calling
  <2>3. QED
    BY <2>1, <2>2
<1> HIDE DEF c
<1>8. OneCalls(t, c)
  BY <1>1, <1>2, <1>7, CallBecomes
<1>9. /\ table' \in [Tr!Ids -> {Tr!NoMessage} \cup Tr!Message]
      /\ table'[h] = Tr!Plain /\ \A j \in Tr!Ids : j # h => table'[j] = table[j]
      /\ Tr!Stored(h)' /\ Tr!Row(h)' = Tr!Plain
      /\ \A j \in Tr!Ids : j # h => (Tr!Stored(j)' <=> Tr!Stored(j)) /\ Tr!Row(j)' = Tr!Row(j)
  BY <1>1, <1>2, <1>4, <1>5, PlainIsMessage, TableChanges
<1>10. \A j \in Tr!Ids : Tr!Row(j)' = Tr!Row(j)
  <2>1. Tr!Row(h) = Tr!Plain
    BY <1>6 DEF Tr!Row
  <2>2. QED
    BY <1>9, <2>1
<1>11. \A j \in Tr!Ids : Tr!Delivered(j)' <=> Tr!Delivered(j)
  BY <1>2 DEF Tr!Delivered
<1>12. Tr!TypeOK'
  BY <1>1, <1>2, <1>8, <1>9, TypesAfterCall DEF Tr!TypeOK
<1>13. Tr!ChangesAreOfMessages'
  <2>1. \A j \in Tr!Ids : Tr!Delivered(j)' <=> j <= sent'
    BY <1>1, <1>2, <1>11 DEF Tr!ChangesAreOfMessages
  <2>2. \A j \in Tr!Ids : Tr!Stored(j)' => Tr!Delivered(j)'
    BY <1>1, <1>6, <1>9, <1>11 DEF Tr!ChangesAreOfMessages
  <2>3. QED
    BY <1>1, <1>2, <1>7, <1>8, <1>11, <2>1, <2>2, SendKeeps
\* Where the ids of a send were before the step.
<1> DEFINE Was(u, j) == IF u = t THEN j + 1 ELSE j
<1>14. ASSUME NEW u \in ToolCalls, Tr!Sending(u)'
       PROVE  /\ Tr!Sending(u)
              /\ calling'[u].left = 0 => calling'[u].ids # <<>>
              /\ \A j \in DOMAIN calling'[u].ids :
                     /\ Was(u, j) \in DOMAIN calling[u].ids
                     /\ calling'[u].ids[j] = calling[u].ids[Was(u, j)]
                     /\ calling[u].ids[Was(u, j)] \in Tr!Ids
                     /\ calling[u].ids[Was(u, j)] # h
  <2>1. CASE u = t
    <3>1. Tr!Sending(t) /\ calling'[t].ids = Tail(s) /\ Len(s) # 1
      BY <1>3, <1>7, <1>8, <1>14, <2>1 DEF Tr!Sending, OneCalls
    <3>2. Tail(s) # <<>>
      <4>1. Len(Tail(s)) # 0
        BY <1>4, <3>1
      <4>2. QED
        BY <4>1, EmptySeq
    <3>3. ASSUME NEW j \in 1 .. (Len(s) - 1)
          PROVE  j + 1 \in DOMAIN s /\ Tail(s)[j] = s[j + 1] /\ s[j + 1] \in Tr!Ids
                     /\ s[j + 1] # h
      <4>1. j + 1 \in DOMAIN s /\ Tail(s)[j] = s[j + 1] /\ j + 1 # 1
        BY <1>4
      <4>2. s[j + 1] \in Tr!Ids
        BY <1>3, <4>1, ElementOfSeq
      <4>3. s[j + 1] # s[1]
        BY <1>1, <1>3, <1>4, <4>1 DEF Tr!SendsApart
      <4>4. QED
        BY <1>5, <4>1, <4>2, <4>3
    <3>4. QED
      BY <1>4, <2>1, <3>1, <3>2, <3>3
  <2>2. CASE u # t
    <3>1. calling'[u] = calling[u] /\ Tr!Sending(u)
      BY <1>8, <1>14, <2>2 DEF Tr!Sending, OneCalls
    <3>2. \A j \in DOMAIN calling[u].ids : calling[u].ids[j] \in Tr!Ids
      BY <1>1, <3>1, ToolCallFacts, ElementOfSeq DEF Tr!Sending
    <3>3. \A j \in DOMAIN calling[u].ids : calling[u].ids[j] # h
      BY <1>1, <1>3, <1>4, <1>5, <2>2, <3>1 DEF Tr!SendsApart
    <3>4. calling[u].left = 0 => calling[u].ids # <<>>
      BY <1>1, <3>1 DEF Tr!SendsApart
    <3>5. QED
      BY <2>2, <3>1, <3>2, <3>3, <3>4
  <2>3. QED
    BY <2>1, <2>2
<1>15. Tr!SendsApart'
  <2>1. SUFFICES ASSUME NEW u \in ToolCalls, Tr!Sending(u)'
        PROVE  /\ calling'[u].left = 0 => calling'[u].ids # <<>>
               /\ \A j \in DOMAIN calling'[u].ids :
                      telegram'[calling'[u].ids[j]] # Tr!NoMessage
                          /\ table'[calling'[u].ids[j]] = Tr!NoMessage
               /\ \A v \in ToolCalls : Tr!Sending(v)' =>
                      \A j \in DOMAIN calling'[u].ids, k \in DOMAIN calling'[v].ids :
                          calling'[u].ids[j] = calling'[v].ids[k] => u = v /\ j = k
    BY DEF Tr!SendsApart, Tr!Delivered, Tr!Stored
  <2>2. ASSUME NEW j \in DOMAIN calling'[u].ids
        PROVE  telegram'[calling'[u].ids[j]] # Tr!NoMessage
                   /\ table'[calling'[u].ids[j]] = Tr!NoMessage
    <3>1. /\ Tr!Sending(u) /\ Was(u, j) \in DOMAIN calling[u].ids
          /\ calling'[u].ids[j] = calling[u].ids[Was(u, j)]
          /\ calling[u].ids[Was(u, j)] \in Tr!Ids /\ calling[u].ids[Was(u, j)] # h
      BY <1>14, <2>1
    <3> HIDE DEF Was
    <3>2. Tr!Delivered(calling[u].ids[Was(u, j)]) /\ ~Tr!Stored(calling[u].ids[Was(u, j)])
      BY <1>1, <3>1 DEF Tr!SendsApart
    <3>3. QED
      BY <1>2, <1>9, <3>1, <3>2 DEF Tr!Delivered, Tr!Stored
  <2>3. ASSUME NEW v \in ToolCalls, Tr!Sending(v)', NEW j \in DOMAIN calling'[u].ids,
               NEW k \in DOMAIN calling'[v].ids, calling'[u].ids[j] = calling'[v].ids[k]
        PROVE  u = v /\ j = k
    <3>1. /\ Tr!Sending(u) /\ Was(u, j) \in DOMAIN calling[u].ids
          /\ Tr!Sending(v) /\ Was(v, k) \in DOMAIN calling[v].ids
          /\ calling[u].ids[Was(u, j)] = calling[v].ids[Was(v, k)]
      BY <1>14, <2>1, <2>3
    <3>2. u = v /\ Was(u, j) = Was(v, k)
      <4> HIDE DEF Was
      <4>1. QED
        BY <1>1, <3>1 DEF Tr!SendsApart
    <3>3. CASE u # t
      BY <3>2, <3>3
    <3>4. CASE u = t
      <4>1. DOMAIN calling'[t].ids = 1 .. (Len(s) - 1)
        BY <1>4, <1>7, <1>8, <2>1, <3>4 DEF Tr!Sending, OneCalls
      <4>2. j \in Int /\ k \in Int /\ j + 1 = k + 1
        BY <1>4, <3>2, <3>4, <4>1
      <4>3. QED
        BY <3>2, <4>2
    <3>5. QED
      BY <3>3, <3>4
  <2>4. QED
    BY <1>14, <2>1, <2>2, <2>3
<1>16. Tr!RowsCome'
  <2>1. SUFFICES ASSUME NEW i \in Tr!Ids \ torn', Tr!Delivered(i)', ~Tr!Stored(i)'
        PROVE  \E u \in ToolCalls : calling'[u].op = "send" /\ i \in Tr!ToSet(calling'[u].ids)
    BY DEF Tr!RowsCome, Tr!Sending
  <2>2. i # h /\ i \in Tr!Ids \ torn /\ Tr!Delivered(i) /\ ~Tr!Stored(i)
    BY <1>2, <1>9, <1>11, <2>1
  <2>3. PICK u \in ToolCalls : Tr!Sending(u) /\ i \in Tr!ToSet(calling[u].ids)
    BY <1>1, <2>2 DEF Tr!RowsCome
  <2>4. CASE u = t
    <3>1. PICK j \in DOMAIN s : s[j] = i
      BY <2>3, <2>4 DEF Tr!ToSet
    <3>2. PICK k \in 1 .. (Len(s) - 1) : j = k + 1
      <4>1. j # 1 /\ j \in 1 .. Len(s)
        BY <1>4, <1>5, <2>2, <3>1
      <4>2. j - 1 \in 1 .. (Len(s) - 1) /\ j = (j - 1) + 1
        BY <1>4, <4>1
      <4>3. QED
        BY <4>2
    <3>3. Len(s) # 1 /\ k \in DOMAIN Tail(s) /\ Tail(s)[k] = i
      BY <1>4, <3>1, <3>2
    <3>4. calling'[t].op = "send" /\ calling'[t].ids = Tail(s)
      BY <1>7, <1>8, <3>3 DEF OneCalls
    <3>5. i \in Tr!ToSet(Tail(s))
      BY <3>3 DEF Tr!ToSet
    <3>6. QED
      BY <3>4, <3>5
  <2>5. CASE u # t
    BY <1>8, <2>3, <2>5 DEF Tr!Sending, OneCalls
  <2>6. QED
    BY <2>4, <2>5
<1>17. MessageHolds'
  BY <1>1, <1>2, <1>7, <1>8, <1>10, <1>11, MessagesStay
<1>18. QED
  BY <1>12, <1>13, <1>15, <1>16, <1>17 DEF TranscriptHolds

\* A step that no call takes.
LEMMA CallsStay ==
  ASSUME Tr!TypeOK, Tr!ChangesAreOfMessages, Tr!SendsApart, Tr!RowsCome,
         UNCHANGED <<calling, sent>>, torn \subseteq torn',
         \A j \in Tr!Ids : Tr!Delivered(j)' <=> Tr!Delivered(j),
         \A j \in Tr!Ids : Tr!Stored(j)' <=> Tr!Stored(j),
         handler' # Tr!Free => handler'.id \in Tr!Ids /\ Tr!Delivered(handler'.id),
         \A k \in DOMAIN reactions' :
             reactions'[k].id \in Tr!Ids /\ Tr!Delivered(reactions'[k].id)
  PROVE  Tr!ChangesAreOfMessages' /\ Tr!SendsApart' /\ Tr!RowsCome'
<1>1. \A j \in Tr!Ids : telegram'[j] # Tr!NoMessage <=> Tr!Delivered(j)
  BY DEF Tr!Delivered
<1>2. \A j \in Tr!Ids : table'[j] # Tr!NoMessage <=> Tr!Stored(j)
  BY DEF Tr!Stored
<1>3. Tr!ChangesAreOfMessages'
  <2>1. \A j \in Tr!Ids : telegram'[j] # Tr!NoMessage <=> j <= sent'
    BY <1>1 DEF Tr!ChangesAreOfMessages
  <2>2. \A j \in Tr!Ids : table'[j] # Tr!NoMessage => telegram'[j] # Tr!NoMessage
    BY <1>1, <1>2 DEF Tr!ChangesAreOfMessages
  <2>3. \A t \in ToolCalls : calling'[t].op \in {"edit", "delete", "react", "store"} =>
            telegram'[calling'[t].id] # Tr!NoMessage
    BY <1>1, ToolCallFacts DEF Tr!ChangesAreOfMessages
  <2>4. handler' # Tr!Free => telegram'[handler'.id] # Tr!NoMessage
    BY <1>1
  <2>5. \A k \in DOMAIN reactions' : telegram'[reactions'[k].id] # Tr!NoMessage
    BY <1>1
  <2>6. QED
    BY <2>1, <2>2, <2>3, <2>4, <2>5 DEF Tr!ChangesAreOfMessages, Tr!Delivered, Tr!Stored
<1>4. Tr!SendsApart'
  <2>1. \A t \in ToolCalls : Tr!Sending(t)
            => \A j \in DOMAIN calling[t].ids : calling[t].ids[j] \in Tr!Ids
    BY ToolCallFacts, ElementOfSeq DEF Tr!Sending
  <2>2. \A t \in ToolCalls : Tr!Sending(t)' <=> Tr!Sending(t)
    BY DEF Tr!Sending
  <2>3. ASSUME NEW t \in ToolCalls, Tr!Sending(t)
        PROVE  /\ calling'[t].left = 0 => calling'[t].ids # <<>>
               /\ \A j \in DOMAIN calling'[t].ids :
                      telegram'[calling'[t].ids[j]] # Tr!NoMessage
                          /\ table'[calling'[t].ids[j]] = Tr!NoMessage
               /\ \A u \in ToolCalls : Tr!Sending(u) =>
                      \A j \in DOMAIN calling'[t].ids, k \in DOMAIN calling'[u].ids :
                          calling'[t].ids[j] = calling'[u].ids[k] => t = u /\ j = k
    BY <1>1, <1>2, <2>1, <2>3 DEF Tr!SendsApart
  <2>4. QED
    BY <2>2, <2>3 DEF Tr!SendsApart, Tr!Delivered, Tr!Stored
<1>5. Tr!RowsCome'
  BY DEF Tr!RowsCome, Tr!Sending
<1>6. QED
  BY <1>3, <1>4, <1>5

\* The columns calls are about, when no call moves.
LEMMA CarriedRests ==
  ASSUME NEW i, Tr!Carried(i), calling' = calling,
         Tr!Row(i)'.text = Tr!Row(i).text, Tr!Row(i)'.deleted = Tr!Row(i).deleted,
         Tr!Row(i)'.by["bot"] = Tr!Row(i).by["bot"],
         telegram'[i].text = telegram[i].text, telegram'[i].deleted = telegram[i].deleted,
         telegram'[i].by["bot"] = telegram[i].by["bot"]
  PROVE  Tr!Carried(i)'
<1>1. SameEdits(i) /\ SameDeletions(i) /\ SameReactions(i)
  BY DEF SameEdits, SameDeletions, SameReactions, Reacts
<1>2. TextCarried(i) /\ DeletionCarried(i) /\ ReactionCarried(i)
  BY CarriedIs
<1>3. TextCarried(i)' /\ DeletionCarried(i)' /\ ReactionCarried(i)'
  BY <1>1, <1>2, TextStays, DeletionStays, ReactionStays
<1>4. QED
  BY <1>3, CarriedIsThen

\* What the types say of the updates.
LEMMA UpdateFacts ==
  ASSUME Tr!TypeOK
  PROVE  /\ reactions \in Seq(Tr!Update)
         /\ \A k \in DOMAIN reactions : reactions[k] \in Tr!Update /\ reactions[k].id \in Tr!Ids
         /\ handler # Tr!Free =>
                /\ handler.id \in Tr!Ids /\ handler.id = handler.update.id
                /\ handler.read \in Tr!By /\ handler.update \in Tr!Update
                /\ handler.update.old \in SUBSET Emojis /\ handler.update.new \in SUBSET Emojis
<1>1. \A k \in DOMAIN reactions : reactions[k] \in Tr!Update
  BY ElementOfSeq DEF Tr!TypeOK
<1>2. QED
  BY <1>1 DEF Tr!TypeOK, Tr!Handling, Tr!Update


LEMMA PersonReactsStep ==
  ASSUME TranscriptHolds, NEW i \in Tr!Ids, NEW new \in SUBSET Emojis, Tr!PersonReacts(i, new)
  PROVE  TranscriptHolds'
<1> DEFINE b == [telegram[i].by EXCEPT !["person"] = new]
           m == [telegram[i] EXCEPT !.by = b]
           r == [id |-> i, old |-> telegram[i].by["person"], new |-> new]
<1>1. /\ Tr!TypeOK /\ MessageHolds
      /\ Tr!ChangesAreOfMessages /\ Tr!SendsApart /\ Tr!RowsCome
  BY DEF TranscriptHolds
<1>2. /\ Tr!Known(i) /\ Tr!Change /\ telegram' = [telegram EXCEPT ![i] = m]
      /\ reactions' = Append(reactions, r)
      /\ UNCHANGED <<table, calling, handler, torn, sent>>
  BY DEF Tr!PersonReacts
<1>3. Tr!Delivered(i) /\ telegram[i] \in Tr!Message /\ telegram[i].by \in Tr!By
  BY <1>1, <1>2, MessageFacts DEF Tr!Message
<1>4. /\ b \in Tr!By /\ b["person"] = new /\ b["bot"] = telegram[i].by["bot"]
      /\ telegram[i].by["person"] \in SUBSET Emojis
  <2>1. "bot" \in Tr!Who /\ "person" \in Tr!Who
    BY DEF Tr!Who
  <2>2. QED
    BY <1>3, <2>1 DEF Tr!By
<1> HIDE DEF b
<1>5. /\ m \in Tr!Message /\ m.by = b
      /\ m.text = telegram[i].text /\ m.deleted = telegram[i].deleted
  BY <1>3, <1>4, WithBy
<1>6. r \in Tr!Update /\ r.id = i /\ r.old = telegram[i].by["person"] /\ r.new = new
  BY <1>4 DEF Tr!Update
<1> HIDE DEF m, r
<1>7. /\ telegram' \in [Tr!Ids -> {Tr!NoMessage} \cup Tr!Message]
      /\ telegram'[i] = m /\ \A j \in Tr!Ids : j # i => telegram'[j] = telegram[j]
      /\ \A j \in Tr!Ids : Tr!Delivered(j)' <=> Tr!Delivered(j)
  BY <1>1, <1>2, <1>3, <1>5, TelegramChanges
<1>8. \A j \in Tr!Ids : (Tr!Stored(j)' <=> Tr!Stored(j)) /\ Tr!Row(j)' = Tr!Row(j)
  BY <1>2 DEF Tr!Stored, Tr!Row
<1>9. /\ reactions \in Seq(Tr!Update) /\ reactions' \in Seq(Tr!Update)
      /\ \A k \in DOMAIN reactions' :
             \/ k \in DOMAIN reactions /\ reactions'[k] = reactions[k]
             \/ reactions'[k] = r
  <2>1. reactions \in Seq(Tr!Update)
    BY <1>1, UpdateFacts
  <2>2. QED
    BY <1>2, <1>6, <2>1, AppendProperties, LenProperties
<1>10. Tr!TypeOK'
  <2>1. changes' \in 0 .. MaxChanges
    BY <1>1, <1>2, ServicesAssumption, SMTT(30) DEF Tr!Change, Tr!TypeOK
  <2>2. QED
    BY <1>1, <1>2, <1>7, <1>9, <2>1 DEF Tr!TypeOK
<1>11. Tr!ChangesAreOfMessages' /\ Tr!SendsApart' /\ Tr!RowsCome'
  <2>1. handler' # Tr!Free => handler'.id \in Tr!Ids /\ Tr!Delivered(handler'.id)
    BY <1>1, <1>2, UpdateFacts DEF Tr!ChangesAreOfMessages
  <2>2. \A k \in DOMAIN reactions :
            reactions[k].id \in Tr!Ids /\ Tr!Delivered(reactions[k].id)
    BY <1>1, UpdateFacts DEF Tr!ChangesAreOfMessages
  <2>3. \A k \in DOMAIN reactions' :
            reactions'[k].id \in Tr!Ids /\ Tr!Delivered(reactions'[k].id)
    BY <1>3, <1>6, <1>9, <2>2
  <2>4. QED
    BY <1>1, <1>2, <1>7, <1>8, <2>1, <2>3, CallsStay
<1>12. MessageHolds'
  <2>1. SUFFICES ASSUME NEW j \in Tr!Ids \ torn, Tr!Delivered(j)
                 PROVE  Tr!Carried(j)' /\ Led(j)'
    BY <1>2, <1>7 DEF MessageHolds
  <2>2. Tr!Carried(j) /\ Led(j)
    BY <1>1, <2>1 DEF MessageHolds
  <2>3. /\ telegram'[j].text = telegram[j].text /\ telegram'[j].deleted = telegram[j].deleted
        /\ telegram'[j].by["bot"] = telegram[j].by["bot"]
    BY <1>4, <1>5, <1>7
  <2>4. Tr!Carried(j)'
    BY <1>2, <1>8, <2>2, <2>3, CarriedRests
  <2>5. Led(j)'
    <3> DEFINE v == telegram[j].by["person"]
               w == telegram'[j].by["person"]
               a == Tr!Reached(j)
    <3>1. (Tr!Handled(j)' <=> Tr!Handled(j)) /\ Tr!Reached(j)' = a
      BY <1>2, <1>8 DEF Tr!Handled, Tr!Reached
    <3>2. w = IF r.id = j THEN r.new ELSE v
      BY <1>4, <1>5, <1>6, <1>7
    <3>3. Tr!Lead(Append(reactions, r), j, a, IF r.id = j THEN r.new ELSE v)
      <4>1. Tr!Lead(reactions, j, a, v)
        BY <2>2 DEF Led
      <4>2. r.id = j => r.old = v
        BY <1>6
      <4> HIDE DEF a, v
      <4>3. QED
        BY <1>6, <1>9, <4>1, <4>2, LeadAppend
    <3>4. Tr!Lead(reactions', j, a, w)
      BY <1>2, <3>2, <3>3
    <3>5. Tr!Lead(reactions, j, Tr!Reached(j), telegram[j].by["person"])'
      BY <3>1, <3>4 DEF Tr!Lead, Tr!Leaves
    <3>6. Tr!Handled(j)' => handler'.update.old = Tr!Row(j)'.by["person"]
      BY <1>2, <1>8, <2>2, <3>1 DEF Led
    <3>7. QED
      BY <3>5, <3>6 DEF Led
  <2>6. QED
    BY <2>4, <2>5
<1>13. QED
  BY <1>10, <1>11, <1>12 DEF TranscriptHolds

LEMMA OnReactionStep ==
  ASSUME TranscriptHolds, Tr!OnReaction
  PROVE  TranscriptHolds'
<1> DEFINE r == reactions[1]
           h == [op |-> "handle", id |-> r.id, update |-> r, read |-> Tr!Reactions(r.id)]
<1>1. /\ Tr!TypeOK /\ MessageHolds
      /\ Tr!ChangesAreOfMessages /\ Tr!SendsApart /\ Tr!RowsCome
  BY DEF TranscriptHolds
<1>2. reactions \in Seq(Tr!Update) /\ reactions # <<>>
  BY <1>1, UpdateFacts DEF Tr!OnReaction
<1>3. /\ Head(reactions) = r /\ 1 \in DOMAIN reactions
      /\ Tail(reactions) \in Seq(Tr!Update)
      /\ \A k \in DOMAIN Tail(reactions) :
             k + 1 \in DOMAIN reactions /\ Tail(reactions)[k] = reactions[k + 1]
  <2>1. /\ Head(reactions) = reactions[1] /\ Tail(reactions) \in Seq(Tr!Update)
        /\ Len(reactions) \in Nat /\ Len(reactions) # 0
               /\ DOMAIN reactions = 1 .. Len(reactions)
        /\ Len(Tail(reactions)) = Len(reactions) - 1
        /\ DOMAIN Tail(reactions) = 1 .. (Len(reactions) - 1)
        /\ \A k \in 1 .. (Len(reactions) - 1) : Tail(reactions)[k] = reactions[k + 1]
    BY <1>2, HeadTailProperties, LenProperties, EmptySeq
  <2>2. QED
    BY <2>1
<1>4. /\ handler = Tr!Free /\ handler' = h /\ reactions' = Tail(reactions)
      /\ UNCHANGED <<telegram, table, calling, torn, sent, changes>>
  BY <1>3 DEF Tr!OnReaction
<1>5. r \in Tr!Update /\ r.id \in Tr!Ids
  BY <1>1, <1>3, UpdateFacts
<1>6. Tr!Delivered(r.id)
  BY <1>1, <1>3 DEF Tr!ChangesAreOfMessages
<1>7. Tr!Reactions(r.id) \in Tr!By
  BY <1>1, <1>5, MessageFacts
<1> HIDE DEF r
<1>8. /\ h \in Tr!Handling /\ h # Tr!Free /\ h.id = r.id /\ h.update = r
  <2> DEFINE d == Tr!Reactions(r.id)
  <2> HIDE DEF d
  <2>1. h = [op |-> "handle", id |-> r.id, update |-> r, read |-> d]
    BY DEF d
  <2>2. d \in Tr!By
    BY <1>7 DEF d
  <2>3. h \in Tr!Handling
    BY <1>5, <2>1, <2>2 DEF Tr!Handling
  <2>4. QED
    BY <2>3 DEF Tr!Handling, Tr!Free
<1> HIDE DEF h
<1>9. \A j \in Tr!Ids : /\ Tr!Delivered(j)' <=> Tr!Delivered(j)
                        /\ Tr!Stored(j)' <=> Tr!Stored(j)
                        /\ Tr!Row(j)' = Tr!Row(j)
  BY <1>4 DEF Tr!Delivered, Tr!Stored, Tr!Row
<1>10. Tr!TypeOK'
  BY <1>1, <1>3, <1>4, <1>8 DEF Tr!TypeOK
<1>11. Tr!ChangesAreOfMessages' /\ Tr!SendsApart' /\ Tr!RowsCome'
  <2>1. \A k \in DOMAIN reactions :
            reactions[k].id \in Tr!Ids /\ Tr!Delivered(reactions[k].id)
    BY <1>1, UpdateFacts DEF Tr!ChangesAreOfMessages
  <2>2. \A k \in DOMAIN reactions' :
            reactions'[k].id \in Tr!Ids /\ Tr!Delivered(reactions'[k].id)
    BY <1>3, <1>4, <2>1
  <2>3. handler' # Tr!Free => handler'.id \in Tr!Ids /\ Tr!Delivered(handler'.id)
    BY <1>4, <1>5, <1>6, <1>8
  <2>4. QED
    BY <1>1, <1>4, <1>9, <2>2, <2>3, CallsStay
<1>12. MessageHolds'
  <2>1. SUFFICES ASSUME NEW j \in Tr!Ids \ torn, Tr!Delivered(j)
                 PROVE  Tr!Carried(j)' /\ Led(j)'
    BY <1>4, <1>9 DEF MessageHolds
  <2>2. Tr!Carried(j) /\ Led(j)
    BY <1>1, <2>1 DEF MessageHolds
  <2>3. Tr!Carried(j)'
    BY <1>4, <1>9, <2>2, CarriedRests
  <2>4. Led(j)'
    <3> DEFINE v == telegram[j].by["person"]
               b == Tr!Row(j).by["person"]
               a == IF r.id = j THEN r.new ELSE b
    <3>1. Tr!Reached(j) = b
      BY <1>4 DEF Tr!Handled, Tr!Reached
    <3>2. Tr!Lead(reactions, j, b, v)
      BY <2>2, <3>1 DEF Led
    <3>3. (r.id = j => r.old = b) /\ Tr!Lead(Tail(reactions), j, a, v)
      <4> HIDE DEF b, v
      <4>1. QED
        BY <1>2, <3>2, LeadTail DEF r
    <3>4. (Tr!Handled(j)' <=> r.id = j) /\ handler'.update = r
      BY <1>4, <1>8 DEF Tr!Handled
    <3>5. Tr!Row(j)'.by["person"] = b /\ telegram'[j].by["person"] = v
      BY <1>4, <1>9
    <3>6. Tr!Reached(j)' = a
      BY <3>4, <3>5 DEF Tr!Reached
    <3>7. Tr!Lead(reactions', j, a, v)
      BY <1>4, <3>3
    <3>8. Tr!Lead(reactions, j, Tr!Reached(j), telegram[j].by["person"])'
      BY <3>5, <3>6, <3>7 DEF Tr!Lead, Tr!Leaves
    <3>9. QED
      BY <3>3, <3>4, <3>5, <3>8 DEF Led
  <2>5. QED
    BY <2>3, <2>4
<1>13. QED
  BY <1>10, <1>11, <1>12 DEF TranscriptHolds

LEMMA ApplyUserReactionStep ==
  ASSUME TranscriptHolds, Tr!ApplyUserReaction
  PROVE  TranscriptHolds'
<1> DEFINE u == handler.update
<1>1. /\ Tr!TypeOK /\ MessageHolds
      /\ Tr!ChangesAreOfMessages /\ Tr!SendsApart /\ Tr!RowsCome
  BY DEF TranscriptHolds
<1>2. /\ handler # Tr!Free /\ handler.id \in Tr!Ids /\ handler.read \in Tr!By
      /\ u.old \in SUBSET Emojis /\ u.new \in SUBSET Emojis
  BY <1>1, UpdateFacts DEF Tr!ApplyUserReaction
<1>3. PICK i \in Tr!Ids : i = handler.id
  BY <1>2
<1> DEFINE p == (handler.read["person"] \ u.old) \cup u.new
           b == [handler.read EXCEPT !["person"] = p]
           m == [Tr!Row(i) EXCEPT !.by = b]
<1>4. Tr!Row(i) \in Tr!Message /\ (Tr!Stored(i) => Tr!Row(i) = table[i])
  BY <1>1, MessageFacts
<1>5. /\ Tr!StoreReactions(i, handler.read, b) /\ handler' = Tr!Free
      /\ UNCHANGED <<telegram, calling, reactions, sent, changes>>
  BY <1>3 DEF Tr!ApplyUserReaction
<1>6. b \in Tr!By /\ b["bot"] = handler.read["bot"] /\ b["person"] = p
  <2>1. "bot" \in Tr!Who /\ "person" \in Tr!Who
    BY DEF Tr!Who
  <2>2. p \in SUBSET Emojis
    BY <1>2, <2>1 DEF Tr!By
  <2> HIDE DEF p
  <2>3. QED
    BY <1>2, <2>1, <2>2 DEF Tr!By
<1> HIDE DEF b
<1>7. /\ m \in Tr!Message /\ m.by = b
      /\ m.text = Tr!Row(i).text /\ m.deleted = Tr!Row(i).deleted
  BY <1>4, <1>6, WithBy
<1>8. \/ /\ Tr!Stored(i) /\ table' = [table EXCEPT ![i] = m]
         /\ torn' = IF Tr!Row(i).by = handler.read THEN torn ELSE torn \cup {i}
      \/ ~Tr!Stored(i) /\ table' = table /\ torn' = torn \cup {i}
  BY <1>4, <1>5 DEF Tr!StoreReactions
<1> HIDE DEF m
<1>9. /\ table' \in [Tr!Ids -> {Tr!NoMessage} \cup Tr!Message]
      /\ \A j \in Tr!Ids : j # i => Tr!Row(j)' = Tr!Row(j)
      /\ \A j \in Tr!Ids : Tr!Stored(j)' <=> Tr!Stored(j)
  <2>1. CASE Tr!Stored(i) /\ table' = [table EXCEPT ![i] = m]
    BY <1>1, <1>7, <2>1, TableChanges
  <2>2. CASE table' = table
    BY <1>1, <2>2 DEF Tr!TypeOK, Tr!Row, Tr!Stored
  <2>3. QED
    BY <1>8, <2>1, <2>2
<1>10. \A j \in Tr!Ids : Tr!Delivered(j)' <=> Tr!Delivered(j)
  BY <1>5 DEF Tr!Delivered
<1>11. torn' \subseteq Tr!Ids /\ torn \subseteq torn'
  BY <1>1, <1>8 DEF Tr!TypeOK
<1>12. Tr!TypeOK'
  BY <1>1, <1>5, <1>9, <1>11 DEF Tr!TypeOK
<1>13. Tr!ChangesAreOfMessages' /\ Tr!SendsApart' /\ Tr!RowsCome'
  <2>1. \A k \in DOMAIN reactions' :
            reactions'[k].id \in Tr!Ids /\ Tr!Delivered(reactions'[k].id)
    BY <1>1, <1>5, UpdateFacts DEF Tr!ChangesAreOfMessages
  <2>2. QED
    BY <1>1, <1>5, <1>9, <1>10, <1>11, <2>1, CallsStay
<1>14. MessageHolds'
  <2>1. SUFFICES ASSUME NEW j \in Tr!Ids, j \notin torn, j \notin torn', Tr!Delivered(j)
                 PROVE  Tr!Carried(j)' /\ Led(j)'
    BY <1>10, <1>11 DEF MessageHolds
  <2>2. Tr!Carried(j) /\ Led(j)
    BY <1>1, <2>1 DEF MessageHolds
  <2>3. /\ Tr!Row(j)'.text = Tr!Row(j).text /\ Tr!Row(j)'.deleted = Tr!Row(j).deleted
        /\ Tr!Row(j)'.by["bot"] = Tr!Row(j).by["bot"]
        /\ Tr!Row(j)'.by["person"] = Tr!Reached(j)
    <3>1. CASE j # i
      <4>1. Tr!Reached(j) = Tr!Row(j).by["person"]
        BY <1>3, <3>1 DEF Tr!Reached, Tr!Handled
      <4>2. QED
        BY <1>9, <3>1, <4>1
    <3>2. CASE j = i
      <4>1. /\ Tr!Stored(i) /\ table' = [table EXCEPT ![i] = m]
            /\ Tr!Row(i).by = handler.read
        BY <1>8, <2>1, <3>2
      <4>2. Tr!Row(i)' = m
        BY <1>1, <1>7, <4>1, TableChanges
      <4>3. Tr!Handled(i)
        BY <1>2, <1>3 DEF Tr!Handled
      <4>4. u.old = handler.read["person"] /\ Tr!Reached(i) = u.new
        BY <2>2, <3>2, <4>1, <4>3 DEF Led, Tr!Reached
      <4>5. p = u.new
        BY <4>4
      <4>6. QED
        BY <1>6, <1>7, <3>2, <4>1, <4>2, <4>4, <4>5
    <3>3. QED
      BY <3>1, <3>2
  <2>4. Tr!Carried(j)'
    BY <1>5, <2>2, <2>3, CarriedRests
  <2>5. Led(j)'
    <3>1. ~Tr!Handled(j)' /\ Tr!Reached(j)' = Tr!Reached(j)
      BY <1>5, <2>3 DEF Tr!Handled, Tr!Reached
    <3>2. Tr!Lead(reactions, j, Tr!Reached(j), telegram[j].by["person"])'
      BY <1>5, <2>2, <3>1 DEF Led, Tr!Lead, Tr!Leaves
    <3>3. QED
      BY <3>1, <3>2 DEF Led
  <2>6. QED
    BY <2>4, <2>5
<1>15. QED
  BY <1>12, <1>13, <1>14 DEF TranscriptHolds

\* What holds of a message nothing is under way on.
LEMMA IdleMessage ==
  ASSUME Tr!TypeOK, NEW i \in Tr!Ids, ~Tr!Busy(i)
  PROVE  /\ \A t \in ToolCalls :
                /\ calling[t].op \in {"edit", "delete", "react", "store"} => calling[t].id # i
                /\ ~(Tr!Sending(t) /\ i \in Tr!ToSet(calling[t].ids))
         /\ ~Tr!Handled(i) /\ \A k \in DOMAIN reactions : reactions[k].id # i
<1>1. \A t \in ToolCalls :
          /\ calling[t].op \in {"edit", "delete", "react", "store"} => calling[t].id # i
          /\ ~(Tr!Sending(t) /\ i \in Tr!ToSet(calling[t].ids))
  <2>1. \A t \in ToolCalls : calling[t].op # "none" => calling[t] # Tr!Free
    BY DEF Tr!Free
  <2>2. QED
    BY <2>1 DEF Tr!Busy, Tr!Sending
<1>2. ~Tr!Handled(i)
  BY DEF Tr!Busy, Tr!Handled
<1>3. \A k \in DOMAIN reactions : reactions[k].id # i
  BY DEF Tr!Busy, Tr!ToSet
<1>4. QED
  BY <1>1, <1>2, <1>3

LEMMA TranscriptRestartStep ==
  ASSUME TranscriptHolds, Tr!Restart
  PROVE  TranscriptHolds'
<1>1. /\ Tr!TypeOK /\ MessageHolds
      /\ Tr!ChangesAreOfMessages /\ Tr!SendsApart /\ Tr!RowsCome
  BY DEF TranscriptHolds
<1>2. /\ torn' = torn \cup {i \in Tr!Ids : Tr!Busy(i)}
      /\ calling' = [t \in ToolCalls |-> Tr!Free] /\ reactions' = <<>> /\ handler' = Tr!Free
      /\ UNCHANGED <<telegram, table, sent, changes>>
  BY DEF Tr!Restart
<1>3. \A t \in ToolCalls : calling'[t] = Tr!Free /\ calling'[t].op = "none"
  BY <1>2 DEF Tr!Free
<1>4. \A j \in Tr!Ids : /\ Tr!Delivered(j)' <=> Tr!Delivered(j)
                        /\ Tr!Stored(j)' <=> Tr!Stored(j)
                        /\ Tr!Row(j)' = Tr!Row(j)
  BY <1>2 DEF Tr!Delivered, Tr!Stored, Tr!Row
<1>5. reactions' \in Seq(Tr!Update) /\ DOMAIN reactions' = {}
  BY <1>2, EmptySeq
<1>6. Tr!TypeOK'
  BY <1>1, <1>2, <1>5 DEF Tr!TypeOK
<1>7. Tr!ChangesAreOfMessages'
  <2>1. \A j \in Tr!Ids : /\ Tr!Delivered(j)' <=> j <= sent'
                          /\ Tr!Stored(j)' => Tr!Delivered(j)'
    BY <1>1, <1>2, <1>4 DEF Tr!ChangesAreOfMessages
  <2>2. QED
    BY <1>2, <1>3, <1>5, <2>1 DEF Tr!ChangesAreOfMessages
<1>8. Tr!SendsApart'
  BY <1>3 DEF Tr!SendsApart, Tr!Sending
<1>9. ASSUME NEW j \in Tr!Ids \ torn', Tr!Delivered(j)
      PROVE  Tr!Stored(j)' /\ Tr!Carried(j)' /\ Led(j)'
  <2>1. j \notin torn /\ ~Tr!Busy(j)
    BY <1>2
  <2>2. /\ \A t \in ToolCalls :
               /\ calling[t].op \in {"edit", "delete", "react", "store"} => calling[t].id # j
               /\ ~(Tr!Sending(t) /\ j \in Tr!ToSet(calling[t].ids))
        /\ ~Tr!Handled(j) /\ \A k \in DOMAIN reactions : reactions[k].id # j
    BY <1>1, <2>1, IdleMessage
  <2>3. Tr!Carried(j) /\ Led(j)
    BY <1>1, <1>9, <2>1 DEF MessageHolds
  <2>4. Tr!Stored(j)'
    BY <1>1, <1>4, <1>9, <2>1, <2>2 DEF Tr!RowsCome
  <2>5. Tr!Carried(j)'
    <3>1. SameEdits(j) /\ SameDeletions(j) /\ SameReactions(j)
      BY <1>3, <2>2 DEF SameEdits, SameDeletions, SameReactions, Reacts
    <3>2. TextCarried(j) /\ DeletionCarried(j) /\ ReactionCarried(j)
      BY <2>3, CarriedIs
    <3>3. TextCarried(j)' /\ DeletionCarried(j)' /\ ReactionCarried(j)'
      BY <1>2, <1>4, <3>1, <3>2, TextStays, DeletionStays, ReactionStays
    <3>4. QED
      BY <3>3, CarriedIsThen
  <2>6. Led(j)'
    <3> DEFINE b == Tr!Row(j).by["person"]
               v == telegram[j].by["person"]
    <3>1. Tr!Lead(reactions, j, b, v)
      BY <2>2, <2>3 DEF Led, Tr!Reached
    <3>2. v = b
      <4>1. reactions \in Seq(Tr!Update)
        BY <1>1, UpdateFacts
      <4> HIDE DEF b, v
      <4>2. QED
        BY <2>2, <3>1, <4>1, LeadNowhere
    <3>3. ~Tr!Handled(j)' /\ Tr!Reached(j)' = b /\ telegram'[j].by["person"] = b
      BY <1>2, <1>4, <3>2 DEF Tr!Handled, Tr!Reached
    <3>4. Tr!Lead(reactions', j, b, b)
      <4> HIDE DEF b
      <4>1. QED
        BY <1>5, LeadsNowhere
    <3>5. Tr!Lead(reactions, j, Tr!Reached(j), telegram[j].by["person"])'
      BY <3>3, <3>4 DEF Tr!Lead, Tr!Leaves
    <3>6. QED
      BY <3>3, <3>5 DEF Led
  <2>7. QED
    BY <2>4, <2>5, <2>6
<1>10. Tr!RowsCome' /\ MessageHolds'
  BY <1>4, <1>9 DEF Tr!RowsCome, MessageHolds
<1>11. QED
  BY <1>6, <1>7, <1>8, <1>10 DEF TranscriptHolds

LEMMA RowsFollow ==
  ASSUME TranscriptHolds
  PROVE  Tr!RowsFollowTelegram
<1>1. /\ Tr!TypeOK /\ MessageHolds
      /\ Tr!ChangesAreOfMessages /\ Tr!RowsCome
  BY DEF TranscriptHolds
<1>2. SUFFICES ASSUME NEW i \in Tr!Ids \ torn, ~Tr!Busy(i)
      PROVE  /\ telegram[i] = Tr!NoMessage <=> table[i] = Tr!NoMessage
             /\ Tr!Stored(i) =>
                    /\ table[i].deleted = telegram[i].deleted
                    /\ table[i].text = telegram[i].text /\ table[i].by = telegram[i].by
  BY DEF Tr!RowsFollowTelegram
<1>3. /\ \A t \in ToolCalls :
             /\ calling[t].op \in {"edit", "delete", "react", "store"} => calling[t].id # i
             /\ ~(Tr!Sending(t) /\ i \in Tr!ToSet(calling[t].ids))
      /\ ~Tr!Handled(i) /\ \A k \in DOMAIN reactions : reactions[k].id # i
  BY <1>1, <1>2, IdleMessage
<1>4. Tr!Stored(i) <=> Tr!Delivered(i)
  BY <1>1, <1>2, <1>3 DEF Tr!ChangesAreOfMessages, Tr!RowsCome
<1>5. ASSUME Tr!Stored(i)
      PROVE  /\ table[i].deleted = telegram[i].deleted
             /\ table[i].text = telegram[i].text /\ table[i].by = telegram[i].by
  <2>1. Tr!Carried(i) /\ Led(i)
    BY <1>1, <1>2, <1>4, <1>5 DEF MessageHolds
  <2>2. Tr!Row(i) = table[i] /\ table[i].by \in Tr!By /\ telegram[i].by \in Tr!By
    <3>1. telegram[i] \in Tr!Message /\ Tr!Row(i) = table[i] /\ Tr!Row(i).by \in Tr!By
      BY <1>1, <1>4, <1>5, MessageFacts
    <3>2. QED
      BY <3>1 DEF Tr!Message
  <2>3. TextCarried(i) /\ DeletionCarried(i) /\ ReactionCarried(i)
    BY <2>1, CarriedIs
  <2>4. Tr!Doing("edit", i) = {} /\ Tr!Doing("delete", i) = {}
            /\ \A t \in ToolCalls : ~Reacts(t, i)
    BY <1>3 DEF Tr!Doing, Reacts
  <2>5. /\ table[i].text = telegram[i].text /\ table[i].deleted = telegram[i].deleted
        /\ table[i].by["bot"] = telegram[i].by["bot"]
    BY <2>2, <2>3, <2>4 DEF TextCarried, DeletionCarried, ReactionCarried
  <2>6. telegram[i].by["person"] = table[i].by["person"]
    <3> DEFINE b == table[i].by["person"]
               v == telegram[i].by["person"]
    <3>1. Tr!Lead(reactions, i, b, v)
      BY <1>3, <2>1, <2>2 DEF Led, Tr!Reached
    <3>2. reactions \in Seq(Tr!Update)
      BY <1>1, UpdateFacts
    <3> HIDE DEF b, v
    <3>3. v = b
      BY <1>3, <3>1, <3>2, LeadNowhere
    <3>4. QED
      BY <3>3 DEF b, v
  <2>7. table[i].by = telegram[i].by
    <3>1. \A w \in Tr!Who : table[i].by[w] = telegram[i].by[w]
      BY <2>5, <2>6 DEF Tr!Who
    <3>2. QED
      BY <2>2, <3>1 DEF Tr!By
  <2>8. QED
    BY <2>5, <2>7
<1>6. QED
  BY <1>4, <1>5 DEF Tr!Delivered, Tr!Stored

LEMMA TranscriptIs == Tr!IInv <=> TranscriptHolds
  BY RowsFollow, MessageIs DEF Tr!IInv, TranscriptHolds

TranscriptStep ==
  \/ \E t \in ToolCalls, chunks \in 1 .. 2 : Tr!Send(t, chunks)
  \/ \E t \in ToolCalls : Tr!Deliver(t)
  \/ \E t \in ToolCalls : Tr!ChunkFails(t)
  \/ \E t \in ToolCalls : Tr!Record(t)
  \/ \E t \in ToolCalls, i \in Tr!Ids : Tr!Edit(t, i)
  \/ \E t \in ToolCalls : Tr!MarkEdited(t)
  \/ \E t \in ToolCalls, i \in Tr!Ids : Tr!Delete(t, i)
  \/ \E t \in ToolCalls : Tr!MarkDeleted(t)
  \/ \E t \in ToolCalls, i \in Tr!Ids, e \in Emojis : Tr!React(t, i, e)
  \/ \E t \in ToolCalls : Tr!LoadReactions(t)
  \/ \E t \in ToolCalls : Tr!AddBotReaction(t)
  \/ \E i \in Tr!Ids, new \in {{}} \cup {{e} : e \in Emojis} : Tr!PersonReacts(i, new)
  \/ Tr!OnReaction
  \/ Tr!ApplyUserReaction
  \/ Tr!Restart

LEMMA TranscriptKeeps ==
  ASSUME Tr!IInv, TranscriptStep
  PROVE  Tr!IInv'
<1>1. TranscriptHolds
  BY TranscriptIs
<1>2. {{}} \cup {{e} : e \in Emojis} \subseteq SUBSET Emojis
  OBVIOUS
<1>3. TranscriptHolds'
  BY <1>1, <1>2, SendStep, DeliverStep, ChunkFailsStep, RecordStep, EditStep, MarkEditedStep,
     DeleteStep, MarkDeletedStep, ReactStep, LoadReactionsStep, AddBotReactionStep,
     PersonReactsStep, OnReactionStep, ApplyUserReactionStep, TranscriptRestartStep
     DEF TranscriptStep
<1>4. QED
  BY <1>3, TranscriptIs, PTL

LEMMA TranscriptRests ==
  ASSUME Tr!IInv, UNCHANGED transcriptVars
  PROVE  Tr!IInv'
<1>1. TranscriptHolds
  BY TranscriptIs
<1>2. /\ Tr!TypeOK /\ MessageHolds
      /\ Tr!ChangesAreOfMessages /\ Tr!SendsApart /\ Tr!RowsCome
  BY <1>1 DEF TranscriptHolds
<1>3. UNCHANGED <<telegram, table, calling, reactions, handler, torn, sent, changes>>
  BY DEF transcriptVars
<1>4. \A j \in Tr!Ids : /\ Tr!Delivered(j)' <=> Tr!Delivered(j)
                        /\ Tr!Stored(j)' <=> Tr!Stored(j)
                        /\ Tr!Row(j)' = Tr!Row(j)
  BY <1>3 DEF Tr!Delivered, Tr!Stored, Tr!Row
<1>5. Tr!TypeOK'
  BY <1>2, <1>3 DEF Tr!TypeOK
<1>6. Tr!ChangesAreOfMessages' /\ Tr!SendsApart' /\ Tr!RowsCome'
  <2>1. /\ handler' # Tr!Free => handler'.id \in Tr!Ids /\ Tr!Delivered(handler'.id)
        /\ \A k \in DOMAIN reactions' :
               reactions'[k].id \in Tr!Ids /\ Tr!Delivered(reactions'[k].id)
    BY <1>2, <1>3, UpdateFacts DEF Tr!ChangesAreOfMessages
  <2>2. QED
    BY <1>2, <1>3, <1>4, <2>1, CallsStay
<1>7. MessageHolds'
  <2>1. SUFFICES ASSUME NEW j \in Tr!Ids \ torn, Tr!Delivered(j)
                 PROVE  Tr!Carried(j)' /\ Led(j)'
    BY <1>3, <1>4 DEF MessageHolds
  <2>2. Tr!Carried(j) /\ Led(j)
    BY <1>2, <2>1 DEF MessageHolds
  <2>3. QED
    BY <1>3, <1>4, <2>2, CarriedRests, LedStays
<1>8. TranscriptHolds'
  BY <1>5, <1>6, <1>7 DEF TranscriptHolds
<1>9. QED
  BY <1>8, TranscriptIs, PTL

LEMMA TranscriptInitially ==
  ASSUME Tr!Init
  PROVE  Tr!IInv
<1>1. /\ telegram = [i \in Tr!Ids |-> IF i = 0 THEN Tr!Plain ELSE Tr!NoMessage]
      /\ table = telegram /\ calling = [t \in ToolCalls |-> Tr!Free]
      /\ reactions = <<>> /\ handler = Tr!Free /\ torn = {} /\ sent = 0 /\ changes = 0
  BY DEF Tr!Init
<1>2. /\ \A t \in ToolCalls : calling[t].op = "none"
      /\ reactions \in Seq(Tr!Update) /\ DOMAIN reactions = {}
  BY <1>1, EmptySeq DEF Tr!Free
<1>3. /\ telegram \in [Tr!Ids -> {Tr!NoMessage} \cup Tr!Message] /\ 0 \in Tr!Ids
      /\ Tr!Plain # Tr!NoMessage
  BY <1>1, PlainIsMessage, ServicesAssumption DEF Tr!Ids, Tr!NoMessage, Tr!Message
<1>4. Tr!TypeOK
  BY <1>1, <1>2, <1>3, ServicesAssumption DEF Tr!TypeOK
<1>5. \A i \in Tr!Ids : (Tr!Delivered(i) <=> i = 0) /\ (Tr!Stored(i) <=> i = 0)
  BY <1>1, <1>3 DEF Tr!Delivered, Tr!Stored
<1>6. Tr!ChangesAreOfMessages
  <2>1. \A i \in Tr!Ids : i = 0 <=> i <= sent
    BY <1>1, ServicesAssumption DEF Tr!Ids
  <2>2. QED
    BY <1>1, <1>2, <1>5, <2>1 DEF Tr!ChangesAreOfMessages
<1>7. Tr!SendsApart /\ Tr!RowsCome
  BY <1>2, <1>5 DEF Tr!SendsApart, Tr!RowsCome, Tr!Sending
<1>8. MessageHolds
  <2>1. SUFFICES ASSUME NEW i \in Tr!Ids, i = 0 PROVE Tr!Carried(i) /\ Led(i)
    BY <1>5 DEF MessageHolds
  <2>2. Tr!Row(i) = Tr!Plain /\ telegram[i] = Tr!Plain
    BY <1>1, <1>5, <2>1 DEF Tr!Row
  <2>3. TextCarried(i) /\ DeletionCarried(i) /\ ReactionCarried(i)
    BY <1>2, <2>2 DEF TextCarried, DeletionCarried, ReactionCarried, Tr!Doing, Reacts
  <2>4. Led(i)
    <3> DEFINE b == Tr!Plain.by["person"]
    <3>1. ~Tr!Handled(i) /\ Tr!Reached(i) = b /\ telegram[i].by["person"] = b
      BY <1>1, <2>2 DEF Tr!Handled, Tr!Reached
    <3>2. Tr!Lead(reactions, i, b, b)
      <4> HIDE DEF b
      <4>1. QED
        BY <1>2, LeadsNowhere
    <3>3. QED
      BY <3>1, <3>2 DEF Led
  <2>5. QED
    BY <2>3, <2>4, CarriedIs
<1>9. QED
  BY <1>4, <1>6, <1>7, <1>8, TranscriptIs DEF TranscriptHolds
================================================================================
