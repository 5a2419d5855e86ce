--------------------------- MODULE FirstMessages ---------------------------
(***************************************************************************)
(* First messages to one buyer of one account, who may have no thread yet. *)
(* A conversation begun here has no eBay thread until the answer to the    *)
(* send names it, or an import or a later reply recognises the message.    *)
(* Meanwhile the import can meet the same thread first, eBay can continue  *)
(* a thread instead of starting one, and several agents can write at once. *)
(***************************************************************************)
EXTENDS Integers, Sequences, FiniteSets, FiniteSetsExt

CONSTANTS
    Agent, Thread, Text,
    Nowhere,                    \* no eBay thread
    Closes,                     \* whether conversations are closed and opened again
    MaxMessages, MaxConversations

FirstMessagesAssumption ==
    Nowhere \notin Thread \cup Text /\ Closes \in BOOLEAN /\ MaxMessages \in Nat \ {0} /\ MaxConversations \in Nat \ {0}

VARIABLES
    mail,       \* eBay's messages, by number: thread, from, text
    records,    \* Conversation rows, by number: thread, first message sent, thread recognised, closed
    copies,     \* Message rows: of (the eBay message), known (by its identifier), conversation
    composing,  \* by agent: the request in progress
    importing,  \* the import in progress and what it has matched
    begun,      \* history: how many conversations were begun here
    settled,    \* history: threads imported since anything changed in them
    early       \* history: imported before their reply was stored, whose answer did not name them

firstVars == <<mail, records, copies, composing, importing, begun, settled, early>>

Record == [thread : Thread \cup {Nowhere}, first : BOOLEAN, joined : Thread \cup {Nowhere}, closed : BOOLEAN]
Idle == [step |-> "idle"]
FirstInit ==
    /\ mail = <<>> /\ records = <<>> /\ copies = {}
    /\ composing = [a \in Agent |-> Idle] /\ importing = Idle
    /\ begun = 0 /\ settled = {} /\ early = {}

Of(t) == {m \in DOMAIN mail : mail[m].thread = t}
RowsOf(c) == {x \in copies : x.conversation = c}
Home(t) == {c \in DOMAIN records : records[c].thread = t}

\* A row that waits for its identifier, recognised by its text.
LocalReplyMatch(xs, m) ==
    {x \in xs : ~x.known /\ mail[x.of].text = mail[m].text}

----------------------------------------------------------------------------
(* eBay. *)

\* The buyer writes, or the seller with eBay's own pages.
EbayMessage(t, from, text) ==
    /\ Len(mail) < MaxMessages
    /\ mail' = Append(mail, [thread |-> t, from |-> from, text |-> text])
    /\ settled' = settled \ {t}
    /\ UNCHANGED <<records, copies, composing, importing, begun, early>>

----------------------------------------------------------------------------
(* Requests. *)

\* The row is read here; what the session has loaded it does not read again
\* unless the renewal of the token commits.
Found(c, row, checked) ==
    [step |-> "found", conversation |-> c, row |-> row, checked |-> checked]
Begun == [thread |-> Nowhere, first |-> FALSE, joined |-> Nowhere, closed |-> FALSE]

\* To a conversation that is open, or else to one that begins here (number 0).
FirstMessage(a) ==
    LET open == {c \in DOMAIN records : ~records[c].closed}
    IN  /\ composing[a] = Idle
        /\ \/ \E c \in open : composing' = [composing EXCEPT ![a] = Found(c, records[c], FALSE)]
           \/ open = {} /\ composing' = [composing EXCEPT ![a] = Found(0, Begun, FALSE)]
        /\ UNCHANGED <<mail, records, copies, importing, begun, settled, early>>

Reply(a, c) ==
    /\ composing[a] = Idle /\ ~records[c].closed
    /\ composing' = [composing EXCEPT ![a] = Found(c, records[c], TRUE)]
    /\ UNCHANGED <<mail, records, copies, importing, begun, settled, early>>

\* Threads whose rows hold a message of the seller with the text of a row of c.
ReconcileFromSyncedThreads(c) ==
    {t \in Thread : \E home \in Home(t) :
        \E y \in RowsOf(home) : LocalReplyMatch(RowsOf(c), y.of) # {}}
Rejoined(c, row) ==
    LET found == ReconcileFromSyncedThreads(c)
    IN  IF row.thread = Nowhere /\ row.first /\ Cardinality(found) = 1
        THEN [row EXCEPT !.joined = CHOOSE t \in found : TRUE] ELSE row

\* The thread to send to; a new one; or none until an import has found it.
SendContext(row) ==
    IF row.thread # Nowhere THEN row.thread
    ELSE IF row.joined # Nowhere THEN row.joined
    ELSE IF row.first THEN "wait" ELSE "new"

Prepare(a) ==
    LET mine == composing[a]
        c == mine.conversation
    IN  /\ mine.step = "found"
        /\ \E row \in {mine.row} \cup {records[k] : k \in {c} \cap DOMAIN records} :
              LET used == Rejoined(c, row)
                  to == SendContext(used)
              IN  composing' = [composing EXCEPT ![a] =
                      IF to = "wait" \/ (row.closed /\ ~mine.checked) THEN Idle
                      ELSE [step |-> "ready", conversation |-> c, to |-> to,
                            row |-> used, rejoined |-> used # row]]
        /\ UNCHANGED <<mail, records, copies, importing, begun, settled, early>>

\* eBay delivers, in a thread of its choice when none is asked for.  Its answer may
\* name the message, and the thread of a new one.
Send(a, t, text, names, thread) ==
    LET mine == composing[a]
    IN  /\ mine.step = "ready" /\ mine.to \in {t, "new"} /\ Len(mail) < MaxMessages
        /\ thread # Nowhere => mine.to = "new" /\ thread = t
        /\ mail' = Append(mail, [thread |-> t, from |-> "seller", text |-> text])
        /\ composing' = [composing EXCEPT ![a] =
              [step |-> "sent", conversation |-> mine.conversation, row |-> mine.row,
               rejoined |-> mine.rejoined, to |-> mine.to, message |-> Len(mail) + 1, names |-> names, thread |-> thread]]
        /\ settled' = settled \ {t}
        /\ UNCHANGED <<records, copies, importing, begun, early>>

\* Refused, answered by nothing, or the commit fails: nothing is kept.
Abandon(a) ==
    /\ composing[a].step \in {"ready", "sent"}
    /\ composing' = [composing EXCEPT ![a] = Idle]
    /\ UNCHANGED <<mail, records, copies, importing, begun, settled, early>>

\* A conversation begun here gives way to one that has the thread already.
Store(a) ==
    LET mine == composing[a]
        m == mine.message
        t == mail[m].thread
        new == mine.to = "new"
        homes == IF mine.thread # Nowhere THEN Home(t) ELSE {}
        c == IF ~new THEN mine.conversation
             ELSE IF homes # {} THEN CHOOSE h \in homes : TRUE ELSE Len(records) + 1
        imported == {x \in copies : x.known /\ x.of = m}
        there == IF mine.names THEN imported ELSE {}
        met == importing # Idle /\ importing.thread = t
    IN  /\ mine.step = "sent" /\ c <= MaxConversations
        /\ records' = IF c > Len(records)
                      THEN Append(records, [Begun EXCEPT !.thread = mine.thread, !.first = TRUE])
                      ELSE IF new THEN [records EXCEPT ![c].first = TRUE, ![c].joined = Nowhere]
                      ELSE IF ~mine.rejoined THEN records
                      ELSE [records EXCEPT ![c].first = mine.row.first, ![c].joined = mine.row.joined]
        /\ copies' = (copies \ there) \cup {[of |-> m, known |-> mine.names, conversation |-> c]}
        /\ composing' = [composing EXCEPT ![a] = Idle]
        /\ begun' = IF c > Len(records) THEN begun + 1 ELSE begun
        /\ settled' = settled \ {t}
        /\ early' = IF ~mine.names /\ (imported # {} \/ (met /\ m \in importing.messages))
                     THEN early \cup {m} ELSE early
        /\ importing' = IF met THEN [importing EXCEPT !.alone = FALSE] ELSE importing
        /\ UNCHANGED mail

Close(c) ==
    /\ Closes
    /\ records' = [records EXCEPT ![c].closed = ~@]
    /\ UNCHANGED <<mail, copies, composing, importing, begun, settled, early>>

----------------------------------------------------------------------------
(* The import of a thread.  Its row is matched, and flushed; the messages *)
(* follow when the product context has been fetched.                      *)

Recognised(c, ms) ==
    \E x \in RowsOf(c) : (x.known /\ x.of \in ms) \/ \E m \in ms : x \in LocalReplyMatch(RowsOf(c), m)
\* The conversations begun here that this thread may be recognised as.
Hits(t) ==
    {c \in DOMAIN records :
        /\ records[c].thread = Nowhere /\ records[c].first
        /\ (Home(t) # {} /\ records[c].joined = t) \/ Recognised(c, Of(t))}

ImportMatch(t) ==
    /\ importing = Idle /\ Of(t) # {}
    /\ \E hit \in IF Hits(t) = {} THEN {0} ELSE Hits(t) :
          importing' = [step |-> "matched", thread |-> t, messages |-> Of(t), hit |-> hit,
                        homes |-> Home(t), rows |-> RowsOf(hit), alone |-> TRUE]
    /\ UNCHANGED <<mail, records, copies, composing, begun, settled, early>>

M_Claims(waiting, new) == {{}}       \* mutant: an imported message does not take the row that waits for it
\* Each message that is new takes one waiting row of its text, if there is one.
Claims(waiting, new) ==
    {s \in SUBSET waiting : \A text \in Text :
        LET Of1(ns) == Cardinality({n \in ns : mail[n].text = text})
        IN  Cardinality({x \in s : mail[x.of].text = text})
            = Min({Cardinality({x \in waiting : mail[x.of].text = text}), Of1(new)})}

ImportApply ==
    LET t == importing.thread
        ms == importing.messages
        homes == Home(t)
        c == IF importing.hit # 0 THEN importing.hit
             ELSE IF homes # {} THEN CHOOSE h \in homes : TRUE ELSE Len(records) + 1
        known == {x \in copies : x.known /\ x.of \in ms}
        waiting == {x \in RowsOf(c) : ~x.known /\ (importing.hit # 0 => x \in importing.rows)}
        new == {m \in ms : mail[m].from = "seller"} \ {x.of : x \in known}
    IN  /\ importing # Idle /\ c <= MaxConversations
        /\ importing.homes = {} => homes = {}
        /\ records' = IF c > Len(records) THEN Append(records, [Begun EXCEPT !.thread = t])
                      ELSE IF importing.hit # 0 /\ homes # {} THEN [records EXCEPT ![c].first = TRUE, ![c].joined = t]
                      ELSE [records EXCEPT ![c].thread = t, ![c].first = FALSE, ![c].joined = Nowhere]
        /\ \E claimed \in Claims(waiting, new) :
              copies' = (copies \ (known \cup claimed))
                        \cup {[of |-> m, known |-> TRUE, conversation |-> c] : m \in ms}
        /\ settled' = IF ms = Of(t) /\ importing.alone THEN settled \cup {t} ELSE settled
        /\ importing' = Idle
        /\ UNCHANGED <<mail, composing, begun, early>>

\* The row of the thread was committed by another meanwhile: the savepoint is undone.
ImportFails ==
    /\ importing # Idle /\ importing.homes = {} /\ Home(importing.thread) # {}
    /\ importing' = Idle
    /\ UNCHANGED <<mail, records, copies, composing, begun, settled, early>>

FirstNext ==
    \/ \E t \in Thread : EbayMessage(t, "buyer", Nowhere) \/ \E text \in Text : EbayMessage(t, "seller", text)
    \/ \E a \in Agent : FirstMessage(a) \/ Prepare(a) \/ Abandon(a) \/ Store(a)
    \/ \E a \in Agent, c \in DOMAIN records : Reply(a, c)
    \/ \E a \in Agent, t \in Thread, text \in Text, names \in BOOLEAN :
          \E thread \in {t, Nowhere} : Send(a, t, text, names, thread)
    \/ \E c \in DOMAIN records : Close(c)
    \/ \E t \in Thread : ImportMatch(t)
    \/ ImportApply \/ ImportFails

----------------------------------------------------------------------------
(* Properties. *)

FirstTypeOK ==
    /\ \A c \in DOMAIN records : records[c] \in Record
    /\ copies \subseteq [of : DOMAIN mail, known : BOOLEAN, conversation : DOMAIN records]
    /\ \A a \in Agent : composing[a].step \in {"idle", "found", "ready", "sent"}
    /\ settled \subseteq Thread /\ early \subseteq DOMAIN mail

Stands(c, t) == records[c].thread = t \/ records[c].joined = t
Known(t) == {x \in copies : x.known /\ mail[x.of].thread = t}

\* Once a thread is imported, each message of it has its row, all of them in one
\* conversation, from which a reply goes to that thread.
OneHome ==
    \A t \in settled :
        /\ {x.of : x \in Known(t)} = Of(t)
        /\ \E c \in DOMAIN records : Stands(c, t) /\ \A x \in Known(t) : x.conversation = c

\* A conversation begun here does not wait for an import that has been: when its
\* message's thread has been imported, it can be replied to.
Reachable ==
    begun <= 1 => \A c \in DOMAIN records :
        (\E x \in RowsOf(c) : mail[x.of].thread \in settled) => SendContext(Rejoined(c, records[c])) # "wait"

\* A reply goes to the thread whose messages the conversation shows.
NotAstray ==
    \A a \in Agent : composing[a].step = "ready" /\ composing[a].to # "new" =>
        \A x \in RowsOf(composing[a].conversation) : mail[x.of].thread = composing[a].to

\* A conversation does not show a message twice, as sent and as imported.
ShownOnce ==
    begun <= 1 => \A t \in settled, c \in DOMAIN records : \A m \in Of(t) \ early :
        Cardinality({x \in RowsOf(c) : x.of = m}) <= 1

\* One text sent twice within minutes can be taken for the other: the code knows a
\* message whose identifier was omitted by its text.
Ambiguous == \E m, n \in DOMAIN mail : m # n /\ mail[m].text = mail[n].text /\ mail[m].from = "seller"
\* First messages end in the conversation of their thread, once, and can be followed up.
FirstMessagesLand == ~Ambiguous => OneHome /\ Reachable /\ NotAstray /\ ShownOnce
=============================================================================
