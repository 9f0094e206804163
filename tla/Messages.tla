------------------------------ MODULE Messages ------------------------------
(***************************************************************************)
(* Conversations about a unit (app/services/conversation_service.py,       *)
(* app/routers/messages.py).  A thread is found by its two participants    *)
(* and its unit or opened; a message carries the time its transaction      *)
(* began (created_at is the database's now()); what is unread follows from *)
(* the time a participant last read.                                       *)
(***************************************************************************)
EXTENDS Requests

CONSTANTS
    People,       \* user ids
    Units,        \* units that can be asked about
    LandlordOf,   \* units.parent_property.owner_id of each
    Threads,      \* ids of message_threads rows
    MaxMessages,  \* bound: messages rows
    MaxClock      \* bound: moments that matter

VARIABLES
    thread,       \* message_threads rows with their participants
    messages,     \* messages rows in the order of their commits
    lastRead,     \* thread_participants.last_read_at of each thread and user
    shown,        \* messages a user was shown or said to have read
    bells,        \* notifications rows about messages: for whom, and of what
    clock         \* the current moment

messageVars == <<thread, messages, lastRead, shown, bells, clock>>

-----------------------------------------------------------------------------

Events == {"thread_opened", "inspection_requested", "call_started"}

ASSUME MessageAssumption ==
    /\ LandlordOf \in [Units -> People]
    /\ None \notin People \cup Events
    /\ MaxClock \in Nat \ {0}

Pairs == {p \in SUBSET People : Cardinality(p) = 2}
Moment == 0 .. MaxClock

NoThread == [unit |-> None, pair |-> {}, archived |-> FALSE]
ThreadRow == [unit : Units, pair : Pairs, archived : BOOLEAN]

\* A user's message has a sender and no event, a system message the reverse.
MessageRow ==
    [thread : Threads, sender : People, event : {None}, at : Moment]
        \cup [thread : Threads, sender : {None}, event : Events, at : Moment]

Stored == DOMAIN messages
FromUser(m) == messages[m].sender # None
Open(t) == thread[t] # NoThread

MessagesInit ==
    /\ thread = [t \in Threads |-> NoThread]
    /\ messages = <<>>
    /\ lastRead = [t \in Threads |-> [u \in People |-> 0]]
    /\ shown = [u \in People |-> {}]
    /\ bells = {}
    /\ clock = 1

MessagesTypeOK ==
    /\ thread \in [Threads -> ThreadRow \cup {NoThread}]
    /\ messages \in Seq(MessageRow)
    /\ lastRead \in [Threads -> [People -> Moment]]
    /\ shown \in [People -> SUBSET Stored]
    /\ bells \subseteq People \X Stored
    /\ clock \in Moment

-----------------------------------------------------------------------------

\* Mutant: a thread is found by its unit alone.
FoundByUnit(pair, u) == {t \in Threads : Open(t) /\ thread[t].unit = u}

\* Mutant: archived threads are not found.
FoundInInbox(pair, u) ==
    {t \in FoundByUnit(pair, u) : thread[t].pair = pair /\ ~thread[t].archived}

\* find_thread_for_pair_and_unit.
Found(pair, u) == {t \in FoundByUnit(pair, u) : thread[t].pair = pair}

Tick == clock < MaxClock /\ clock' = clock + 1

IsNew(pair, u) == Found(pair, u) = {}

\* start_from_unit: whether the thread is new is asked before it is ensured.
StartFromUnit(w, sender, u) ==
    LET pair == {sender, LandlordOf[u]} IN
    /\ Ready(w, "start")
    /\ sender # LandlordOf[u]
    /\ Goto(w, "ensure",
            [pair |-> pair, unit |-> u, sender |-> sender,
             event |-> IF IsNew(pair, u) THEN "thread_opened" ELSE None])
    /\ UNCHANGED messageVars

\* The request goes on to store the sender's message in thread t, and after
\* it a system message about the event, if there is one.
Compose(w, t, sender, event, at) ==
    Goto(w, "append", [thread |-> t, sender |-> sender, event |-> event, at |-> at])

\* ensure_thread looks again; the append that follows begins a transaction.
EnsureThread(w) ==
    LET j == job[w] IN
    /\ pc[w] = "ensure"
    /\ \/ /\ Found(j.pair, j.unit) = {}
          /\ Goto(w, "open", j)
          /\ UNCHANGED messageVars
       \/ \E t \in Found(j.pair, j.unit) :
          /\ Tick
          /\ Compose(w, t, j.sender, j.event, clock)
          /\ UNCHANGED <<thread, messages, lastRead, shown, bells>>

OpenThread(w) ==
    LET j == job[w] IN
    /\ pc[w] = "open"
    /\ Tick
    /\ \E t \in Threads :
          /\ ~Open(t)
          /\ thread' = [thread EXCEPT ![t] =
                          [unit |-> j.unit, pair |-> j.pair, archived |-> FALSE]]
          /\ Compose(w, t, j.sender, j.event, clock)
    /\ UNCHANGED <<messages, lastRead, shown, bells>>

\* post_to_thread, upload_attachment and, with an event, book_inspection.
PostToThread(w, t, sender, event) ==
    /\ Ready(w, IF event = None THEN "post" ELSE "book_inspection")
    /\ Open(t) /\ sender \in thread[t].pair
    /\ Tick
    /\ Compose(w, t, sender, event, clock)
    /\ UNCHANGED <<thread, messages, lastRead, shown, bells>>

\* The commit of append_message.
AppendMessage(w) ==
    LET j == job[w] IN
    /\ pc[w] = "append"
    /\ Len(messages) < MaxMessages
    /\ messages' = Append(messages, [thread |-> j.thread, sender |-> j.sender,
                                     event |-> None, at |-> j.at])
    /\ Goto(w, "notify", [thread |-> j.thread, sender |-> j.sender,
                          event |-> j.event, message |-> Len(messages) + 1])
    /\ UNCHANGED <<thread, lastRead, shown, bells, clock>>

Recipients(j) == thread[j.thread].pair \ {j.sender}

\* _notify_message_recipients, in a commit of its own.
NotifyRecipients(w) ==
    LET j == job[w] IN
    /\ pc[w] = "notify"
    /\ bells' = bells \cup (Recipients(j) \X {j.message})
    /\ IF j.event = None THEN Respond(w) ELSE Goto(w, "system", j)
    /\ UNCHANGED <<thread, messages, lastRead, shown, clock>>

Announced(t, event) ==
    /\ Len(messages) < MaxMessages
    /\ messages' = Append(messages, [thread |-> t, sender |-> None,
                                     event |-> event, at |-> clock])

PostSystemMessage(w) ==
    /\ pc[w] = "system"
    /\ Announced(job[w].thread, job[w].event)
    /\ Respond(w)
    /\ UNCHANGED <<thread, lastRead, shown, bells, clock>>

StartCallSession(t, u) ==
    /\ Served("call_session")
    /\ Open(t) /\ u \in thread[t].pair
    /\ Announced(t, "call_started")
    /\ UNCHANGED <<requests, thread, lastRead, shown, bells, clock>>

-----------------------------------------------------------------------------
(* Reading.                                                                *)

\* mark_thread_read, and then for list_messages the load of what is shown.
MarkThreadRead(w, t, u) ==
    /\ Ready(w, "list_messages")
    /\ Open(t) /\ u \in thread[t].pair
    /\ Tick
    /\ lastRead' = [lastRead EXCEPT ![t][u] = clock]
    /\ Goto(w, "show", [thread |-> t, user |-> u])
    /\ UNCHANGED <<thread, messages, shown, bells>>

ListMessages(w) ==
    LET j == job[w] IN
    /\ pc[w] = "show"
    /\ shown' = [shown EXCEPT ![j.user] =
                   @ \cup {m \in Stored : messages[m].thread = j.thread}]
    /\ Respond(w)
    /\ UNCHANGED <<thread, messages, lastRead, bells, clock>>

\* POST .../read, by a client that shows what it has loaded.
MarkRead(t, u) ==
    /\ Served("mark_read")
    /\ Open(t) /\ u \in thread[t].pair
    /\ Tick
    /\ lastRead' = [lastRead EXCEPT ![t][u] = clock]
    /\ shown' = [shown EXCEPT ![u] = @ \cup {m \in Stored : messages[m].thread = t}]
    /\ UNCHANGED <<requests, thread, messages, bells>>

ArchiveThread(t, u, archived) ==
    /\ Served("archive")
    /\ Open(t) /\ u \in thread[t].pair
    /\ thread' = [thread EXCEPT ![t].archived = archived]
    /\ UNCHANGED <<requests, messages, lastRead, shown, bells, clock>>

\* Mutant: one's own messages are counted.
UnreadOfAll(t, u) ==
    {m \in Stored : /\ messages[m].thread = t /\ FromUser(m)
                    /\ messages[m].at > lastRead[t][u]}

\* _unread_count counts these.
Unread(t, u) == {m \in UnreadOfAll(t, u) : messages[m].sender # u}

\* list_threads_for_user: the folder a thread is listed in.
Folder(t) == IF thread[t].archived THEN "archived" ELSE "inbox"

MessagesNext ==
    \/ \E w \in Workers, p \in People, u \in Units : StartFromUnit(w, p, u)
    \/ \E w \in Workers, t \in Threads, p \in People :
          \/ PostToThread(w, t, p, None)
          \/ PostToThread(w, t, p, "inspection_requested")
          \/ MarkThreadRead(w, t, p)
    \/ \E t \in Threads, p \in People :
          \/ StartCallSession(t, p)
          \/ MarkRead(t, p)
          \/ ArchiveThread(t, p, TRUE)
          \/ ArchiveThread(t, p, FALSE)
    \/ \E w \in Workers :
          \/ EnsureThread(w)
          \/ OpenThread(w)
          \/ AppendMessage(w)
          \/ NotifyRecipients(w)
          \/ PostSystemMessage(w)
          \/ ListMessages(w)
          \/ Die(w) /\ UNCHANGED messageVars

-----------------------------------------------------------------------------
(* What two participants may rely on when requests come one at a time.     *)

\* Two people have one thread about a unit (ensure_thread).
OneThreadPerConversation ==
    ~load.overlap =>
        \A t, s \in Threads :
            t # s /\ Open(t) /\ Open(s) =>
                <<thread[t].unit, thread[t].pair>> # <<thread[s].unit, thread[s].pair>>

\* The badge counts the messages of the other that one has not been shown, no
\* more and no fewer, unless a request dies when it has marked the thread read
\* and shown nothing (_unread_count against list_messages).
UnreadIsUnshown ==
    ~load.overlap /\ ~load.fails =>
        \A t \in Threads : \A u \in thread[t].pair :
            ~(\E w \in Workers : pc[w] = "show") =>
                Unread(t, u) = {m \in Stored \ shown[u] :
                                  /\ messages[m].thread = t
                                  /\ messages[m].sender \notin {u, None}}

\* A thread says once that it was opened, and after somebody wrote in it,
\* even if requests die (start_from_unit).
ThreadsOpenOnce ==
    ~load.overlap =>
        \A m \in Stored :
            messages[m].event = "thread_opened" =>
                /\ \E n \in 1 .. m - 1 : messages[n].thread = messages[m].thread /\ FromUser(n)
                /\ \A n \in Stored \ {m} :
                     messages[n].event = "thread_opened" => messages[n].thread # messages[m].thread

\* Overlapping or not, a message that was answered has told its recipient and
\* nobody else, unless the request died (_notify_message_recipients).
RecipientsAreTold ==
    /\ \A b \in bells : /\ b[1] \in thread[messages[b[2]].thread].pair
                        /\ b[1] # messages[b[2]].sender
    /\ (~load.fails /\ \A w \in Workers : ~Busy(w)) =>
          \A m \in Stored : FromUser(m) =>
              \A u \in thread[messages[m].thread].pair \ {messages[m].sender} :
                  <<u, m>> \in bells

\* Two people have one conversation about a unit, which says once that it was
\* opened (ensure_thread, start_from_unit).
ConversationsAreOne == OneThreadPerConversation /\ ThreadsOpenOnce

\* A message reaches its recipient's bell, and counts as unread until it is
\* shown (_notify_message_recipients, _unread_count).
MessagesArrive == RecipientsAreTold /\ UnreadIsUnshown
=============================================================================
