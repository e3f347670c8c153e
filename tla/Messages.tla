------------------------------ MODULE Messages ------------------------------
(***************************************************************************)
(* The messages service (messages/internal): messages of a project, their  *)
(* threads, notifications, worker packets and completion packets, the read *)
(* marks of each agent and the readers that wait for what they have not    *)
(* read.  Projects and tasks are other services that may refuse.           *)
(*                                                                         *)
(* An insert draws its id when it runs and shows its row when it commits,  *)
(* so ids may appear out of order.  A message keeps what readers and       *)
(* packets tell apart: who sent it, on which task and thread, what kind it *)
(* is, the review packet it stands for and when it was built.              *)
(***************************************************************************)
EXTENDS Integers, FiniteSets, FiniteSetsExt

CONSTANTS
    Talkers,        \* agents that send
    Waiters,        \* agents that read
    Sends,          \* calls that create a message, numbered as they arrive
    PageLimit,      \* the limit readers ask for
    KeepsCursor     \* agents that ask for ids after the last one they saw

\* "anyone" is a reader that is not named.
ASSUME MessagesAssumption ==
    IsFiniteSet(Sends) /\ Sends = 1..Cardinality(Sends) /\ "anyone" \notin Waiters

VARIABLES
    mail,       \* den_messages.messages by id
    lastMailId, \* the id sequence
    marks,      \* den_messages.message_reads: pairs of id and agent
    sends,      \* the calls that create a message
    inbox       \* what each waiting agent was given, and its cursor

messageVars == <<mail, lastMailId, marks, sends, inbox>>

-----------------------------------------------------------------------------

MailIds == Sends

\* Tasks 0 is none; threads are ids; packet 0 is none.
NoMail == [by |-> "none", task |-> 0, thread |-> 0, intent |-> "none", schema |-> "none",
           packet |-> 0, at |-> 0]

MessagesTypeOK ==
    /\ \A i \in MailIds : mail[i] # NoMail =>
          mail[i].by \in Talkers /\ i <= lastMailId /\ mail[i].thread < i
    /\ marks \subseteq {i \in MailIds : mail[i] # NoMail} \X Waiters
    /\ \A c \in Sends : sends[c].pc \in {"idle", "built", "insert", "conflict",
                                        "done", "failed"}
    /\ \A r \in Waiters : inbox[r].got \subseteq MailIds /\ inbox[r].cursor \in 0..Cardinality(Sends)

MessagesInit ==
    /\ mail = [i \in MailIds |-> NoMail]
    /\ lastMailId = 0
    /\ marks = {}
    /\ sends = [c \in Sends |-> [pc |-> "idle", m |-> NoMail, id |-> 0]]
    /\ inbox = [r \in Waiters |-> [got |-> {}, cursor |-> 0]]

-----------------------------------------------------------------------------
(* What a message is                                                         *)

\* What the type in the metadata says when the sender names no intent.
normalizeIntent(type) ==
    CASE type = "worker_packet" -> "handoff"
      [] type = "completion" -> "handoff"
      [] type = "review_request_packet" -> "review_request"
      [] type = "notification" -> "notification"
      [] OTHER -> "general"

\* NewMessage: a message of one of the types a caller sends.
NewMessage(by, task, thread, type, packet) ==
    [by |-> by, task |-> task, thread |-> thread, intent |-> normalizeIntent(type),
     schema |-> type, packet |-> packet, at |-> 0]

\* What the handlers hand to the service: plain messages and replies,
\* notifications, and the review service's packet, which names the review
\* packet it stands for and may be sent again.
SendMessageRequests ==
       {NewMessage(by, 0, 0, "general", 0) : by \in Talkers}
  \cup {NewMessage(by, 0, Min(MailIds), "general", 0) : by \in Talkers \ Waiters}
  \cup {NewMessage(by, 1, 0, "notification", 0) : by \in Talkers \ Waiters}
  \cup {NewMessage(by, 1, 0, "review_request_packet", 1) : by \in Talkers \ Waiters}

CreateContextPacketRequests ==
    {NewMessage(by, 1, 0, "worker_packet", 0) : by \in Talkers \ Waiters}

Newer(i, j) == mail[i].at > mail[j].at \/ (mail[i].at = mail[j].at /\ i > j)

\* order by created_at desc, id desc limit n
Page(S, n) == {i \in S : Cardinality({j \in S : Newer(j, i)}) < n}

Present == {i \in MailIds : mail[i] # NoMail}

-----------------------------------------------------------------------------
(* Sending                                                                   *)

SendBecomes(c, pc) == sends' = [sends EXCEPT ![c].pc = pc]

SendOnly == UNCHANGED <<mail, lastMailId, marks, inbox>>

\* buildMessage: a thread must be a message on the same task; the message is
\* dated before it is inserted.
buildMessage(m) ==
    IF m.thread # 0 /\ (m.thread \notin Present \/ mail[m.thread].task # m.task)
    THEN NoMail
    ELSE [m EXCEPT !.at = 1 + Cardinality({d \in Sends : sends[d].m.at # 0})]

\* The projects and tasks services may refuse the scope or the task.
AssertWritable(m) == {m, NoMail}

SendMessage(c, m) ==
    /\ sends[c].pc = "idle" /\ \A d \in Sends : d < c => sends[d].pc # "idle"
    /\ \E built \in AssertWritable(buildMessage(m)) :
          sends' = [sends EXCEPT ![c] =
              [pc |-> IF built = NoMail THEN "failed" ELSE "built", m |-> built, id |-> 0]]
    /\ SendOnly

SamePacket(c, d) == sends[c].m.packet # 0 /\ sends[c].m.packet = sends[d].m.packet

\* Mutant: no unique index on the review packet id.
InsertAnyway(c) ==
    /\ sends[c].pc = "built"
    /\ lastMailId' = lastMailId + 1
    /\ sends' = [sends EXCEPT ![c].pc = "insert", ![c].id = lastMailId + 1]
    /\ UNCHANGED <<mail, marks, inbox>>

\* CreateMessage draws an id and inserts; an insert of the same review packet
\* that has not committed makes it wait, one that has makes it do nothing.
InsertMessage(c) ==
    /\ sends[c].pc = "built"
    /\ ~\E d \in Sends : sends[d].pc = "insert" /\ SamePacket(c, d)
    /\ lastMailId' = lastMailId + 1
    /\ LET s == sends[c] IN
       sends' = [sends EXCEPT ![c] =
          IF \E i \in Present : mail[i].packet = s.m.packet /\ s.m.packet # 0
          THEN [s EXCEPT !.pc = "conflict"]
          ELSE [s EXCEPT !.pc = "insert", !.id = lastMailId + 1]]
    /\ UNCHANGED <<mail, marks, inbox>>

CommitMessage(c) ==
    /\ sends[c].pc = "insert"
    /\ mail' = [mail EXCEPT ![sends[c].id] = sends[c].m]
    /\ SendBecomes(c, "done")
    /\ UNCHANGED <<lastMailId, marks, inbox>>

\* getMessageByReviewPacketSQL: the message that was there first.
GetMessageByReviewPacket(c) ==
    /\ sends[c].pc = "conflict"
    /\ \E i \in Present : /\ mail[i].packet = sends[c].m.packet
                          /\ sends' = [sends EXCEPT ![c].pc = "done", ![c].id = i]
    /\ SendOnly

-----------------------------------------------------------------------------
(* Reading                                                                   *)

Unread(r) == {i \in Present : mail[i].by # r /\ <<i, r>> \notin marks}

UnreadCount(r, cursor) == Cardinality({i \in Unread(r) : i > cursor})

\* Mutant: an agent has read everything up to the last message it marked.
UnreadAfterLastMark(r, cursor, limit) ==
    Page({i \in Unread(r) : \A j \in MailIds : <<j, r>> \in marks => i > j}, limit)

UnreadAfterCursor(r, cursor, limit) == Page({i \in Unread(r) : i > cursor}, limit)

ListMessages(task, unreadFor, limit) ==
    Page({i \in Present : /\ task = 0 \/ mail[i].task = task
                          /\ unreadFor \in Waiters => i \in Unread(unreadFor)}, limit)

\* Read or unread for one agent; what an agent sent itself is unread to it
\* until it is marked.
ListNotifications(r, isRead) ==
    {i \in Present : mail[i].intent = "notification" /\ (<<i, r>> \in marks) = isRead}

LatestTaskPacket(task) ==
    Page({i \in Present : mail[i].task = task /\ mail[i].schema = "worker_packet"}, 1)

LatestCompletion(task) ==
    Page({i \in Present : mail[i].task = task /\ mail[i].schema = "completion"}, 1)

\* One turn of the polling loop that finds something; one that does not
\* sleeps, and after the timeout the answer is that there is nothing new.
WaitForMessages(r) ==
    LET found == UnreadAfterCursor(r, inbox[r].cursor, PageLimit) IN
    /\ inbox[r].got = {} /\ found # {}
    /\ inbox' = [inbox EXCEPT ![r].got = found]
    /\ UNCHANGED <<mail, lastMailId, marks, sends>>

\* The agent marks what it was given and, if it keeps a cursor, moves it to
\* the highest id.
MarkRead(r) ==
    /\ inbox[r].got # {}
    /\ marks' = marks \cup (inbox[r].got \X {r})
    /\ inbox' = [inbox EXCEPT ![r] =
          [got |-> {}, cursor |-> IF r \in KeepsCursor THEN Max(@.got) ELSE 0]]
    /\ UNCHANGED <<mail, lastMailId, sends>>

\* Notifications by id, of the project or of a task; other messages stay.
MarkNotificationsRead(r, task) ==
    LET shown == {i \in ListNotifications(r, FALSE) : task = 0 \/ mail[i].task = task} IN
    /\ shown # {}
    /\ marks' = marks \cup (shown \X {r})
    /\ UNCHANGED <<mail, lastMailId, sends, inbox>>

\* A completion packet and a context packet are messages of their own; the
\* context packet is built from the task and its last messages.
AppendCompletionPacket(c, r) == SendMessage(c, NewMessage(r, 1, 0, "completion", 0))

CreateContextPacket(c) == \E m \in CreateContextPacketRequests : SendMessage(c, m)

-----------------------------------------------------------------------------

Sending(c) ==
    \/ InsertMessage(c) \/ CommitMessage(c) \/ GetMessageByReviewPacket(c)

Calling(c) ==
    \/ \E m \in SendMessageRequests : SendMessage(c, m)
    \/ CreateContextPacket(c)
    \/ \E r \in Talkers \ Waiters : AppendCompletionPacket(c, r)

MessagesNext ==
    \/ \E c \in Sends : Calling(c) \/ Sending(c)
    \/ \E r \in Waiters :
          \/ WaitForMessages(r) \/ MarkRead(r)
          \/ \E task \in {0, 1} : MarkNotificationsRead(r, task)

MessagesSpec == MessagesInit /\ [][MessagesNext]_messageVars

\* Agents go on waiting and marking; nothing is asked of the senders.
MessagesFairness ==
    \A r \in Waiters : /\ WF_messageVars(WaitForMessages(r))
                       /\ WF_messageVars(MarkRead(r))

FairMessagesSpec == MessagesSpec /\ MessagesFairness

-----------------------------------------------------------------------------
(* Properties *)

\* A caller that has its answer finds what it sent, whatever commits before or
\* after: a review packet sent again, at the same time or after a lost answer,
\* is one message and every caller is given that one; the packet a worker is
\* given is not an older one; and nobody's message is missing from another's
\* unread count (CreateMessage and the queries of messages/internal/store.go:34).
SentIsFound ==
    /\ MessagesTypeOK
    /\ \A c \in Sends : sends[c].pc = "done" =>
        LET m == sends[c].m
            latest == LatestTaskPacket(m.task) \cup LatestCompletion(m.task)
        IN
        /\ sends[c].id \in ListMessages(m.task, "anyone", Cardinality(Sends))
        /\ \A d \in Sends : sends[d].pc = "done" /\ SamePacket(c, d) => sends[c].id = sends[d].id
        /\ m.schema \in {"worker_packet", "completion"} =>
              \E i \in latest : mail[i].schema = m.schema /\ mail[i].at >= m.at
        /\ \A r \in Waiters : m.by # r /\ <<sends[c].id, r>> \notin marks => UnreadCount(r, 0) > 0

\* Whatever order messages become visible in, an agent that waits without a
\* cursor comes to mark every message others sent (WaitForMessages,
\* messages/internal/service.go:102).
UnreadIsShown ==
    \A r \in Waiters \ KeepsCursor, i \in MailIds :
        i \in Unread(r) ~> <<i, r>> \in marks

=============================================================================
