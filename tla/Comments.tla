------------------------------ MODULE Comments ------------------------------
(***************************************************************************)
(* The comments of one task: CommentsService, up to the notifications of   *)
(* module Inbox.                                                           *)
(*                                                                         *)
(* Comments are numbered in the order of createdAt, and lastReadAt is the  *)
(* number of comments at that time.  The answer of create leaves before    *)
(* emitTaskCommented reads the task; the slot stays taken until it has     *)
(* handed the event over.  Who is assigned does not change meanwhile.      *)
(***************************************************************************)
EXTENDS Inbox

CONSTANTS
    Authors,        \* bound: those who comment
    Audience,       \* the assignees of the task and its creator
    MaxComments     \* bound: rows of the table

\* Who comments and who is told are users.
ASSUME AuthorsAssumption == Authors \subseteq People /\ Audience \subseteq People

VARIABLES
    comments,   \* comments[c] : the row of comment c
    lastRead,   \* lastRead[u] : the row of u in task_comment_reads
    shown       \* shown[u] : the comments that an answer has shown to u

commentVars == <<comments, lastRead, shown>>

NeverRead == [row |-> FALSE, upTo |-> 0]

CommentsInit ==
    /\ comments = <<>>
    /\ lastRead = [u \in People |-> NeverRead]
    /\ shown = [u \in People |-> {}]

LiveComments == {c \in DOMAIN comments : comments[c].live}
Today == Len(comments)

\* What a handler that marks the task as read does next: announce the comment
\* that it inserted, or show the ones that it read.
Marking(u, comment, read) ==
    [event |-> 0, user |-> u, comment |-> comment, read |-> read, upTo |-> 0]

CreateComment(r, u) ==
    /\ Len(comments) < MaxComments
    /\ comments' = Append(comments, [by |-> u, live |-> TRUE])
    /\ Receive(r, "mark.find", Marking(u, Len(comments) + 1, {}))
    /\ UNCHANGED <<lastRead, shown>>

\* Mutant: only the first comment is read.
ListComments_First(r, u) ==
    /\ Receive(r, "mark.find", Marking(u, 0, LiveComments \cap {1}))
    /\ UNCHANGED commentVars

ListComments(r, u) ==
    /\ Receive(r, "mark.find", Marking(u, 0, LiveComments))
    /\ UNCHANGED commentVars

\* markAsRead takes the time before it saves a row that it found; the column's
\* default is the time of the insertion.
FindMark(r) ==
    LET my == My(r)
    IN  /\ Awaits(r, "mark.find")
        /\ IF lastRead[my.user].row
           THEN Await(r, "mark.save", [my EXCEPT !.upTo = Today])
           ELSE AwaitNext(r, "mark.insert")
        /\ UNCHANGED commentVars

\* Mutant: the handler ends with the mark.
Marked_Silent(r) ==
    LET my == My(r)
    IN  /\ shown' = [shown EXCEPT ![my.user] = @ \cup my.read]
        /\ Answer(r)

Marked(r) ==
    LET my == My(r)
    IN  IF my.comment # 0
        THEN AwaitNext(r, "comment.task") /\ UNCHANGED shown
        ELSE /\ shown' = [shown EXCEPT ![my.user] = @ \cup my.read]
             /\ Answer(r)

SaveMark(r) ==
    /\ Awaits(r, "mark.save")
    /\ lastRead' = [lastRead EXCEPT ![My(r).user].upTo = My(r).upTo]
    /\ Marked(r)
    /\ UNCHANGED comments

\* The pair of user and task is unique: the loser of a race answers with an
\* error, and the comment that it has inserted is not announced.
InsertMark(r) ==
    LET u == My(r).user
    IN  /\ Awaits(r, "mark.insert")
        /\ IF lastRead[u].row
           THEN Answer(r) /\ UNCHANGED <<lastRead, shown>>
           ELSE lastRead' = [lastRead EXCEPT ![u] = [row |-> TRUE, upTo |-> Today]] /\ Marked(r)
        /\ UNCHANGED comments

\* emitTaskCommented and handleTaskCommented: everybody on the task but the author.
EmitTaskCommented(r) ==
    LET my == My(r)
    IN  /\ Awaits(r, "comment.task")
        /\ Announce("task_commented", Audience \ {my.user}, my.comment, {r})
        /\ UNCHANGED commentVars

EditComment(r, u, c) ==
    /\ c \in LiveComments /\ comments[c].by = u
    /\ Receive(r, "comment.save", [event |-> 0, id |-> c])
    /\ UNCHANGED commentVars

\* The entity was live when it was read.
SaveComment(r) ==
    /\ Awaits(r, "comment.save")
    /\ comments' = [comments EXCEPT ![My(r).id].live = TRUE]
    /\ Answer(r)
    /\ UNCHANGED <<lastRead, shown>>

RemoveComment(r, u, c) ==
    /\ c \in LiveComments /\ comments[c].by = u
    /\ Receive(r, "comment.remove", [event |-> 0, id |-> c])
    /\ UNCHANGED commentVars

SoftDeleteComment(r) ==
    /\ Awaits(r, "comment.remove")
    /\ comments' = [comments EXCEPT ![My(r).id].live = FALSE]
    /\ Answer(r)
    /\ UNCHANGED <<lastRead, shown>>

CommentCalls(r) ==
    \/ FindMark(r) \/ SaveMark(r) \/ InsertMark(r)
    \/ SaveComment(r) \/ SoftDeleteComment(r)

CommentsNext ==
    \E r \in Slots :
        \/ /\ \/ \E u \in Authors :
                    \/ CreateComment(r, u)
                    \/ \E c \in DOMAIN comments : EditComment(r, u, c) \/ RemoveComment(r, u, c)
              \/ \E u \in People : ListComments(r, u)
              \/ CommentCalls(r)
           /\ UNCHANGED <<events, prefs, off, noticeVars>>
        \/ EmitTaskCommented(r)
        \/ InboxCalls(r) /\ UNCHANGED commentVars

NewsVars == <<calls, events, prefs, off, noticeVars, commentVars>>

\* The comments and the notifications together.
NewsSpec ==
    /\ HandlersInit /\ InboxInit /\ CommentsInit
    /\ [][(InboxNext /\ UNCHANGED commentVars) \/ CommentsNext]_NewsVars

-----------------------------------------------------------------------------
\* The tasks service takes a comment for unread if it is newer than lastReadAt.
UnreadFor(u) == {c \in LiveComments : ~lastRead[u].row \/ c > lastRead[u].upTo}

Announcing == {My(r).comment : r \in {s \in Slots : InFlight(s) /\ Awaits(s, "comment.task")}}
Announced == {events[e].about : e \in DOMAIN events}
BeingMarked == {My(r).comment : r \in {s \in Slots : calls[s].at \in {"mark.find", "mark.save", "mark.insert"}}}

Unannounced(u) == {c \in DOMAIN comments :
    comments[c].by = u /\ c \notin Announced \cup Announcing \cup BeingMarked}

\* Every comment is announced, and no comment twice, although the announcement
\* hangs on a mark in another table: a person's handlers can lose the race for
\* that row only once, one comment less than can be under way.
CommentsAnnounced ==
    /\ \A u \in People : Cardinality(Unannounced(u)) < Cardinality(Slots)
    /\ \A d, e \in DOMAIN events : events[d].about = events[e].about /\ events[d].about # 0 => d = e

\* The tasks service counts a comment of somebody else as read only if it was
\* shown, unless one was written between the query and the mark of a listing,
\* or the reader wrote a comment too: both mark all that is there.
Hidden(u) == {c \in LiveComments \ (UnreadFor(u) \cup shown[u]) : comments[c].by # u}

ListingsHideNothing ==
    [][\A u \in People :
          Hidden(u)' \subseteq Hidden(u) \/ Raced
          \/ \E r \in Slots : "comment" \in DOMAIN My(r) /\ My(r).comment # 0 /\ My(r).user = u
      ]_<<calls, commentVars>>
=============================================================================
