-------------------------------- MODULE Inbox --------------------------------
(***************************************************************************)
(* The notifications of people in the application: the handlers of         *)
(* NotificationEventsService for the events that other services emit, the  *)
(* preferences, and what people do with their notifications.               *)
(*                                                                         *)
(* Nobody awaits the delivery of an event; like a request it occupies a    *)
(* slot of `calls' while it waits for the database.  What is pushed to     *)
(* browsers is left out, and so is e-mail, which shouldSendNotification    *)
(* never asks for.  handleOrgMemberAdded, handleOrgInvitationReceived and  *)
(* handlePasswordChanged are left out because nothing emits their events.  *)
(***************************************************************************)
EXTENDS Handlers

CONSTANTS
    People,
    Mutings,    \* bound: what people switch off, of their categories and "inApp"
    Toggled,    \* bound: the types of events that administrators switch
    MaxEvents   \* bound: events, and notifications that administrators create

VARIABLES
    events,     \* events[e] : what event e is about, and whom it concerns
    prefs,      \* prefs[u] : the row of u's preferences
    off,        \* the types of events that configCache says are off
    notices,    \* notices[n] : the row of notification n
    withheld,   \* <<e, u>> : deliveries that a switch or a preference stopped
    missed      \* <<e, u>> : deliveries that ended with an exception

noticeVars == <<notices, withheld, missed>>
InboxVars == <<calls, events, prefs, off, noticeVars>>

NoPrefs == [row |-> FALSE, muted |-> {}]

InboxInit ==
    /\ events = <<>>
    /\ prefs = [u \in People |-> NoPrefs]
    /\ off = {}
    /\ notices = <<>>
    /\ withheld = {} /\ missed = {}

-----------------------------------------------------------------------------
(* Preferences.                                                            *)

\* Mutant: the look-up misses the row.
PrefsFound_Never(u) == FALSE

PrefsFound(u) == prefs[u].row

\* getOrCreatePreferences looks for the row, inserts it if there is none, and
\* gives `have' the preferences that it returns.
FindPrefs(r, have) ==
    LET my == My(r)
    IN  /\ Awaits(r, "prefs.find")
        /\ IF PrefsFound(my.user)
           THEN Await(r, have, [my EXCEPT !.muted = prefs[my.user].muted])
           ELSE AwaitNext(r, "prefs.insert")
        /\ UNCHANGED prefs

\* userId is unique.
InsertPrefs(r, have) ==
    LET my == My(r)
    IN  /\ Awaits(r, "prefs.insert")
        /\ ~prefs[my.user].row
        /\ prefs' = [prefs EXCEPT ![my.user].row = TRUE]
        /\ Await(r, have, [my EXCEPT !.muted = {}])

PrefsCollide(r) == Awaits(r, "prefs.insert") /\ prefs[My(r).user].row /\ UNCHANGED prefs

OnPreferences(r) == InFlight(r) /\ My(r).event = 0

\* getPreferences and updatePreferences, up to `then'.
AskPreferences(r, u, wanted, then) ==
    /\ Receive(r, "prefs.find", [event |-> 0, user |-> u, muted |-> {},
                                 wanted |-> wanted, then |-> then])
    /\ UNCHANGED <<events, prefs, off, noticeVars>>

GetPreferences(r, u) == AskPreferences(r, u, {}, "prefs.return")
UpdatePreferences(r, u, muted) == AskPreferences(r, u, muted, "prefs.save")

PreparePreferences(r) ==
    /\ OnPreferences(r)
    /\ \/ FindPrefs(r, My(r).then)
       \/ InsertPrefs(r, My(r).then)
       \/ PrefsCollide(r) /\ Answer(r)
    /\ UNCHANGED <<events, off, noticeVars>>

ReturnPreferences(r) ==
    /\ Awaits(r, "prefs.return")
    /\ Answer(r)
    /\ UNCHANGED <<events, prefs, off, noticeVars>>

SavePreferences(r) ==
    /\ Awaits(r, "prefs.save")
    /\ prefs' = [prefs EXCEPT ![My(r).user].muted = My(r).wanted]
    /\ Answer(r)
    /\ UNCHANGED <<events, off, noticeVars>>

-----------------------------------------------------------------------------
(* Deliveries.                                                             *)

TaskTypes == {"task_assigned", "task_unassigned", "task_status_changed", "task_completed",
              "task_commented", "subtask_created"}
ProjectTypes == {"project_member_added", "project_member_removed"}

\* getCategoryForType, for the types that the backend creates.
Category(type) == IF type \in TaskTypes THEN "tasks"
                  ELSE IF type \in ProjectTypes THEN "projects"
                  ELSE "announcements"

\* The channel as a whole and the category must be on.  The channel e-mail is
\* off for every category.
ShouldSend(category, muted) == muted \cap {"inApp", category} = {}

Delivery(e, u, category) ==
    [event |-> e, user |-> u, category |-> category, muted |-> {}]

Deliver(place, users, from, e, category) ==
    calls' = [r \in Slots |->
               IF \E u \in users : place[u] = r
               THEN [at |-> "prefs.find", alone |-> FALSE,
                     my |-> Delivery(e, CHOOSE u \in users : place[u] = r, category)]
               ELSE IF r \in from THEN Free ELSE Overlapped(r)]

\* An event: createAndPush of each recipient, all at once.  `from' are the
\* slots that the emitter leaves to its deliveries.
Announce(type, users, about, from) ==
    /\ Len(events) < MaxEvents
    /\ events' = Append(events, [about |-> about, to |-> users])
    /\ LET e == Len(events) + 1
       IN  IF type \in off
           THEN /\ withheld' = withheld \cup {<<e, u>> : u \in users}
                /\ calls' = [r \in Slots |-> IF r \in from THEN Free ELSE calls[r]]
           ELSE /\ withheld' = withheld
                /\ \E place \in [users -> {r \in Slots : ~InFlight(r)} \cup from] :
                      /\ \A u, v \in users : place[u] = place[v] => u = v
                      /\ Deliver(place, users, from, e, Category(type))
    /\ UNCHANGED <<prefs, off, notices, missed>>

CreateForEvent(r) ==
    LET my == My(r)
    IN  /\ ~OnPreferences(r)
        /\ \/ /\ FindPrefs(r, "notice.insert") \/ InsertPrefs(r, "notice.insert")
              /\ UNCHANGED missed
           \/ /\ PrefsCollide(r)
              /\ missed' = missed \cup {<<my.event, my.user>>}
              /\ Answer(r)
        /\ UNCHANGED <<events, off, notices, withheld>>

Notice(u, e) == [to |-> u, of |-> e, state |-> "unread"]

\* Mutant: where the push fails the delivery is tried again from the insertion.
InsertNotice_Again(r) ==
    LET my == My(r)
    IN  /\ Awaits(r, "notice.insert")
        /\ IF ShouldSend(my.category, my.muted)
           THEN notices' = Append(notices, Notice(my.user, my.event)) /\ UNCHANGED withheld
           ELSE withheld' = withheld \cup {<<my.event, my.user>>} /\ UNCHANGED notices
        /\ Answer(r) \/ AwaitNext(r, "notice.insert")
        /\ UNCHANGED <<events, prefs, off, missed>>

\* The category's preference, then the insertion.  The push and the count of
\* the unread that follow change no table.
InsertNotice(r) ==
    LET my == My(r)
    IN  /\ Awaits(r, "notice.insert")
        /\ IF ShouldSend(my.category, my.muted)
           THEN notices' = Append(notices, Notice(my.user, my.event)) /\ UNCHANGED withheld
           ELSE withheld' = withheld \cup {<<my.event, my.user>>} /\ UNCHANGED notices
        /\ Answer(r)
        /\ UNCHANGED <<events, prefs, off, missed>>

\* The events of tasks and projects and who is told of them.
TaskAssigned(u) == Announce("task_assigned", {u}, 0, {})
TaskUnassigned(u) == Announce("task_unassigned", {u}, 0, {})
TaskStatusChanged(actor, assignees) ==
    Announce("task_status_changed", assignees \ {actor}, 0, {})
TaskCompleted(actor, assignees) ==
    Announce("task_completed", assignees \ {actor}, 0, {})
SubtaskCreated(actor, assignees) ==
    Announce("subtask_created", assignees \ {actor}, 0, {})
ProjectMemberAdded(u) == Announce("project_member_added", {u}, 0, {})
ProjectMemberRemoved(u) == Announce("project_member_removed", {u}, 0, {})

\* An administrator's notification skips the switch of its type.
AdminCreates(r, u, type) ==
    /\ Len(events) < MaxEvents
    /\ events' = Append(events, [about |-> 0, to |-> {u}])
    /\ Receive(r, "prefs.find", Delivery(Len(events) + 1, u, Category(type)))
    /\ UNCHANGED <<prefs, off, noticeVars>>

-----------------------------------------------------------------------------
\* update saves the row and then sets the switch in the cache.  Deliveries read
\* the cache only, which is filled from the rows when the process starts.
SwitchEvent(type, enabled) ==
    /\ enabled <=> type \in off
    /\ off' = IF enabled THEN off \ {type} ELSE off \cup {type}
    /\ AtOnce
    /\ UNCHANGED <<events, prefs, noticeVars>>

-----------------------------------------------------------------------------
(* What people do with their notifications.                                *)

Exists(n) == n \in DOMAIN notices /\ notices[n].state # "gone"
Unread(u) == {n \in DOMAIN notices : notices[n].to = u /\ notices[n].state = "unread"}

\* Mutant: a notification that is gone is not told from one that is there.
ReadNotice_Unchecked(r, n) ==
    /\ n \in DOMAIN notices
    /\ Receive(r, "notice.save", [event |-> 0, id |-> n])
    /\ UNCHANGED <<events, prefs, off, noticeVars>>

ReadNotice(r, n) ==
    /\ Exists(n)
    /\ Receive(r, "notice.save", [event |-> 0, id |-> n])
    /\ UNCHANGED <<events, prefs, off, noticeVars>>

\* save inserts an entity whose row is gone.
SaveNotice(r) ==
    /\ Awaits(r, "notice.save")
    /\ notices' = [notices EXCEPT ![My(r).id].state = "read"]
    /\ Answer(r)
    /\ UNCHANGED <<events, prefs, off, withheld, missed>>

\* Handlers of one call: they leave some of the rows in another state.
Settle(ids, state) ==
    /\ ids # {}
    /\ notices' = [n \in DOMAIN notices |->
                      IF n \in ids THEN [notices[n] EXCEPT !.state = state] ELSE notices[n]]
    /\ AtOnce
    /\ UNCHANGED <<events, prefs, off, withheld, missed>>

MarkAllAsRead(u) == Settle(Unread(u), "read")
MarkManyAsRead(u, ids) == Settle(Unread(u) \cap ids, "read")
DeleteNotice(n) == Settle({m \in {n} : Exists(m)}, "gone")
DeleteAllRead(u) ==
    Settle({n \in DOMAIN notices : notices[n].to = u /\ notices[n].state = "read"}, "gone")

\* All notifications expire thirty days after their creation.
CleanExpired(n) == Settle({m \in 1..n : Exists(m)}, "gone")

-----------------------------------------------------------------------------
InboxCalls(r) ==
    \/ PreparePreferences(r) \/ SavePreferences(r) \/ ReturnPreferences(r)
    \/ CreateForEvent(r) \/ InsertNotice(r)
    \/ SaveNotice(r)

\* Events of other services, whoever caused them.
SomethingHappens ==
    \/ \E u \in People : \/ TaskAssigned(u) \/ TaskUnassigned(u)
                         \/ ProjectMemberAdded(u) \/ ProjectMemberRemoved(u)
    \/ \E actor \in People, assignees \in SUBSET People :
          \/ TaskStatusChanged(actor, assignees) \/ TaskCompleted(actor, assignees)
          \/ SubtaskCreated(actor, assignees)

InboxNext ==
    \/ SomethingHappens
    \/ \E r \in Slots :
          \/ \E u \in People : GetPreferences(r, u)
          \/ \E u \in People, muted \in Mutings : UpdatePreferences(r, u, muted)
          \/ \E u \in People : AdminCreates(r, u, "system_announcement")
          \/ \E n \in DOMAIN notices : ReadNotice(r, n)
          \/ InboxCalls(r)
    \/ \E u \in People :
          \/ MarkAllAsRead(u) \/ DeleteAllRead(u)
          \/ \E ids \in SUBSET DOMAIN notices : MarkManyAsRead(u, ids)
    \/ \E type \in Toggled, enabled \in BOOLEAN : SwitchEvent(type, enabled)
    \/ \E n \in DOMAIN notices : DeleteNotice(n) \/ CleanExpired(n)

-----------------------------------------------------------------------------
\* Over all time, one notification less than can race.
MissesBounded ==
    \A u \in People :
        Cardinality({e \in DOMAIN events : <<e, u>> \in missed}) < Cardinality(Slots)

Delivering(r) == calls[r].at \in {"prefs.find", "prefs.insert", "notice.insert"} /\ ~OnPreferences(r)
Deliveries == {<<My(r).event, My(r).user>> : r \in {s \in Slots : Delivering(s)}}

Notices(e, u) == {n \in DOMAIN notices : notices[n].of = e /\ notices[n].to = u}

ToldOnce ==
    \A e \in DOMAIN events, u \in People :
        /\ Cardinality(Notices(e, u)) <= 1
        /\ u \in events[e].to <=>
              \/ Notices(e, u) # {}
              \/ <<e, u>> \in withheld \cup missed \cup Deliveries

\* Whatever fails for one recipient, everybody whom an event concerns is told,
\* exactly once, unless a switch or a preference was against it or an exception
\* ended the delivery; and only handlers that race for the insertion of
\* somebody's preferences end with one.
EveryoneToldOnce == ToldOnce /\ MissesBounded

Rank == [unread |-> 1, read |-> 2, gone |-> 3]

\* What was read stays read and what was deleted stays deleted; only a handler
\* of markAsRead that read a row before another handler deleted it inserts it
\* again.
NoticesMoveForward ==
    [][\A n \in DOMAIN notices :
          \/ Rank[notices'[n].state] >= Rank[notices[n].state]
          \/ \E r \in Slots : Awaits(r, "notice.save") /\ My(r).id = n /\ ~calls[r].alone
      ]_InboxVars
=============================================================================
