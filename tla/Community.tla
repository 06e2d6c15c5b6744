------------------------------ MODULE Community ------------------------------
(***************************************************************************)
(* What the people of the estate do together: polls, chat rooms,           *)
(* announcements with likes and comments, support tickets and committees   *)
(* (src/apis/poll, chat, announcement, support-ticket, committee).         *)
(*                                                                         *)
(* Each of them is an item on which users leave rows: votes, messages,     *)
(* likes, memberships.  A request judges what it reads and writes one      *)
(* await later; between the two the item may have been closed, deleted or  *)
(* decided, or the same user may have sent the request again.              *)
(***************************************************************************)
EXTENDS FiniteSets, FiniteSetsExt, Sequences, SequencesExt, Integers, Server

CONSTANTS
    Residents, Guards, Admins,      \* User.role
    Participants,                   \* users who take part in the incident
    Neighbours,                     \* residents of the street
    Polls, Posts, Tickets, Committees,
    RoomIds,                        \* per type, the rooms that may be created
    MaxComments                     \* bound: comments on an announcement

Everyone == Residents \cup Guards \cup Admins
Rooms == UNION {RoomIds[k] : k \in DOMAIN RoomIds}
Items == Polls \cup Posts \cup Tickets \cup Committees \cup Rooms
Areas == {Polls, Posts, Tickets, Committees, Rooms}

VARIABLES
    area,           \* the items of this behaviour: one of Areas
    state,          \* NONE, OPEN, GONE; CLOSED, or how a ticket was decided
    rows,           \* users with a vote, message, like or membership
    restricted,     \* polls with audience LEVY_CLEARED_ONLY
    cleared,        \* residents with levyCleared
    comments,       \* rows of AnnouncementComment
    count,          \* Announcement.likesCount and commentsCount
    pinned,         \* announcements with isPinned
    timeline,       \* SupportTicketTimelineEntry.event, oldest first
    pos, req,       \* a request: position, arguments and what it has read
    granted,        \* history: entries judged before the item was closed
    lapsed,         \* history: users whose clearance changed meanwhile
    contested,      \* history: items and room types two requests were about
    torn,           \* history: announcements a count was not brought up to date
    flips           \* history: announcements turned an odd number of times,
                    \* being created pinned counted as a turn

content == <<state, rows, restricted, cleared, comments, count, pinned, timeline>>
history == <<granted, lapsed, contested, torn, flips>>
vars    == <<area, content, pos, req, history>>

States    == {"NONE", "OPEN", "CLOSED", "RESOLVED", "CANCELLED", "GONE"}
Places == {"idle", "ballot", "cast", "room", "write", "like", "unlike",
              "count", "pin", "decide", "join", "leave"}

NoRequest == [item |-> None, user |-> None, cleared |-> FALSE, held |-> FALSE,
              field |-> "likes", delta |-> 0, value |-> FALSE, outcome |-> "OPEN"]

Init ==
    /\ area \in Areas
    /\ state = [i \in Items |->
                  IF i \in area /\ "INCIDENT" \in DOMAIN RoomIds
                     /\ i \in RoomIds["INCIDENT"] THEN "OPEN" ELSE "NONE"]
    /\ rows = [i \in Items |-> {}]
    /\ restricted = {} /\ cleared = {}
    /\ comments = [a \in Posts |-> 0]
    /\ count = [a \in Posts |-> [likes |-> 0, comments |-> 0]]
    /\ pinned = {}
    /\ timeline = [i \in Tickets |-> <<>>]
    /\ pos = [t \in Threads |-> "idle"]
    /\ req = [t \in Threads |-> NoRequest]
    /\ granted = {} /\ lapsed = {} /\ contested = {} /\ torn = {} /\ flips = {}

-----------------------------------------------------------------------------
(* Requests. *)

(* Writes no unique key watches over. *)
Unkeyed == {"room", "pin", "decide"}

Busy(place) == {req[v].item : v \in {w \in Threads : pos[w] = place}}

Start(t, place, new) ==
    /\ pos[t] = "idle"
    /\ pos' = [pos EXCEPT ![t] = place]
    /\ req' = [req EXCEPT ![t] = new]
    /\ contested' = IF place \in Unkeyed
                    THEN contested \cup ({new.item} \cap Busy(place))
                    ELSE contested

GoTo(t, place, new) ==
    /\ pos' = [pos EXCEPT ![t] = place]
    /\ req' = [req EXCEPT ![t] = new]
    /\ UNCHANGED contested

Leave(t) == GoTo(t, "idle", NoRequest)

(* A refusal, a broken key, a row that is gone, an await that throws, the  *)
(* death of the process: the request ends where it is.                     *)
(* (Bound: a count of an announcement is left behind once.)                *)
Fail(t) ==
    /\ pos[t] # "idle"
    /\ pos[t] = "count" => req[t].item \notin torn
    /\ Leave(t)
    /\ torn' = IF pos[t] = "count" THEN torn \cup {req[t].item} ELSE torn
    /\ UNCHANGED <<area, content, granted, lapsed, flips>>

(* Rows with a unique key over item and user. *)
AddRow(i, u)  == u \notin rows[i] /\ rows' = [rows EXCEPT ![i] = @ \cup {u}]
DropRow(i, u) == rows' = [rows EXCEPT ![i] = @ \ {u}]

(* A row is deleted by the id that was read: a request that read a row     *)
(* which is gone finds nothing to delete, even if the user has a new one.  *)
Release(t, place, new) ==
    /\ pos' = [pos EXCEPT ![t] = place]
    /\ req' = [v \in Threads |->
                 IF v = t THEN new
                 ELSE IF /\ req[v].item = req[t].item
                         /\ req[v].user = req[t].user
                      THEN [req[v] EXCEPT !.held = FALSE]
                      ELSE req[v]]
    /\ UNCHANGED contested

Become(i, s) == state' = [state EXCEPT ![i] = s]

(* Deleting an item deletes its rows with it. *)
Delete(i) ==
    /\ i \in area /\ state[i] \in {"OPEN", "CLOSED"}
    /\ Become(i, "GONE")
    /\ rows' = [rows EXCEPT ![i] = {}]

(* What requests have judged when an item is closed. *)
Judged(i) == {<<i, req[v].user>> : v \in {w \in Threads :
                 req[w].item = i /\ pos[w] \in {"cast", "write"}}}

-----------------------------------------------------------------------------
(* Polls. *)

CreatePoll(p, levyOnly) ==
    /\ p \in area /\ state[p] = "NONE"
    /\ Become(p, "OPEN")
    /\ restricted' = IF levyOnly THEN restricted \cup {p} ELSE restricted
    /\ UNCHANGED <<area, rows, cleared, comments, count, pinned, timeline,
                   pos, req, history>>

(* vote reads the user with the resident's clearance, then the poll.       *)
BeginVote(t, u, p) ==
    /\ p \in area
    /\ Start(t, "ballot", [NoRequest EXCEPT !.item = p, !.user = u,
                                            !.cleared = u \in cleared])
    /\ UNCHANGED <<area, content, granted, lapsed, torn, flips>>

MayVote_Whenever(t) == req[t].item \in restricted => req[t].cleared

MayVote(t) ==
    /\ req[t].item \in restricted => req[t].cleared
    /\ state[req[t].item] = "OPEN"

JudgeVote(t) ==
    /\ pos[t] = "ballot" /\ MayVote(t)
    /\ req[t].user \notin rows[req[t].item]
    /\ GoTo(t, "cast", req[t])
    /\ UNCHANGED <<area, content, granted, lapsed, torn, flips>>

CastVote(t) ==
    /\ pos[t] = "cast" /\ state[req[t].item] \in {"OPEN", "CLOSED"}
    /\ AddRow(req[t].item, req[t].user)
    /\ Leave(t)
    /\ UNCHANGED <<area, state, restricted, cleared, comments, count, pinned,
                   timeline, granted, lapsed, torn, flips>>

(* closePoll; the time of expiresAt closes a poll in the same way.         *)
ClosePoll(p) ==
    /\ p \in area /\ state[p] = "OPEN"
    /\ Become(p, "CLOSED")
    /\ granted' = granted \cup Judged(p)
    /\ UNCHANGED <<area, rows, restricted, cleared, comments, count, pinned,
                   timeline, pos, req, lapsed, contested, torn, flips>>

DeletePoll(p) ==
    /\ Delete(p)
    /\ UNCHANGED <<area, restricted, cleared, comments, count, pinned, timeline,
                   pos, req, history>>

(* LevyClearance sets and takes back the flag. *)
ChangeClearance(u) ==
    /\ area = Polls
    /\ cleared' = IF u \in cleared THEN cleared \ {u} ELSE cleared \cup {u}
    /\ lapsed' = IF \E t \in Threads : req[t].user = u
                 THEN lapsed \cup {u} ELSE lapsed
    /\ UNCHANGED <<area, state, rows, restricted, comments, count, pinned,
                   timeline, pos, req, granted, contested, torn, flips>>

-----------------------------------------------------------------------------
(* Chat. *)

KindOf(r) == CHOOSE k \in DOMAIN RoomIds : r \in RoomIds[k]
Existing(k) == {r \in RoomIds[k] : state[r] # "NONE"}

(* ensureEstateRoom, ensureStreetRoom: look for a room of the type, create *)
(* one when there is none.                                                 *)
EnsureRoom(t, k) ==
    /\ area = Rooms /\ Existing(k) = {}
    /\ Start(t, "room", [NoRequest EXCEPT !.item = k])
    /\ UNCHANGED <<area, content, granted, lapsed, torn, flips>>

(* The default rooms whoever asks, the room of a street for its residents  *)
(* and for administrators.                                                 *)
BeginGetRooms(t, u, k) ==
    /\ k # "INCIDENT"
    /\ k = "STREET" => u \in Admins \cup Neighbours
    /\ EnsureRoom(t, k)

(* The message follows as a request of its own.                            *)
BeginBroadcast(t, u) == u \in Admins /\ EnsureRoom(t, "BROADCAST")

CreateRoom(t) ==
    /\ pos[t] = "room"
    /\ \E r \in RoomIds[req[t].item] \ Existing(req[t].item) : Become(r, "OPEN")
    /\ Leave(t)
    /\ UNCHANGED <<area, rows, restricted, cleared, comments, count, pinned,
                   timeline, granted, lapsed, torn, flips>>

CanAccess(u, k) ==
    \/ u \in Admins
    \/ k = "BROADCAST"
    \/ k = "STREET" /\ u \in Neighbours
    \/ k = "SECURITY" /\ u \in Guards
    \/ k = "INCIDENT" /\ u \in Participants

MayWrite(u, r) ==
    /\ CanAccess(u, KindOf(r))
    /\ state[r] = "OPEN"
    /\ KindOf(r) = "BROADCAST" => u \in Admins

BeginMessage(t, u, r) ==
    /\ r \in area /\ state[r] # "NONE" /\ MayWrite(u, r)
    /\ Start(t, "write", [NoRequest EXCEPT !.item = r, !.user = u])
    /\ UNCHANGED <<area, content, granted, lapsed, torn, flips>>

CreateMessage(t) ==
    /\ pos[t] = "write"
    /\ rows' = [rows EXCEPT ![req[t].item] = @ \cup {req[t].user}]
    /\ Leave(t)
    /\ UNCHANGED <<area, state, restricted, cleared, comments, count, pinned,
                   timeline, granted, lapsed, torn, flips>>

(* IncidentLifecycle closes the room of an incident.                       *)
CloseRoom(r) ==
    /\ r \in area /\ KindOf(r) = "INCIDENT" /\ state[r] = "OPEN"
    /\ Become(r, "CLOSED")
    /\ granted' = granted \cup Judged(r)
    /\ UNCHANGED <<area, rows, restricted, cleared, comments, count, pinned,
                   timeline, pos, req, lapsed, contested, torn, flips>>

-----------------------------------------------------------------------------
(* Announcements. *)

CreateAnnouncement(a, pin) ==
    /\ a \in area \cap Posts /\ state[a] = "NONE"
    /\ Become(a, "OPEN")
    /\ pinned' = IF pin THEN pinned \cup {a} ELSE pinned
    /\ flips' = IF pin THEN flips \cup {a} ELSE flips
    /\ UNCHANGED <<area, rows, restricted, cleared, comments, count, timeline,
                   pos, req, granted, lapsed, contested, torn>>

(* toggleLike deletes the like it finds and creates one it does not find.  *)
BeginToggle(t, u, a) ==
    /\ a \in area \cap Posts /\ state[a] = "OPEN"
    /\ LET liked == u \in rows[a]
       IN  Start(t, IF liked THEN "unlike" ELSE "like",
                 [NoRequest EXCEPT !.item = a, !.user = u, !.held = liked])
    /\ UNCHANGED <<area, content, granted, lapsed, torn, flips>>

AddLike(t) ==
    /\ pos[t] = "like" /\ state[req[t].item] = "OPEN"
    /\ AddRow(req[t].item, req[t].user)
    /\ GoTo(t, "count", [req[t] EXCEPT !.delta = 1])
    /\ UNCHANGED <<area, state, restricted, cleared, comments, count, pinned,
                   timeline, granted, lapsed, torn, flips>>

(* deleteMany in place of delete *)
DropLike_Many(t) ==
    /\ pos[t] = "unlike"
    /\ DropRow(req[t].item, req[t].user)
    /\ Release(t, "count", [req[t] EXCEPT !.delta = -1])
    /\ UNCHANGED <<area, state, restricted, cleared, comments, count, pinned,
                   timeline, granted, lapsed, torn, flips>>

DropLike(t) ==
    /\ pos[t] = "unlike" /\ req[t].held
    /\ DropRow(req[t].item, req[t].user)
    /\ Release(t, "count", [req[t] EXCEPT !.delta = -1])
    /\ UNCHANGED <<area, state, restricted, cleared, comments, count, pinned,
                   timeline, granted, lapsed, torn, flips>>

AddComment(t, u, a) ==
    /\ a \in area \cap Posts /\ state[a] = "OPEN" /\ comments[a] < MaxComments
    /\ comments' = [comments EXCEPT ![a] = @ + 1]
    /\ Start(t, "count", [NoRequest EXCEPT !.item = a, !.user = u,
                                           !.field = "comments", !.delta = 1])
    /\ UNCHANGED <<area, state, rows, restricted, cleared, count, pinned,
                   timeline, granted, lapsed, torn, flips>>

(* increment and decrement of likesCount or commentsCount: one UPDATE, but *)
(* not the one that wrote the row.                                         *)
Adjust(t) ==
    /\ pos[t] = "count" /\ state[req[t].item] = "OPEN"
    /\ count' = [count EXCEPT ![req[t].item][req[t].field] = @ + req[t].delta]
    /\ Leave(t)
    /\ UNCHANGED <<area, state, rows, restricted, cleared, comments, pinned,
                   timeline, granted, lapsed, torn, flips>>

BeginPin(t, a) ==
    /\ a \in area \cap Posts /\ state[a] = "OPEN"
    /\ Start(t, "pin", [NoRequest EXCEPT !.item = a, !.value = a \notin pinned])
    /\ UNCHANGED <<area, content, granted, lapsed, torn, flips>>

Pin(t) ==
    /\ pos[t] = "pin" /\ state[req[t].item] = "OPEN"
    /\ pinned' = IF req[t].value THEN pinned \cup {req[t].item}
                                 ELSE pinned \ {req[t].item}
    /\ flips' = SymDiff(flips, {req[t].item})
    /\ Leave(t)
    /\ UNCHANGED <<area, state, rows, restricted, cleared, comments, count,
                   timeline, granted, lapsed, torn>>

DeleteAnnouncement(a) ==
    /\ a \in Posts /\ Delete(a)
    /\ comments' = [comments EXCEPT ![a] = 0]
    /\ UNCHANGED <<area, restricted, cleared, count, pinned, timeline,
                   pos, req, history>>

-----------------------------------------------------------------------------
(* Support tickets. *)

Outcomes == {"RESOLVED", "CANCELLED"}

CreateTicket(i) ==
    /\ i \in area \cap Tickets /\ state[i] = "NONE"
    /\ Become(i, "OPEN")
    /\ timeline' = [timeline EXCEPT ![i] = <<"OPEN">>]
    /\ UNCHANGED <<area, rows, restricted, cleared, comments, count, pinned,
                   pos, req, history>>

(* resolve and cancel look at the status before the transaction that sets  *)
(* it and adds the entry.                                                  *)

Undecided(i) == state[i] = "OPEN"

BeginDecide(t, i, outcome) ==
    /\ i \in area \cap Tickets /\ state[i] # "NONE" /\ Undecided(i)
    /\ Start(t, "decide", [NoRequest EXCEPT !.item = i, !.outcome = outcome])
    /\ UNCHANGED <<area, content, granted, lapsed, torn, flips>>

BeginResolve(t, i) == BeginDecide(t, i, "RESOLVED")

BeginCancel(t, i) == BeginDecide(t, i, "CANCELLED")

Decide(t) ==
    /\ pos[t] = "decide"
    /\ Become(req[t].item, req[t].outcome)
    /\ timeline' = [timeline EXCEPT ![req[t].item] = Append(@, req[t].outcome)]
    /\ Leave(t)
    /\ UNCHANGED <<area, rows, restricted, cleared, comments, count, pinned,
                   granted, lapsed, torn, flips>>

ResolveTicket(t) == req[t].outcome = "RESOLVED" /\ Decide(t)

CancelTicket(t) == req[t].outcome = "CANCELLED" /\ Decide(t)

-----------------------------------------------------------------------------
(* Committees. *)

CreateCommittee(c) ==
    /\ c \in area \cap Committees /\ state[c] = "NONE"
    /\ Become(c, "OPEN")
    /\ UNCHANGED <<area, rows, restricted, cleared, comments, count, pinned,
                   timeline, pos, req, history>>

BeginJoin(t, u, c) ==
    /\ c \in area \cap Committees /\ state[c] = "OPEN" /\ u \notin rows[c]
    /\ Start(t, "join", [NoRequest EXCEPT !.item = c, !.user = u])
    /\ UNCHANGED <<area, content, granted, lapsed, torn, flips>>

JoinCommittee(t) ==
    /\ pos[t] = "join" /\ state[req[t].item] = "OPEN"
    /\ AddRow(req[t].item, req[t].user)
    /\ Leave(t)
    /\ UNCHANGED <<area, state, restricted, cleared, comments, count, pinned,
                   timeline, granted, lapsed, torn, flips>>

BeginLeave(t, u, c) ==
    /\ c \in area \cap Committees /\ u \in rows[c]
    /\ Start(t, "leave", [NoRequest EXCEPT !.item = c, !.user = u, !.held = TRUE])
    /\ UNCHANGED <<area, content, granted, lapsed, torn, flips>>

LeaveCommittee(t) ==
    /\ pos[t] = "leave" /\ req[t].held
    /\ DropRow(req[t].item, req[t].user)
    /\ Release(t, "idle", NoRequest)
    /\ UNCHANGED <<area, state, restricted, cleared, comments, count, pinned,
                   timeline, granted, lapsed, torn, flips>>

DeleteCommittee(c) ==
    /\ c \in Committees /\ Delete(c)
    /\ UNCHANGED <<area, restricted, cleared, comments, count, pinned, timeline,
                   pos, req, history>>

-----------------------------------------------------------------------------
Next ==
    \/ \E p \in Polls, levyOnly \in BOOLEAN : CreatePoll(p, levyOnly)
    \/ \E p \in Polls : ClosePoll(p) \/ DeletePoll(p)
    \/ \E u \in Residents : ChangeClearance(u)
    \/ \E r \in Rooms : CloseRoom(r)
    \/ \E a \in Posts, pin \in BOOLEAN : CreateAnnouncement(a, pin)
    \/ \E a \in Posts : DeleteAnnouncement(a)
    \/ \E i \in Tickets : CreateTicket(i)
    \/ \E c \in Committees : CreateCommittee(c) \/ DeleteCommittee(c)
    \/ \E t \in Threads :
         \/ JudgeVote(t) \/ CastVote(t) \/ CreateRoom(t) \/ CreateMessage(t)
         \/ AddLike(t) \/ DropLike(t) \/ Adjust(t) \/ Pin(t)
         \/ ResolveTicket(t) \/ CancelTicket(t)
         \/ JoinCommittee(t) \/ LeaveCommittee(t) \/ Fail(t)
         \/ \E a \in Posts : BeginPin(t, a)
         \/ \E i \in Tickets : BeginResolve(t, i) \/ BeginCancel(t, i)
         \/ \E u \in Everyone :
              \/ \E k \in DOMAIN RoomIds : BeginGetRooms(t, u, k)
              \/ "BROADCAST" \in DOMAIN RoomIds /\ BeginBroadcast(t, u)
              \/ \E p \in Polls : BeginVote(t, u, p)
              \/ \E r \in Rooms : BeginMessage(t, u, r)
              \/ \E a \in Posts : BeginToggle(t, u, a) \/ AddComment(t, u, a)
              \/ \E c \in Committees : BeginJoin(t, u, c) \/ BeginLeave(t, u, c)

Spec == Init /\ [][Next]_vars

-----------------------------------------------------------------------------
TypeOK ==
    /\ area \in Areas
    /\ state \in [Items -> States]
    /\ rows \in [Items -> SUBSET Everyone]
    /\ restricted \subseteq Polls /\ cleared \subseteq Residents
    /\ comments \in [Posts -> 0..MaxComments]
    /\ count \in [Posts -> [likes : Int, comments : Int]]
    /\ pinned \subseteq Posts /\ flips \subseteq Posts
    /\ \A i \in Tickets : timeline[i] \in Seq(Outcomes \cup {"OPEN"})
    /\ pos \in [Threads -> Places]
    /\ \A t \in Threads : req[t].user \in Everyone \cup {None}

(* Safety.  A vote or a message comes from a request that judged the poll  *)
(* or the room before it was closed, however late it is written: what      *)
(* requests had not judged by then is never admitted (isClosed in vote,    *)
(* closedAt in sendMessage).  And the vote of a resident on a poll for     *)
(* cleared residents is cast by one who is cleared, unless the clearance   *)
(* changed while the request was under way.                                *)
EntriesAllowed == \A i \in Items : \A u \in rows'[i] \ rows[i] :
    /\ state[i] = "CLOSED" => <<i, u>> \in granted
    /\ i \in restricted => u \in cleared \cup lapsed

EntriesAreAllowed == [][EntriesAllowed]_vars

(* Safety, likes and comments.  The counts kept on the announcement are    *)
(* the numbers of rows, short of what requests between their two writes    *)
(* still owe, whatever the same user sends at once; only a request that    *)
(* ends between the two leaves a count wrong for good.                     *)
Owed(a, field) ==
    MapThenSumSet(LAMBDA t : req[t].delta,
                  {t \in Threads : pos[t] = "count" /\ req[t].item = a
                                   /\ req[t].field = field})

CountsAreTrue ==
    \A a \in Posts : state[a] = "OPEN" /\ a \notin torn =>
       /\ count[a].likes + Owed(a, "likes") = Cardinality(rows[a])
       /\ count[a].comments + Owed(a, "comments") = comments[a]

(* Safety.  What has no key to protect it goes wrong only when two         *)
(* requests about the same thing overlap: otherwise every type of room     *)
(* exists once, a ticket is decided once and its timeline ends with its    *)
(* status, and an announcement, created pinned or not, is pinned as the    *)
(* pins and unpins answered since then have turned it.                     *)
NothingTwice ==
    /\ \A k \in DOMAIN RoomIds \ contested : Cardinality(Existing(k)) <= 1
    /\ \A i \in Tickets : state[i] # "NONE" =>
         /\ Last(timeline[i]) = state[i]
         /\ i \notin contested => Len(timeline[i]) <= 2
    /\ \A a \in Posts \ contested : a \in pinned <=> a \in flips
=============================================================================
