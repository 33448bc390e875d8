------------------------------ MODULE Presence ------------------------------
(***************************************************************************)
(* Who is on the board: the server's roster of sockets, the list that one  *)
(* page shows, the cursors it draws, and the friends its user has marked,  *)
(* which the tabs of a browser share.                                      *)
(*                                                                         *)
(* What the roster sends is applied when it arrives; activity waits in the *)
(* queue of board messages until the drawings before it are done.          *)
(*                                                                         *)
(* Of a visitor's row the tool and the right to edit are kept.  Left out   *)
(* are positions (README), colours and sizes, the pulse and idle marks,    *)
(* reports (Moderation), own activity, and the ordering of rows.           *)
(***************************************************************************)
EXTENDS Naturals, Sequences, FiniteSets, Functions

CONSTANTS
    Sockets,    \* the connections that may be made
    Person,     \* the person of each socket (the userId)
    Me,         \* the person of the page
    Tools,      \* tools somebody may have used last, with "hand"
    Budgets     \* bounds: [joins, acts, refreshes, cuts, toggles : Nat]

VARIABLES
    page,       \* [mine: its socket, rows, queue, cursors, frame, friends]
    server,     \* the roster: the record of every socket in the room
    down,       \* events under way to the page, in order
    storage,    \* [friends: localStorage, wanted: (history) what was toggled,
                \*  event: will the page be told of a change]
    left        \* what remains of the bounds

vars == <<page, server, down, storage, left>>

None == "no socket"
PresenceAssumption ==
    /\ None \notin Sockets /\ "hand" \in Tools
    /\ Person \in [Sockets -> Range(Person)] /\ Me \in Range(Person)

Joined == DOMAIN server
Connected == page.mine \in Joined
Spend(what) == left[what] > 0 /\ left' = [left EXCEPT ![what] = @ - 1]
Flipped(set, x) == IF x \in set THEN set \ {x} ELSE set \cup {x}
Told(events) == down' = IF Connected THEN down \o events ELSE down

-----------------------------------------------------------------------------
(* The server *)

Row(s, record) == [kind |-> "joined", on |-> s, record |-> record]

\* buildBoardUserRecord
NewRecord == [tool |-> "hand", edit |-> TRUE]

\* bootstrapSocketBoard: the roster goes to the new page, it to all others.
Join(s) ==
    /\ s \notin Joined /\ left.joins[s]
    /\ left' = [left EXCEPT !.joins[s] = FALSE]
    /\ server' = [t \in Joined \cup {s} |-> IF t = s THEN NewRecord ELSE server[t]]
    /\ IF page.mine = None /\ Person[s] = Me
       THEN /\ page' = [page EXCEPT !.mine = s]
            /\ \E order \in [1 .. Cardinality(Joined) -> Joined] :
                 /\ Range(order) = Joined
                 /\ down' = [k \in 1 .. Cardinality(Joined) |->
                                Row(order[k], server[order[k]])] \o <<Row(s, NewRecord)>>
       ELSE /\ Told(<<Row(s, NewRecord)>>)
            /\ UNCHANGED page
    /\ UNCHANGED storage

\* An accepted write, or a cursor that moves (updateBoardUserFromMessage).
Act(s, tool) ==
    /\ s \in Joined \ {page.mine} /\ Spend("acts")
    /\ server' = [server EXCEPT ![s].tool = tool]
    /\ Told(<<[kind |-> "activity", on |-> s, tool |-> tool]>>)
    /\ UNCHANGED <<page, storage>>

\* refreshUserAccess: every tab of a person is shown anew to everyone.
RefreshUserAccess(person) ==
    LET tabs == {s \in Joined : Person[s] = person}
    IN  /\ tabs # {} /\ Spend("refreshes")
        /\ server' = [s \in Joined |->
                        IF s \in tabs THEN [server[s] EXCEPT !.edit = ~@] ELSE server[s]]
        /\ \E order \in [1 .. Cardinality(tabs) -> tabs] :
             /\ Range(order) = tabs
             /\ Told([k \in DOMAIN order |-> Row(order[k], server'[order[k]])])
        /\ UNCHANGED <<page, storage>>

\* The disconnecting handler, removeBoardUser.
Leave(s) ==
    /\ s \in Joined \ {page.mine}
    /\ server' = [t \in Joined \ {s} |-> server[t]]
    /\ Told(<<[kind |-> "left", on |-> s]>>)
    /\ UNCHANGED <<page, storage, left>>

-----------------------------------------------------------------------------
(* The page's list *)

\* syncFriendStates: nobody is a friend of oneself, once the own row is known.
Synced(p) ==
    LET self == IF p.mine \in DOMAIN p.rows THEN {Me} ELSE {}
    IN  [p EXCEPT !.rows = [s \in DOMAIN @ |->
            [@[s] EXCEPT !.friend = Person[s] \in p.friends \ self]]]

\* upsertConnectedUser
Upserted(p, s, record) ==
    Synced([p EXCEPT !.rows = [t \in DOMAIN @ \cup {s} |->
        IF t = s THEN [tool |-> record.tool, edit |-> record.edit, gone |-> FALSE,
                       friend |-> FALSE]
        ELSE @[t]]])

\* The handlers of USER_JOINED, USER_LEFT (removeConnectedUser) and BROADCAST.
Heard(p, m) ==
    CASE m.kind = "joined"   -> Upserted(p, m.on, m.record)
      [] m.kind = "left"     -> IF m.on \in DOMAIN p.rows
                                THEN [p EXCEPT !.rows[m.on].gone = TRUE] ELSE p
      [] m.kind = "activity" -> [p EXCEPT !.queue = Append(@, m)]

Hear ==
    /\ down # << >>
    /\ page' = Heard(page, Head(down))
    /\ down' = Tail(down)
    /\ UNCHANGED <<server, storage, left>>

\* drainIncomingBroadcastQueue: the message is drawn, with the cursor of its
\* sender in the next frame (draw of the cursor tool), then its row follows it
\* (updateConnectedUsersFromActivity).
Drain ==
    /\ page.queue # << >>
    /\ LET m == Head(page.queue)
           next == [page EXCEPT !.queue = Tail(@), !.frame = @ \cup {m.on}]
       IN  page' = IF m.on \in DOMAIN page.rows THEN [next EXCEPT !.rows[m.on].tool = m.tool]
                   ELSE next
    /\ UNCHANGED <<server, down, storage, left>>

\* removeConnectedUser, 3.5 s later.
RemoveRow(s) ==
    /\ s \in DOMAIN page.rows /\ page.rows[s].gone
    /\ page' = [page EXCEPT !.rows = [t \in DOMAIN @ \ {s} |-> @[t]]]
    /\ UNCHANGED <<server, down, storage, left>>

\* The animation frame of the cursor tool, and 5 s without a message.
ShowCursors ==
    /\ page.frame # {}
    /\ page' = [page EXCEPT !.cursors = @ \cup page.frame, !.frame = {}]
    /\ UNCHANGED <<server, down, storage, left>>

HideCursor(s) ==
    /\ s \in page.cursors
    /\ page' = [page EXCEPT !.cursors = @ \ {s}]
    /\ UNCHANGED <<server, down, storage, left>>

\* Mutant of Disconnected: the frame that is due is not cancelled.
DisconnectedWithFrame(p) ==
    [p EXCEPT !.mine = None, !.rows = << >>, !.queue = << >>, !.cursors = {}]

\* start and beginAuthoritativeResync: clearConnectedUsers, and the cursor
\* tool's onSocketDisconnect.
Disconnected(p) ==
    [p EXCEPT !.mine = None, !.rows = << >>, !.queue = << >>, !.cursors = {}, !.frame = {}]

\* The page's connection is lost; or the board is detached with all its sockets
\* (detachBoardSockets), the others silently.
Cut(all) ==
    /\ Connected /\ Spend("cuts")
    /\ page' = Disconnected(page)
    /\ down' = << >>
    /\ server' = [s \in IF all THEN {} ELSE Joined \ {page.mine} |-> server[s]]
    /\ UNCHANGED storage

-----------------------------------------------------------------------------
(* Friends *)

\* Mutant of Toggled: the page does not look at the storage first.
ToggledFromMemory(p, person) == [p EXCEPT !.friends = Flipped(@, person)]

\* FriendStore.toggle: what other tabs have written is read first.
Toggled(p, person) == [p EXCEPT !.friends = Flipped(storage.friends, person)]

\* The click on a row; the storage may be full.
ToggleFriend(s, saved) ==
    /\ s \in DOMAIN page.rows
    /\ page.mine \in DOMAIN page.rows => Person[s] # Me
    /\ Spend("toggles")
    /\ page' = Synced(Toggled(page, Person[s]))
    /\ storage' = IF saved
                  THEN [storage EXCEPT !.friends = page'.friends,
                                       !.wanted = Flipped(@, Person[s])]
                  ELSE [storage EXCEPT !.unsaved = TRUE]
    /\ UNCHANGED <<server, down>>

\* Another tab toggles a friend; a storage event follows.
OtherTab(person) ==
    /\ Spend("toggles")
    /\ storage' = [storage EXCEPT !.friends = Flipped(@, person),
                                  !.wanted = Flipped(@, person), !.event = TRUE]
    /\ UNCHANGED <<page, server, down>>

\* subscribe
StorageEvent ==
    /\ storage.event
    /\ storage' = [storage EXCEPT !.event = FALSE]
    /\ page' = Synced([page EXCEPT !.friends = storage.friends])
    /\ UNCHANGED <<server, down, left>>

-----------------------------------------------------------------------------
Init ==
    /\ page = [mine |-> None, rows |-> << >>, queue |-> << >>, cursors |-> {},
               frame |-> {}, friends |-> {}]
    /\ server = << >> /\ down = << >>
    /\ storage = [friends |-> {}, wanted |-> {}, event |-> FALSE, unsaved |-> FALSE]
    /\ \E b \in Budgets :
         left = [joins |-> [s \in Sockets |-> s \in b.joins], acts |-> b.acts,
                 refreshes |-> b.refreshes, cuts |-> b.cuts, toggles |-> b.toggles]

Next ==
    \/ \E s \in Sockets : Join(s) \/ Leave(s) \/ RemoveRow(s) \/ HideCursor(s)
    \/ \E s \in Sockets, tool \in Tools : Act(s, tool)
    \/ \E person \in Range(Person) : RefreshUserAccess(person)
    \/ Hear
    \/ Drain
    \/ ShowCursors
    \/ \E all \in BOOLEAN : Cut(all)
    \/ \E s \in Sockets, saved \in BOOLEAN : ToggleFriend(s, saved)
    \/ \E person \in Range(Person) \ {Me} : OtherTab(person)
    \/ StorageEvent

Spec == Init /\ [][Next]_vars

-----------------------------------------------------------------------------
(* Properties *)

\* A page that has heard everything, and drawn what waited, lists exactly the
\* sockets in the room, each with the tool and the right to edit that the
\* server knows, whatever the order in which roster and activity were applied.
RosterAgrees ==
    /\ Connected /\ down = << >> /\ page.queue = << >>
    /\ \A s \in DOMAIN page.rows : ~page.rows[s].gone
    => /\ DOMAIN page.rows = Joined
       /\ \A s \in Joined : /\ page.rows[s].tool = server[s].tool
                            /\ page.rows[s].edit = server[s].edit

\* No toggle of a tab undoes another tab's; the page follows the storage once
\* it is told, and marks the friends, and only them, in its list.
FriendsAgree ==
    /\ storage.friends = storage.wanted
    /\ ~storage.event /\ ~storage.unsaved => page.friends = storage.friends
    /\ page.mine \in DOMAIN page.rows =>
           \A s \in DOMAIN page.rows :
               page.rows[s].friend = (Person[s] # Me /\ Person[s] \in page.friends)

\* A page without a connection shows nobody: neither rows nor cursors, not even
\* those that a frame was to draw.
GoneAreGone == page.mine = None => page.rows = << >> /\ page.cursors = {}

PeopleAgree == RosterAgrees /\ FriendsAgree /\ GoneAreGone
=============================================================================
