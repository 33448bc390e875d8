---------------------------- MODULE Moderation ----------------------------
(***************************************************************************)
(* Moderation on one board: visitors report each other, moderators ban,    *)
(* lift bans and lend their role; bans and loans end by the clock.  A page *)
(* shows the access and the bans that its connection last told it, and     *)
(* asks again by a timer when they are due to end.                         *)
(*                                                                         *)
(* One action is one turn of an event loop: of the server, or of a page.   *)
(***************************************************************************)
EXTENDS BoardCapabilities, ClientAddress

CONSTANTS
    Pages,       \* open tabs
    Readonly,    \* whether the board is read-only
    Durations,   \* MODERATION_DURATIONS, except 0
    MaxTime,     \* bound on the clock; every ban and loan ends by then
    Network,     \* the configured source of addresses and number of proxies
    Scenarios    \* who is there, with which secret and address; what may happen

ASSUME ModerationAssumption ==
    /\ MaxTime \in Nat /\ Durations \subseteq Nat \ {0} /\ Readonly \in BOOLEAN
    /\ IpConfiguration(Network)
    /\ Scenarios \subseteq
          [open : SUBSET Pages, reporters : SUBSET Pages, permanent : SUBSET STRING,
           secret : [Pages -> STRING], prompt : BOOLEAN,
           ip : [Pages -> [remote : STRING, header : Seq(STRING)]],
           reports : Nat, unbans : Nat, grants : Nat, cuts : Nat]

VARIABLES
    now,
    page,      \* per page: link ("none": no such page), access, timer, notice, bans, inbox,
               \* id, and the pending reconnection: after a loss, or once a notice was read
    joined,    \* the sockets in the room, as <<page, id of the connection>>
    users,     \* presence: per joined socket, the access it is shown with
    closing,   \* the sockets told to go, not yet closed
    secrets, ips,  \* the bans in force, per secret and per address
    grants,    \* temporary moderators: per secret, when the loan ends
    banTimer,  \* when the list of bans is sent again, or Never
    issued,    \* (history) every ban, in order, and whether it was lifted
    left       \* what remains of the scenario's bounds

vars == <<now, page, joined, users, closing, secrets, ips, grants, banTimer,
          issued, left>>

Secret(p) == left.secret[p]
Ip(p) == left.ip[p]
Socket(p) == <<p, page[p].id>>
\* resolveClientIp, for the request of every page.
Addressed(s) == [s EXCEPT !.ip = [p \in Pages |-> ClientIp(Network, @[p])]]
Spend(what) == left[what] > 0 /\ left' = [left EXCEPT ![what] = @ - 1]

-----------------------------------------------------------------------------
(* Bans and temporary moderators (bans.mjs, temporary_moderators.mjs) *)

Ban(id) == issued[id]
InForce(id) == Ban(id).end > now

\* getKeyBanExpiresAt
KeyBanEnd(map, key) ==
    IF key \in DOMAIN map /\ map[key] # 0 /\ InForce(map[key]) THEN Ban(map[key]).end ELSE Never

\* Mutant of BanEnd: the ban of the address wins.
BanEndOfIp(secret, ip) ==
    IF KeyBanEnd(ips, ip) # Never THEN KeyBanEnd(ips, ip) ELSE KeyBanEnd(secrets, secret)

\* getEditBanExpiresAt: the later of the two.
BanEnd(secret, ip) ==
    CHOOSE e \in {KeyBanEnd(secrets, secret), KeyBanEnd(ips, ip)} :
        e >= KeyBanEnd(secrets, secret) /\ e >= KeyBanEnd(ips, ip)

\* getTemporaryModeratorExpiresAt
GrantEnd(secret) == IF secret = None \/ grants[secret] <= now THEN Never ELSE grants[secret]

\* boardPermissionsForSocket: nothing but the role is remembered.
Role(p) == RoleForBoard(Secret(p) \in left.permanent, FALSE, None, "board")
State(p) == AccessState(Role(p), GrantEnd(Secret(p)), BanEnd(Secret(p), Ip(p)), now)
Access(p) == BoardState(FALSE, Role(p), Readonly, State(p))
CanBan(p) == State(p).moderator
CanReport(p) == Access(p).canReport

\* listActiveBans
ActiveBans == {id \in DOMAIN issued : /\ InForce(id)
                                      /\ \/ \E s \in DOMAIN secrets : secrets[s] = id
                                         \/ \E i \in DOMAIN ips : ips[i] = id}

-----------------------------------------------------------------------------
(* Messages *)

Listens(p) == page[p].link = "up" /\ Socket(p) \in joined
Tell(pg, p, message) ==
    IF pg[p].link = "up" THEN [pg EXCEPT ![p].inbox = Append(@, message)] ELSE pg
TellAll(pg, room, message) ==
    [p \in Pages |-> IF <<p, pg[p].id>> \in room THEN Tell(pg, p, message)[p] ELSE pg[p]]

\* emitBoardBans: to everyone in the room, and again when the next ban ends.
Published(pg, room, bans) == TellAll(pg, room, [kind |-> "bans", bans |-> bans])

\* Mutant of NextBanEnd: after the last of the bans.
LastBanEnd(room, bans, ends) ==
    IF room = {} \/ bans = {} THEN Never
    ELSE CHOOSE e \in {ends[b] : b \in bans} : \A b \in bans : e >= ends[b]

NextBanEnd(room, bans, ends) ==
    IF room = {} \/ bans = {} THEN Never
    ELSE CHOOSE e \in {ends[b] : b \in bans} : \A b \in bans : e <= ends[b]
Ends(bans) == [id \in DOMAIN bans |-> bans[id].end]

\* refreshUserAccess: every tab of a secret or of an address is told, and
\* shown to the others, with the access it has after the step.
Concerned(secret, ip) ==
    {s \in joined : /\ s = Socket(s[1])
                    /\ \/ secret # None /\ Secret(s[1]) = secret
                       \/ ip # Blank /\ Ip(s[1]) = ip}
TellAccess(pg, room) ==
    [p \in Pages |-> IF <<p, pg[p].id>> \in room
                     THEN Tell(pg, p, [kind |-> "access", access |-> Access(p)'])[p]
                     ELSE pg[p]]
ShowAccess(room) == [s \in joined |-> IF s \in room THEN Access(s[1])' ELSE users[s]]

\* closeSocket and the disconnecting handler; the timer of the bans ends with
\* the last visitor.
Leave(socket) ==
    /\ joined' = joined \ {socket}
    /\ users' = [s \in joined' |-> users[s]]
    /\ closing' = closing \ {socket}
    /\ page' = IF Socket(socket[1]) = socket
               THEN Tell(page, socket[1], [kind |-> "closed"]) ELSE page
    /\ banTimer' = IF joined' = {} THEN Never ELSE banTimer

-----------------------------------------------------------------------------
(* The server's handlers *)

\* bootstrapSocketBoard, for the connection a page has asked for.
Join(p) ==
    /\ page[p].link = "connecting"
    /\ joined' = joined \cup {Socket(p)}
    /\ users' = [s \in joined' |-> IF s = Socket(p) THEN Access(p) ELSE users[s]]
    /\ page' = Published([page EXCEPT ![p].link = "up",
                                      ![p].inbox = <<[kind |-> "access", access |-> Access(p)]>>],
                         joined', ActiveBans)
    /\ banTimer' = NextBanEnd(joined', ActiveBans, Ends(issued))
    /\ UNCHANGED <<now, closing, secrets, ips, grants, issued, left>>

SelfTarget(p, q) == p = q \/ (Secret(p) # None /\ Secret(p) = Secret(q))

\* The page offers to report whom it may; what it sends depends on whether it
\* takes itself for a moderator, and the server refuses what does not fit the
\* facts (validateReportUserPayload).
Reportable(p, q) ==
    /\ p \in left.reporters /\ Listens(p) /\ page[p].access.canReport
    /\ CanReport(p) /\ page[p].access.canBan = CanBan(p)
    /\ Socket(q) \in joined /\ ~SelfTarget(p, q)
    /\ Spend("reports")

\* handleReportedModerator: who reports a moderator is disconnected.
ReportProtected(p, q) ==
    /\ Reportable(p, q) /\ CanBan(q)
    /\ Leave(Socket(p))
    /\ UNCHANGED <<now, secrets, ips, grants, issued>>

\* A report by a peer disconnects both, the reported one with a notice.
ReportByPeer(p, q) ==
    /\ Reportable(p, q) /\ ~CanBan(p) /\ ~CanBan(q)
    /\ joined' = joined \ {Socket(p)}
    /\ users' = [s \in joined' |-> users[s]]
    /\ closing' = (closing \ {Socket(p)}) \cup {Socket(q)}
    /\ page' = Tell(Tell(page, q, [kind |-> "notice"]), p, [kind |-> "closed"])
    /\ UNCHANGED <<now, secrets, ips, grants, banTimer, issued>>

\* handleReportByModerator: a warning, or a ban of the secret and the address.
Warn(p, q) ==
    /\ Reportable(p, q) /\ CanBan(p) /\ ~CanBan(q)
    /\ closing' = closing \cup {Socket(q)}
    /\ page' = Tell(page, q, [kind |-> "notice"])
    /\ UNCHANGED <<now, joined, users, secrets, ips, grants, banTimer, issued>>

BanUser(p, q, d) ==
    /\ Reportable(p, q) /\ CanBan(p) /\ ~CanBan(q)
    /\ now + d <= MaxTime
    /\ UNCHANGED <<now, joined, users, grants>>
    /\ LET id == Len(issued) + 1
       IN  /\ issued' = Append(issued, [secret |-> Secret(q), ip |-> Ip(q),
                                        end |-> now + d, lifted |-> FALSE])
           /\ secrets' = [s \in DOMAIN secrets |-> IF s = Secret(q) THEN id ELSE secrets[s]]
           /\ ips' = [i \in DOMAIN ips |-> IF i = Ip(q) THEN id ELSE ips[i]]
    /\ page' = Tell(Published(page, joined, ActiveBans'), q, [kind |-> "notice"])
    /\ banTimer' = NextBanEnd(joined, ActiveBans', Ends(issued'))
    /\ closing' = closing \cup {Socket(q)}

\* The acknowledgement of the notice, or 150 ms without one.
CloseReported(s) ==
    /\ s \in closing
    /\ Leave(s)
    /\ UNCHANGED <<now, secrets, ips, grants, issued, left>>

\* unbanBoardUser: the keys that this ban holds.
Without(map, id) == [k \in DOMAIN map |-> IF map[k] = id THEN 0 ELSE map[k]]

\* onUnbanUser
Unban(p, id) ==
    /\ Listens(p) /\ page[p].access.canBan /\ id \in page[p].bans
    /\ CanBan(p) /\ id \in ActiveBans
    /\ Spend("unbans")
    /\ secrets' = Without(secrets, id) /\ ips' = Without(ips, id)
    /\ issued' = [issued EXCEPT ![id].lifted = TRUE]
    /\ UNCHANGED <<now, joined, closing, grants>>
    /\ banTimer' = NextBanEnd(joined, ActiveBans', Ends(issued))
    /\ LET told == Concerned(Ban(id).secret, Ban(id).ip)
       IN  /\ page' = TellAccess(Published(page, joined, ActiveBans'), told)
           /\ users' = ShowAccess(told)

\* handleSetTemporaryModeratorMessage; the duration 0 ends the loan.
SetTemporaryModerator(p, q, d) ==
    /\ Listens(p) /\ page[p].access.canGrant
    /\ Access(p).canGrant /\ ~Access(q).canGrant
    /\ Socket(q) \in joined
    /\ Secret(q) \notin {None, Secret(p)}
    /\ Spend("grants") /\ now + d <= MaxTime
    /\ grants' = [grants EXCEPT ![Secret(q)] = IF d = 0 THEN 0 ELSE now + d]
    /\ UNCHANGED <<now, joined, closing, secrets, ips, banTimer, issued>>
    /\ LET told == Concerned(Secret(q), Blank)
       IN  page' = TellAccess(page, told) /\ users' = ShowAccess(told)

BanTimerFires ==
    /\ banTimer # Never /\ banTimer <= now
    /\ page' = Published(page, joined, ActiveBans)
    /\ banTimer' = NextBanEnd(joined, ActiveBans, Ends(issued))
    /\ UNCHANGED <<now, joined, users, closing, secrets, ips, grants, issued, left>>

\* A connection that the page has left or lost is noticed.
Drop(s) ==
    /\ s \in joined
    /\ s # Socket(s[1]) \/ page[s[1]].link # "up" \/ page[s[1]].inbox = <<[kind |-> "closed"]>>
    /\ Leave(s)
    /\ UNCHANGED <<now, secrets, ips, grants, issued, left>>

-----------------------------------------------------------------------------
(* The pages (board_connection_module.js, board_access_module.js) *)

Server == <<joined, users, closing, secrets, ips, grants, banTimer, issued>>

\* start: the connection is closed and asked for anew; while the page is still
\* preparing one (`starting', until socket.connect), nothing happens.
Fresh(pg) ==
    [pg EXCEPT !.link = "connecting", !.id = @ + 1, !.inbox = << >>,
               !.bans = {}, !.reconnect = None]
Started(pg) == {Fresh(pg)} \cup (IF pg.link = "connecting" THEN {pg} ELSE {})

\* Mutant of Disconnected: the page does not wait for its user.
DisconnectedAtOnce(pg) ==
    [pg EXCEPT !.link = "down", !.reconnect = "lost",
               !.notice = IF @ = "open" THEN "waiting" ELSE IF @ = "read" THEN None ELSE @]

\* The DISCONNECT handler, with resumeAfterModerationDisconnect: under a notice
\* that is not acknowledged it schedules nothing, and clears nothing.
Disconnected(pg) ==
    [pg EXCEPT !.link = "down",
               !.reconnect = IF pg.notice = None THEN "lost"
                             ELSE IF pg.notice = "read" THEN "read" ELSE @,
               !.notice = IF @ = "open" THEN "waiting" ELSE IF @ = "read" THEN None ELSE @]

\* Mutant of Applied: only a page that may not draw asks again.
AppliedToBanned(pg, access) ==
    [pg EXCEPT !.access = access,
               !.timer = IF access.refresh = Never \/ access.canEdit THEN Never
                         ELSE now + access.refresh]

\* applyBoardState, scheduleAccessRefresh: every answer replaces the timer.
Applied(pg, access) ==
    [pg EXCEPT !.access = access,
               !.timer = IF access.refresh = Never THEN Never ELSE now + access.refresh]

Heard(pg, m) ==
    CASE m.kind = "access" -> Applied(pg, m.access)
      [] m.kind = "bans"   -> [pg EXCEPT !.bans = m.bans]
      [] m.kind = "notice" -> [pg EXCEPT !.notice = "open"]
      [] m.kind = "closed" -> Disconnected(pg)
Hear(p) ==
    /\ page[p].link = "up" /\ page[p].inbox # << >>
    /\ LET rest == [page[p] EXCEPT !.inbox = Tail(@)]
       IN  page' = [page EXCEPT ![p] = Heard(rest, Head(page[p].inbox))]
    /\ UNCHANGED <<Server, now, left>>

\* The user closes the notice.
Acknowledge(p) ==
    /\ page[p].notice \in {"open", "waiting"}
    /\ page' = [page EXCEPT ![p].notice = IF @ = "open" THEN "read" ELSE None,
                            ![p].reconnect = IF page[p].notice = "waiting" THEN "read" ELSE @]
    /\ UNCHANGED <<Server, now, left>>

\* The timer of scheduleSocketReconnect.
Reconnect(p) ==
    /\ page[p].reconnect # None
    /\ \E pg \in Started([page[p] EXCEPT !.reconnect = None]) : page' = [page EXCEPT ![p] = pg]
    /\ UNCHANGED <<Server, now, left>>

\* The timer of scheduleAccessRefresh; the clock stands still at MaxTime.
RefreshAccess(p) ==
    /\ page[p].timer # Never
    /\ page[p].timer <= now \/ now = MaxTime
    /\ \E pg \in Started([page[p] EXCEPT !.timer = Never]) : page' = [page EXCEPT ![p] = pg]
    /\ UNCHANGED <<Server, now, left>>

\* A connection is lost, with what was under way.
Cut(p) ==
    /\ page[p].link = "up"
    /\ Spend("cuts")
    /\ page' = [page EXCEPT ![p].inbox = <<[kind |-> "closed"]>>]
    /\ UNCHANGED <<Server, now>>

\* Nothing is under way.
Settled ==
    /\ closing = {} /\ \A s \in joined : s = Socket(s[1])
    /\ \A p \in Pages : /\ page[p].inbox = << >> /\ page[p].reconnect = None
                        /\ page[p].link # "connecting"

\* The shortest ban lasts minutes: in a prompt scenario all else is faster.
Tick ==
    /\ now < MaxTime
    /\ left.prompt => Settled
    /\ now' = now + 1
    /\ UNCHANGED <<Server, page, left>>

-----------------------------------------------------------------------------
Init ==
    /\ left \in {Addressed(s) : s \in Scenarios}
    /\ now = 1
    /\ secrets = [s \in {left.secret[p] : p \in Pages} \ {None} |-> 0]
    /\ ips = [i \in {Ip(p) : p \in Pages} \ {Blank} |-> 0]
    /\ grants = [s \in DOMAIN secrets |-> 0]
    /\ issued = << >> /\ banTimer = Never /\ closing = {}
    /\ joined = {<<p, 1>> : p \in left.open}
    /\ users = [s \in joined |-> Access(s[1])]
    /\ page = [p \in Pages |-> [link |-> IF p \in left.open THEN "up" ELSE "none", id |-> 1, access |-> Access(p), timer |-> Never,
                                notice |-> None, bans |-> {}, inbox |-> << >>,
                                reconnect |-> None]]

Next ==
    \/ Tick
    \/ BanTimerFires
    \/ \E s \in joined : CloseReported(s) \/ Drop(s)
    \/ \E p \in Pages : \/ Join(p) \/ Hear(p) \/ Acknowledge(p)
                        \/ Reconnect(p) \/ RefreshAccess(p) \/ Cut(p)
    \/ \E p, q \in Pages : ReportProtected(p, q) \/ ReportByPeer(p, q) \/ Warn(p, q)
    \/ \E p, q \in Pages, d \in Durations : BanUser(p, q, d)
    \/ \E p, q \in Pages, d \in Durations \cup {0} : SetTemporaryModerator(p, q, d)
    \/ \E p \in Pages : \E id \in page[p].bans : Unban(p, id)

\* Timers fire, messages arrive and connections are made; nobody has to report,
\* to lift a ban or to acknowledge a notice.
Fairness ==
    /\ WF_vars(Tick) /\ WF_vars(BanTimerFires)
    /\ \A p \in Pages : /\ WF_vars(Join(p)) /\ WF_vars(Hear(p))
                        /\ WF_vars(Reconnect(p)) /\ WF_vars(RefreshAccess(p))
    /\ WF_vars(\E s \in joined : CloseReported(s) \/ Drop(s))
Spec == Init /\ [][Next]_vars /\ Fairness

-----------------------------------------------------------------------------
(* Properties *)

\* A page that has heard everything shows the bans in force, so that a
\* moderator can lift what keeps somebody from drawing; besides these, only
\* bans that have just ended, which the timer is due to remove (emitBoardBans,
\* index.mjs:283-306).
ShownBansCurrent ==
    \A p \in Pages : Listens(p) /\ page[p].inbox = << >> =>
        /\ {id \in page[p].bans : InForce(id)} = ActiveBans
        /\ page[p].bans \subseteq ActiveBans \/ (banTimer # Never /\ banTimer <= now)

\* A ban keeps the person it was given to from drawing for as long as it was
\* meant to, whatever happens to other people at the same address: it ends
\* early only if it is lifted, or replaced by a newer ban of this person
\* (bans.mjs:149-167, 203-221).
BanHolds ==
    \A id \in DOMAIN issued :
        /\ ~Ban(id).lifted /\ InForce(id) /\ Ban(id).secret # None
        /\ \A later \in DOMAIN issued :
               later > id => Ban(later).secret # Ban(id).secret
        => LET end == BanEnd(Ban(id).secret, Ban(id).ip)
           IN  end >= Ban(id).end

\* A page that was told to go comes back when its user has acknowledged the
\* notice, and before that only if a ban or a loan that it knew of ends, or if
\* its user has just acknowledged an earlier notice
\* (resumeAfterModerationDisconnect against scheduleAccessRefresh).
NoticeHoldsThePage ==
    [][\A p \in Pages :
          /\ page[p].notice = "waiting" /\ page[p].link = "down"
          /\ page'[p].link = "connecting"
          => \/ page[p].timer # Never /\ page'[p].timer = Never
             \/ page[p].reconnect = "read"]_vars

\* When bans and loans have ended, every page is connected and shows the access
\* it has, unless its user has a notice to acknowledge; no page stays read-only
\* after the ban, and no moderator keeps the buttons of the role.
AccessEventuallyReal ==
    \A p \in Pages :
        <>[](\/ page[p].link = "none"
             \/ page[p].notice = "waiting"
             \/ /\ Listens(p) /\ page[p].access = Access(p)
                /\ users[Socket(p)] = Access(p))
=============================================================================
