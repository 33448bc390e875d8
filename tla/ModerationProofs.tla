-------------------------- MODULE ModerationProofs --------------------------
(***************************************************************************)
(* What Moderation's runs check on some boards, for any number of pages,   *)
(* secrets, addresses, bans and loans, and any durations.                  *)
(*                                                                         *)
(* BanHolds rests on BansInv: the secret of a person names the newest of   *)
(* the bans given to it, until that is lifted.  ShownBansCurrent rests on  *)
(* ShownInv, which speaks of a page that has not yet heard everything: the *)
(* last list of bans on its way holds the bans in force, and of those that *)
(* have ended since only such as the timer of emitBoardBans is set for.    *)
(***************************************************************************)
EXTENDS Moderation, TLAPS, SequenceTheorems, WellFoundedInduction

-----------------------------------------------------------------------------
(* The invariant *)

Requests == [remote : STRING, header : Seq(STRING)]
Addresses == {ClientIp(Network, r) : r \in Requests}

Lefts == [open : SUBSET Pages, reporters : SUBSET Pages, permanent : SUBSET STRING,
          secret : [Pages -> STRING], ip : [Pages -> Addresses], prompt : BOOLEAN,
          reports : Nat, unbans : Nat, grants : Nat, cuts : Nat]

Known == {Secret(p) : p \in Pages} \ {None}
KnownIps == {Ip(p) : p \in Pages} \ {Blank}

BanRecords == [secret : STRING, ip : Addresses, end : Nat \ {0}, lifted : BOOLEAN]

AccessStates == [canEdit : BOOLEAN, canClear : BOOLEAN, canBan : BOOLEAN,
                 canGrant : BOOLEAN, canReport : BOOLEAN, refresh : Nat]

Messages == [kind : {"access"}, access : AccessStates]
            \cup [kind : {"bans"}, bans : SUBSET Nat]
            \cup [kind : {"notice", "closed"}]

PageStates ==
    [link : {"none", "connecting", "up", "down"}, id : Nat, access : AccessStates,
     timer : Nat, notice : {None, "open", "waiting", "read"}, bans : SUBSET Nat,
     inbox : Seq(Messages), reconnect : {None, "lost", "read"}]

PagesInv == page \in [Pages -> PageStates]

ServerInv ==
    /\ now \in Nat /\ now > 0
    /\ joined \subseteq Pages \X Nat /\ closing \subseteq Pages \X Nat
    /\ secrets \in [Known -> Nat] /\ ips \in [KnownIps -> Nat]
    /\ grants \in [Known -> Nat]
    /\ issued \in Seq(BanRecords) /\ banTimer \in Nat
    /\ left \in Lefts

\* The keys name bans, and every ban that is neither lifted nor replaced by one
\* of the same person is still the one its secret names.
BansInv ==
    /\ \A s \in Known : secrets[s] # 0 => secrets[s] \in DOMAIN issued
    /\ \A i \in KnownIps : ips[i] # 0 => ips[i] \in DOMAIN issued
    /\ \A id \in DOMAIN issued :
          /\ ~Ban(id).lifted /\ Ban(id).secret # None
          /\ \A later \in DOMAIN issued :
                 later > id => Ban(later).secret # Ban(id).secret
          => Ban(id).secret \in Known /\ secrets[Ban(id).secret] = id

\* A page that waits for its user does not reconnect after a loss; nothing is
\* lost while it is connected or about to be.
Rests(pg) == pg.reconnect = "lost" => pg.link = "down" /\ pg.notice # "waiting"
NoticeInv == \A p \in Pages : Rests(page[p])

\* The bans that the page will show when it has heard everything.
LastBans(pg, bans) ==
    \/ \E k \in 1 .. Len(pg.inbox) :
          /\ pg.inbox[k].kind = "bans" /\ pg.inbox[k].bans = bans
          /\ \A m \in 1 .. Len(pg.inbox) : m > k => pg.inbox[m].kind # "bans"
    \/ /\ \A k \in 1 .. Len(pg.inbox) : pg.inbox[k].kind # "bans"
       /\ pg.bans = bans

\* The connection has not been closed behind the messages.
Open(pg) == \A k \in 1 .. Len(pg.inbox) : pg.inbox[k].kind # "closed"

\* These are the bans in force and some that have just ended, and the timer is
\* set for the first of them to end.
CurrentBans(bans) ==
    /\ bans \subseteq DOMAIN issued
    /\ {id \in bans : InForce(id)} = ActiveBans
    /\ \A id \in bans : banTimer # Never /\ banTimer <= Ban(id).end

ShownInv ==
    \A p \in Pages : Listens(p) /\ Open(page[p]) =>
        \E bans : LastBans(page[p], bans) /\ CurrentBans(bans)

IInv == ServerInv /\ PagesInv /\ BansInv /\ NoticeInv /\ ShownInv

-----------------------------------------------------------------------------
(* Access *)

\* The CHOOSE of BanEnd finds the later of the two ends.
LEMMA Later ==
    \A x, y \in Nat : LET z == CHOOSE e \in {x, y} : e >= x /\ e >= y
                      IN  z \in Nat /\ z >= x /\ z >= y
<1> SUFFICES ASSUME NEW x \in Nat, NEW y \in Nat
             PROVE  LET z == CHOOSE e \in {x, y} : e >= x /\ e >= y
                    IN  z \in Nat /\ z >= x /\ z >= y
  OBVIOUS
<1>1. \E e \in {x, y} : e >= x /\ e >= y
  <2>1. CASE x >= y
    BY <2>1
  <2>2. CASE y >= x
    BY <2>2
  <2> QED
    BY <2>1, <2>2
<1> QED
  BY <1>1

\* Whatever the role, the loan and the ban, boardState answers with an access.
LEMMA AccessTyped ==
    ASSUME NEW r, NEW g \in Nat, NEW b \in Nat, NEW t \in Nat
    PROVE  BoardState(FALSE, RoleForBoard(r, FALSE, None, "board"), Readonly,
               AccessState(RoleForBoard(r, FALSE, None, "board"), g, b, t))
           \in AccessStates
<1>1. PICK role : role = RoleForBoard(r, FALSE, None, "board")
  OBVIOUS
<1>2. PICK st : st = AccessState(role, g, b, t)
  OBVIOUS
<1>3. st \in [moderator : BOOLEAN, banned : BOOLEAN, refresh : Nat]
  <2>1. CASE role = "moderator"
    BY <1>2, <2>1 DEF AccessState, Never
  <2>2. CASE role # "moderator" /\ g > t
    <3>1. st = [moderator |-> TRUE, banned |-> FALSE, refresh |-> g - t]
      BY <1>2, <2>2 DEF AccessState
    <3> QED
      BY <3>1, <2>2
  <2>3. CASE role # "moderator" /\ ~(g > t)
    <3>1. g <= t
      BY <2>3
    <3>2. st = [moderator |-> FALSE, banned |-> b > t,
                refresh |-> IF b > t THEN b - t ELSE Never]
      BY <1>2, <2>3, <3>1 DEF AccessState
    <3>3. (IF b > t THEN b - t ELSE Never) \in Nat /\ (b > t) \in BOOLEAN
      BY DEF Never
    <3> QED
      BY <3>2, <3>3
  <2> QED
    BY <2>1, <2>2, <2>3
<1>4. PICK caps : caps = Capabilities(FALSE, role, Readonly, st)
  OBVIOUS
<1>5. caps.canOpen \in BOOLEAN /\ caps.canEdit \in BOOLEAN /\ caps.canClear \in BOOLEAN
  BY <1>3, <1>4, ModerationAssumption DEF Capabilities
<1>6. BoardState(FALSE, role, Readonly, st) =
        [canEdit |-> caps.canEdit, canClear |-> caps.canClear,
         canBan |-> st.moderator, canGrant |-> role = "moderator",
         canReport |-> caps.canOpen /\ ~st.banned, refresh |-> st.refresh]
  BY <1>4 DEF BoardState
<1>7. (role = "moderator") \in BOOLEAN /\ (caps.canOpen /\ ~st.banned) \in BOOLEAN
  BY <1>3, <1>5
<1>8. BoardState(FALSE, role, Readonly, st) \in AccessStates
  <2>1. PICK edit, clear, ban, grant, report \in BOOLEAN, refresh \in Nat :
            /\ edit = caps.canEdit /\ clear = caps.canClear /\ ban = st.moderator
            /\ grant = (role = "moderator")
            /\ report = (caps.canOpen /\ ~st.banned) /\ refresh = st.refresh
    BY <1>3, <1>5, <1>7
  <2>2. BoardState(FALSE, role, Readonly, st) =
            [canEdit |-> edit, canClear |-> clear, canBan |-> ban, canGrant |-> grant,
             canReport |-> report, refresh |-> refresh]
    BY <1>6, <2>1
  <2>3. [canEdit |-> edit, canClear |-> clear, canBan |-> ban, canGrant |-> grant,
         canReport |-> report, refresh |-> refresh] \in AccessStates
    BY DEF AccessStates
  <2> QED
    BY <2>2, <2>3
<1> QED
  BY <1>1, <1>2, <1>8

\* What pages are told of their access.
LEMMA AccessFacts ==
    ASSUME ServerInv, BansInv, NEW p \in Pages
    PROVE  Access(p) \in AccessStates /\ GrantEnd(Secret(p)) \in Nat
<1>1. Secret(p) \in {None} \cup Known /\ Ip(p) \in {Blank} \cup KnownIps
  BY DEF Known, KnownIps
<1>2. \A id \in DOMAIN issued : Ban(id).end \in Nat
  <2>1. \A id \in 1 .. Len(issued) : issued[id] \in BanRecords
    BY ElementOfSeq DEF ServerInv
  <2> QED
    BY <2>1, LenProperties DEF ServerInv, Ban, BanRecords
<1>3. DOMAIN secrets = Known /\ DOMAIN ips = KnownIps
  BY DEF ServerInv
<1>4. KeyBanEnd(secrets, Secret(p)) \in Nat
  BY <1>2, <1>3 DEF KeyBanEnd, BansInv, Never
<1>5. KeyBanEnd(ips, Ip(p)) \in Nat
  BY <1>2, <1>3 DEF KeyBanEnd, BansInv, Never
<1>6. BanEnd(Secret(p), Ip(p)) \in Nat
  BY <1>4, <1>5, Later DEF BanEnd
<1>7. GrantEnd(Secret(p)) \in Nat
  BY <1>1 DEF GrantEnd, Never, ServerInv
<1>8. now \in Nat
  BY DEF ServerInv
<1>9. PICK r : r = (Secret(p) \in left.permanent)
  OBVIOUS
<1>10. PICK g \in Nat : g = GrantEnd(Secret(p))
  BY <1>7
<1>11. PICK b \in Nat : b = BanEnd(Secret(p), Ip(p))
  BY <1>6
<1>12. Access(p) = BoardState(FALSE, RoleForBoard(r, FALSE, None, "board"), Readonly,
               AccessState(RoleForBoard(r, FALSE, None, "board"), g, b, now))
  BY <1>9, <1>10, <1>11 DEF Access, Role, State
<1> QED
  BY <1>7, <1>8, <1>12, AccessTyped

\* ... after the step too, for refreshUserAccess.
LEMMA AccessNext ==
    ASSUME ServerInv', BansInv', NEW p \in Pages
    PROVE  Access(p)' \in AccessStates
<1>1. Secret(p)' \in {None} \cup Known' /\ Ip(p)' \in {Blank} \cup KnownIps'
  BY DEF Known, KnownIps
<1>2. \A id \in DOMAIN issued' : Ban(id)'.end \in Nat
  <2>1. issued' \in Seq(BanRecords)
    BY DEF ServerInv
  <2>2. \A id \in 1 .. Len(issued') : issued'[id] \in BanRecords
    BY <2>1, ElementOfSeq
  <2> QED
    BY <2>1, <2>2, LenProperties DEF Ban, BanRecords
<1>3. DOMAIN secrets' = Known' /\ DOMAIN ips' = KnownIps'
  BY DEF ServerInv
<1>4. KeyBanEnd(secrets, Secret(p))' \in Nat
  BY <1>2, <1>3 DEF KeyBanEnd, BansInv, Never
<1>5. KeyBanEnd(ips, Ip(p))' \in Nat
  BY <1>2, <1>3 DEF KeyBanEnd, BansInv, Never
<1>6. BanEnd(Secret(p), Ip(p))' \in Nat
  BY <1>4, <1>5, Later DEF BanEnd
<1>7. GrantEnd(Secret(p))' \in Nat
  BY <1>1 DEF GrantEnd, Never, ServerInv
<1>8. now' \in Nat
  BY DEF ServerInv
<1>9. PICK r : r = (Secret(p) \in left.permanent)'
  OBVIOUS
<1>10. PICK g \in Nat : g = GrantEnd(Secret(p))'
  BY <1>7
<1>11. PICK b \in Nat : b = BanEnd(Secret(p), Ip(p))'
  BY <1>6
<1>12. Access(p)' = BoardState(FALSE, RoleForBoard(r, FALSE, None, "board"), Readonly,
               AccessState(RoleForBoard(r, FALSE, None, "board"), g, b, now'))
  BY <1>9, <1>10, <1>11 DEF Access, Role, State
<1> QED
  BY <1>8, <1>12, AccessTyped

-----------------------------------------------------------------------------
(* Messages *)

\* The page after one more message, unless it is not connected.
Sent(pg, m) == IF pg.link = "up" THEN [pg EXCEPT !.inbox = Append(@, m)] ELSE pg

\* A message changes nothing of the page but what is on its way to it.
LEMMA SentFacts ==
    ASSUME NEW pg \in PageStates, NEW m \in Messages
    PROVE  /\ Sent(pg, m) \in PageStates
           /\ Sent(pg, m).link = pg.link /\ Sent(pg, m).id = pg.id
           /\ Sent(pg, m).notice = pg.notice /\ Sent(pg, m).reconnect = pg.reconnect
           /\ Sent(pg, m).bans = pg.bans
           /\ pg.link = "up" => Sent(pg, m).inbox = Append(pg.inbox, m)
<1>1. Append(pg.inbox, m) \in Seq(Messages)
  BY AppendProperties DEF PageStates
<1> QED
  BY <1>1 DEF Sent, PageStates

\* A message that brings no list of bans leaves the last list what it was ...
LEMMA SentOther ==
    ASSUME NEW pg \in PageStates, NEW m \in Messages, m.kind # "bans", pg.link = "up"
    PROVE  /\ \A bans : LastBans(pg, bans) => LastBans(Sent(pg, m), bans)
           /\ Open(Sent(pg, m)) => Open(pg) /\ m.kind # "closed"
<1>1. PICK box : box = pg.inbox
  OBVIOUS
<1>2. PICK new : new = Append(box, m)
  OBVIOUS
<1>3. box \in Seq(Messages)
  BY <1>1 DEF PageStates
<1>4. PICK n \in Nat : n = Len(box)
  BY <1>3, LenProperties
<1>5. Len(new) = n + 1 /\ (\A k \in 1 .. n : new[k] = box[k]) /\ new[n + 1] = m
  BY <1>2, <1>3, <1>4, AppendProperties
<1>6. 1 .. (n + 1) = (1 .. n) \cup {n + 1} /\ \A k \in 1 .. n : ~(n + 1 < k)
  OBVIOUS
<1>7. Sent(pg, m).inbox = new /\ Sent(pg, m).bans = pg.bans
  BY <1>1, <1>2, SentFacts
<1>8. ASSUME NEW bans, LastBans(pg, bans)
      PROVE  LastBans(Sent(pg, m), bans)
  <2>1. CASE \E k \in 1 .. n :
               /\ box[k].kind = "bans" /\ box[k].bans = bans
               /\ \A j \in 1 .. n : j > k => box[j].kind # "bans"
    <3>1. PICK k \in 1 .. n :
               /\ box[k].kind = "bans" /\ box[k].bans = bans
               /\ \A j \in 1 .. n : j > k => box[j].kind # "bans"
      BY <2>1
    <3>2. new[k].kind = "bans" /\ new[k].bans = bans /\ k \in 1 .. (n + 1)
      BY <1>5, <1>6, <3>1
    <3>3. \A j \in 1 .. (n + 1) : j > k => new[j].kind # "bans"
      BY <1>5, <1>6, <3>1
    <3> QED
      BY <1>5, <1>7, <3>2, <3>3 DEF LastBans
  <2>2. CASE (\A k \in 1 .. n : box[k].kind # "bans") /\ pg.bans = bans
    <3>1. \A k \in 1 .. (n + 1) : new[k].kind # "bans"
      BY <1>5, <1>6, <2>2
    <3> QED
      BY <1>5, <1>7, <2>2, <3>1 DEF LastBans
  <2> QED
    BY <1>1, <1>4, <1>8, <2>1, <2>2 DEF LastBans
<1>9. Open(Sent(pg, m)) => Open(pg) /\ m.kind # "closed"
  BY <1>1, <1>4, <1>5, <1>6, <1>7 DEF Open
<1> QED
  BY <1>8, <1>9

\* ... and one that does is the last.
LEMMA SentBans ==
    ASSUME NEW pg \in PageStates, NEW m \in Messages, m.kind = "bans", pg.link = "up"
    PROVE  /\ LastBans(Sent(pg, m), m.bans)
           /\ Open(Sent(pg, m)) => Open(pg)
<1>1. PICK box : box = pg.inbox
  OBVIOUS
<1>2. PICK new : new = Append(box, m)
  OBVIOUS
<1>3. box \in Seq(Messages)
  BY <1>1 DEF PageStates
<1>4. PICK n \in Nat : n = Len(box)
  BY <1>3, LenProperties
<1>5. Len(new) = n + 1 /\ (\A k \in 1 .. n : new[k] = box[k]) /\ new[n + 1] = m
  BY <1>2, <1>3, <1>4, AppendProperties
<1>6. /\ n + 1 \in 1 .. (n + 1) /\ \A k \in 1 .. n : k \in 1 .. (n + 1)
      /\ \A k \in 1 .. (n + 1) : ~(k > n + 1)
  OBVIOUS
<1>7. Sent(pg, m).inbox = new
  BY <1>1, <1>2, SentFacts
<1> QED
  BY <1>1, <1>4, <1>5, <1>6, <1>7 DEF LastBans, Open

\* Hearing a message does not change what the last list is.
LEMMA HeardBans ==
    ASSUME NEW pg \in PageStates, pg.inbox # << >>, NEW next,
           next = Heard([pg EXCEPT !.inbox = Tail(@)], Head(pg.inbox)),
           now \in Nat
    PROVE  /\ next \in PageStates /\ next.id = pg.id
           /\ pg.link = "up" /\ Rests(pg) => Rests(next)
           /\ next.link = "up" => Open(pg) \/ ~Open(next)
           /\ next.link = "up" => pg.link = "up"
           /\ next.link = "up" =>
                 \A bans : LastBans(pg, bans) => LastBans(next, bans)
<1>1. PICK box : box = pg.inbox
  OBVIOUS
<1>2. PICK m : m = Head(box)
  OBVIOUS
<1>3. PICK rest : rest = Tail(box)
  OBVIOUS
<1>4. box \in Seq(Messages) /\ box # << >>
  BY <1>1 DEF PageStates
<1>5. m \in Messages /\ rest \in Seq(Messages)
  BY <1>2, <1>3, <1>4, HeadTailProperties
<1>6. PICK n \in Nat : n = Len(rest)
  BY <1>5, LenProperties
<1>7. Len(box) = n + 1 /\ (\A k \in 1 .. n : rest[k] = box[k + 1]) /\ box[1] = m
  <2>1. PICK l \in Nat : l = Len(box)
    BY <1>4, LenProperties
  <2>2. n = l - 1 /\ \A k \in 1 .. n : rest[k] = box[k + 1]
    BY <1>3, <1>4, <1>6, <2>1, HeadTailProperties
  <2>3. Head(box) = box[1]
    BY <1>4
  <2> QED
    BY <1>2, <2>1, <2>2, <2>3
<1>8. PICK mid : mid = [pg EXCEPT !.inbox = rest]
  OBVIOUS
<1>9. /\ mid \in PageStates /\ mid.inbox = rest /\ mid.link = pg.link /\ mid.id = pg.id
      /\ mid.notice = pg.notice /\ mid.bans = pg.bans /\ mid.reconnect = pg.reconnect
  BY <1>5, <1>8 DEF PageStates
<1>10. next = Heard(mid, m)
  BY <1>1, <1>2, <1>3, <1>8
<1>11. m.kind \in {"access", "bans", "notice", "closed"}
  BY <1>5 DEF Messages
<1>12. m.kind = "access" => m.access \in AccessStates /\ m.access.refresh \in Nat
  BY <1>5 DEF Messages, AccessStates
<1>13. m.kind = "bans" => m.bans \in SUBSET Nat
  BY <1>5 DEF Messages
<1>14. m.kind # "closed" =>
         /\ next \in PageStates /\ next.inbox = rest /\ next.link = pg.link
         /\ next.id = pg.id /\ next.reconnect = pg.reconnect
         /\ next.notice \in {pg.notice, "open"}
         /\ next.bans = IF m.kind = "bans" THEN m.bans ELSE pg.bans
  <2>1. CASE m.kind = "access"
    <3>1. next = [mid EXCEPT !.access = m.access,
               !.timer = IF m.access.refresh = Never THEN Never ELSE now + m.access.refresh]
      BY <1>10, <2>1 DEF Heard, Applied
    <3>2. PICK t \in Nat : t = IF m.access.refresh = Never THEN Never
                              ELSE now + m.access.refresh
      BY <1>12, <2>1 DEF Never
    <3>3. next = [mid EXCEPT !.access = m.access, !.timer = t]
      BY <3>1, <3>2
    <3> QED
      BY <1>9, <1>12, <2>1, <3>3 DEF PageStates
  <2>2. CASE m.kind = "bans"
    <3>1. next = [mid EXCEPT !.bans = m.bans]
      BY <1>10, <2>2 DEF Heard
    <3> QED
      BY <1>9, <1>13, <2>2, <3>1 DEF PageStates
  <2>3. CASE m.kind = "notice"
    <3>1. next = [mid EXCEPT !.notice = "open"]
      BY <1>10, <2>3 DEF Heard
    <3> QED
      BY <1>9, <2>3, <3>1 DEF PageStates
  <2> QED
    BY <1>11, <2>1, <2>2, <2>3
<1>15. m.kind = "closed" =>
         /\ next \in PageStates /\ next.link = "down" /\ next.id = pg.id
         /\ pg.link = "up" /\ Rests(pg) => Rests(next)
  <2>1. SUFFICES ASSUME m.kind = "closed"
                 PROVE  /\ next \in PageStates /\ next.link = "down" /\ next.id = pg.id
                        /\ pg.link = "up" /\ Rests(pg) => Rests(next)
    OBVIOUS
  <2>2. next = Disconnected(mid)
    BY <1>10, <2>1 DEF Heard
  <2>3. PICK r : r = IF mid.notice = None THEN "lost"
                     ELSE IF mid.notice = "read" THEN "read" ELSE mid.reconnect
    OBVIOUS
  <2>8. r \in {None, "lost", "read"}
    BY <1>9, <2>3 DEF PageStates
  <2>4. PICK o : o = IF mid.notice = "open" THEN "waiting"
                     ELSE IF mid.notice = "read" THEN None ELSE mid.notice
    OBVIOUS
  <2>5. o \in {None, "open", "waiting", "read"} 
        /\ (mid.reconnect # "lost" => r # "lost" \/ o # "waiting")
    <3>1. mid.notice \in {None, "open", "waiting", "read"}
      BY <1>9 DEF PageStates
    <3>2. PICK c : c = mid.notice
      OBVIOUS
    <3>3. c \in {None, "open", "waiting", "read"}
      BY <3>1, <3>2
    <3>4. c \in {"waiting", "open"} => r = mid.reconnect
      BY <2>3, <3>2 DEF None
    <3> QED
      BY <2>4, <3>2, <3>3, <3>4 DEF None
  <2>6. next = [mid EXCEPT !.link = "down", !.reconnect = r, !.notice = o]
    BY <2>2, <2>3, <2>4 DEF Disconnected
  <2>7. /\ next \in PageStates /\ next.link = "down" /\ next.id = pg.id
        /\ next.reconnect = r /\ next.notice = o
    BY <1>9, <2>5, <2>6, <2>8 DEF PageStates
  <2> QED
    BY <1>9, <2>5, <2>7 DEF Rests
<1>16. \A k \in 1 .. n : k + 1 \in 1 .. (n + 1)
  OBVIOUS
<1>17. \A k \in 1 .. (n + 1) : k = 1 \/ \E j \in 1 .. n : k = j + 1
  <2>1. \A k \in 1 .. (n + 1) : k = 1 \/ (k - 1 \in 1 .. n /\ k = (k - 1) + 1)
    OBVIOUS
  <2> QED
    BY <2>1
<1>21. /\ Open(pg) <=> \A k \in 1 .. (n + 1) : box[k].kind # "closed"
       /\ m.kind # "closed" =>
             (Open(next) <=> \A k \in 1 .. n : rest[k].kind # "closed")
  BY <1>1, <1>6, <1>7, <1>14 DEF Open
<1>22. ASSUME m.kind # "closed", NEW bans,
              \/ \E k \in 1 .. n :
                    /\ rest[k].kind = "bans" /\ rest[k].bans = bans
                    /\ \A j \in 1 .. n : j > k => rest[j].kind # "bans"
              \/ /\ \A k \in 1 .. n : rest[k].kind # "bans"
                 /\ next.bans = bans
       PROVE  LastBans(next, bans)
  <2>1. next.inbox = rest /\ n = Len(rest)
    BY <1>6, <1>14, <1>22
  <2>2. CASE \E k \in 1 .. n :
               /\ rest[k].kind = "bans" /\ rest[k].bans = bans
               /\ \A j \in 1 .. n : j > k => rest[j].kind # "bans"
    BY <2>1, <2>2, Zenon DEF LastBans
  <2>3. CASE (\A k \in 1 .. n : rest[k].kind # "bans") /\ next.bans = bans
    BY <2>1, <2>3, Zenon DEF LastBans
  <2> QED
    BY <1>22, <2>2, <2>3
<1>18. m.kind # "closed" => (Open(next) => Open(pg))
  BY <1>7, <1>17, <1>21
<1>19. ASSUME m.kind # "closed", NEW bans, LastBans(pg, bans)
       PROVE  LastBans(next, bans)
  <2>1. CASE \E k \in 1 .. (n + 1) :
               /\ box[k].kind = "bans" /\ box[k].bans = bans
               /\ \A j \in 1 .. (n + 1) : j > k => box[j].kind # "bans"
    <3>1. PICK k \in 1 .. (n + 1) :
               /\ box[k].kind = "bans" /\ box[k].bans = bans
               /\ \A j \in 1 .. (n + 1) : j > k => box[j].kind # "bans"
      BY <2>1
    <3>2. CASE k = 1
      <4>1. m.kind = "bans" /\ next.bans = bans
        BY <1>7, <1>14, <1>19, <3>1, <3>2
      <4>2. \A j \in 1 .. n : j + 1 > k
        BY <3>2
      <4>3. \A j \in 1 .. n : rest[j].kind # "bans"
        BY <1>7, <1>16, <3>1, <4>2
      <4> QED
        BY <1>19, <1>22, <4>1, <4>3
    <3>3. CASE k # 1
      <4>1. PICK i \in 1 .. n : k = i + 1
        BY <1>17, <3>1, <3>3
      <4>2. rest[i].kind = "bans" /\ rest[i].bans = bans
        BY <1>7, <3>1, <4>1
      <4>3. \A j \in 1 .. n : j > i => j + 1 > k
        BY <4>1
      <4>4. \A j \in 1 .. n : j > i => rest[j].kind # "bans"
        BY <1>7, <1>16, <3>1, <4>3
      <4> QED
        BY <1>19, <1>22, <4>2, <4>4
    <3> QED
      BY <3>2, <3>3
  <2>2. CASE (\A k \in 1 .. (n + 1) : box[k].kind # "bans") /\ pg.bans = bans
    <3>1. \A k \in 1 .. n : rest[k].kind # "bans"
      BY <1>7, <1>16, <2>2
    <3>2. 1 \in 1 .. (n + 1)
      OBVIOUS
    <3>3. m.kind # "bans"
      BY <1>7, <2>2, <3>2
    <3> QED
      BY <1>14, <1>19, <1>22, <2>2, <3>1, <3>3
  <2> QED
    BY <1>1, <1>7, <1>19, <2>1, <2>2 DEF LastBans
<1>20. "down" # "up"
  OBVIOUS
<1>23. pg.link = "up" /\ Rests(pg) => Rests(next)
  BY <1>14, <1>15 DEF Rests
<1> QED
  BY <1>14, <1>15, <1>18, <1>19, <1>20, <1>23

\* One page is told ...
LEMMA TellIs ==
    ASSUME NEW pg \in [Pages -> PageStates], NEW q \in Pages, NEW m \in Messages
    PROVE  /\ Tell(pg, q, m) \in [Pages -> PageStates]
           /\ \A p \in Pages :
                 Tell(pg, q, m)[p] = IF p = q THEN Sent(pg[p], m) ELSE pg[p]
<1>1. Sent(pg[q], m) \in PageStates
  BY SentFacts
<1>2. CASE pg[q].link = "up"
  <2>1. Tell(pg, q, m) = [pg EXCEPT ![q] = Sent(pg[q], m)]
    BY <1>2 DEF Tell, Sent
  <2> QED
    BY <1>1, <2>1
<1>3. CASE pg[q].link # "up"
  BY <1>3 DEF Tell, Sent
<1> QED
  BY <1>2, <1>3

\* ... or all in the room.
LEMMA TellAllIs ==
    ASSUME NEW pg \in [Pages -> PageStates], NEW room, NEW m \in Messages
    PROVE  /\ TellAll(pg, room, m) \in [Pages -> PageStates]
           /\ \A p \in Pages :
                 TellAll(pg, room, m)[p] =
                    IF <<p, pg[p].id>> \in room THEN Sent(pg[p], m) ELSE pg[p]
<1>1. \A p \in Pages : Sent(pg[p], m) \in PageStates
  BY SentFacts
<1>2. \A p \in Pages : Tell(pg, p, m)[p] = Sent(pg[p], m)
  BY TellIs
<1>3. TellAll(pg, room, m) =
        [p \in Pages |-> IF <<p, pg[p].id>> \in room THEN Sent(pg[p], m) ELSE pg[p]]
  BY <1>2 DEF TellAll
<1> QED
  BY <1>1, <1>3

AccessNews == [kind : {"access"}, access : AccessStates]

\* ... or those in a room, of the access they have from now on.
LEMMA TellAccessIs ==
    ASSUME NEW pg \in [Pages -> PageStates], NEW room,
           \A p \in Pages : Access(p)' \in AccessStates
    PROVE  \E news \in [Pages -> AccessNews] :
              /\ TellAccess(pg, room) \in [Pages -> PageStates]
              /\ \A p \in Pages : \/ TellAccess(pg, room)[p] = pg[p]
                                  \/ TellAccess(pg, room)[p] = Sent(pg[p], news[p])
<1>1. PICK news : news = [p \in Pages |-> [kind |-> "access", access |-> Access(p)']]
  OBVIOUS
<1>2. news \in [Pages -> AccessNews]
  BY <1>1 DEF AccessNews
<1>3. \A p \in Pages : news[p] \in Messages
  BY <1>2 DEF AccessNews, Messages
<1>4. \A p \in Pages : Sent(pg[p], news[p]) \in PageStates
  BY <1>3, SentFacts
<1>5. \A p \in Pages : Tell(pg, p, news[p])[p] = Sent(pg[p], news[p])
  BY <1>3, TellIs
<1>6. \A p \in Pages : news[p] = [kind |-> "access", access |-> Access(p)']
  BY <1>1
<1>7. TellAccess(pg, room) =
        [p \in Pages |-> IF <<p, pg[p].id>> \in room THEN Sent(pg[p], news[p])
                         ELSE pg[p]]
  <2>1. TellAccess(pg, room) =
          [p \in Pages |-> IF <<p, pg[p].id>> \in room THEN Tell(pg, p, news[p])[p]
                           ELSE pg[p]]
    BY <1>6 DEF TellAccess
  <2> QED
    BY <1>5, <2>1
<1> QED
  BY <1>2, <1>4, <1>7

\* What the server sends.
LEMMA NewsFacts ==
    /\ [kind |-> "notice"] \in Messages /\ [kind |-> "closed"] \in Messages
    /\ \A bans \in SUBSET Nat : [kind |-> "bans", bans |-> bans] \in Messages
    /\ \A access \in AccessStates : [kind |-> "access", access |-> access] \in Messages
BY DEF Messages

-----------------------------------------------------------------------------
(* What a step leaves *)

Same == Known' = Known /\ KnownIps' = KnownIps /\ left' \in Lefts

\* Nobody changes his secret or his address.
LEMMA LeftSame ==
    ASSUME ServerInv, left' = left
    PROVE  Same
BY DEF Same, Known, KnownIps, Secret, Ip, ServerInv

\* ... whatever a scenario still has left.
LEMMA LeftSpent ==
    ASSUME ServerInv, NEW what \in {"reports", "unbans", "grants", "cuts"}, Spend(what)
    PROVE  Same
<1>1. left \in Lefts /\ left[what] \in Nat /\ left[what] > 0
      /\ left' = [left EXCEPT ![what] = left[what] - 1]
  BY DEF ServerInv, Spend, Lefts
<1>2. PICK n \in Nat : n = left[what] - 1
  BY <1>1
<1>3. left' = [left EXCEPT ![what] = n]
  BY <1>1, <1>2
<1>4. left' \in Lefts /\ left'.secret = left.secret /\ left'.ip = left.ip
  <2>1. CASE what = "reports"
    <3>1. left' = [left EXCEPT !.reports = n]
      BY <1>3, <2>1
    <3> QED
      BY <1>1, <3>1 DEF Lefts
  <2>2. CASE what = "unbans"
    <3>1. left' = [left EXCEPT !.unbans = n]
      BY <1>3, <2>2
    <3> QED
      BY <1>1, <3>1 DEF Lefts
  <2>3. CASE what = "grants"
    <3>1. left' = [left EXCEPT !.grants = n]
      BY <1>3, <2>3
    <3> QED
      BY <1>1, <3>1 DEF Lefts
  <2>4. CASE what = "cuts"
    <3>1. left' = [left EXCEPT !.cuts = n]
      BY <1>3, <2>4
    <3> QED
      BY <1>1, <3>1 DEF Lefts
  <2> QED
    BY <2>1, <2>2, <2>3, <2>4
<1> QED
  BY <1>4 DEF Same, Known, KnownIps, Secret, Ip

\* The bans change only with the keys and the history.
LEMMA BansKept ==
    ASSUME BansInv, Same, UNCHANGED <<secrets, ips, issued>>
    PROVE  BansInv'
BY DEF BansInv, Same, Ban

\* The page still hears what it would have shown.
Follows(p) ==
    Listens(p)' /\ Open(page'[p]) =>
        /\ Listens(p) /\ Open(page[p])
        /\ \A bans : LastBans(page[p], bans) => LastBans(page'[p], bans)

\* Pages that follow keep showing the bans in force ...
LEMMA ShownKept ==
    ASSUME ShownInv, \A p \in Pages : Follows(p),
           \A bans : CurrentBans(bans) => CurrentBans(bans)'
    PROVE  ShownInv'
<1> SUFFICES ASSUME NEW p \in Pages, Listens(p)', Open(page'[p])
             PROVE  \E bans : LastBans(page'[p], bans) /\ CurrentBans(bans)'
  BY DEF ShownInv
<1>1. /\ Listens(p) /\ Open(page[p])
      /\ \A bans : LastBans(page[p], bans) => LastBans(page'[p], bans)
  BY DEF Follows
<1>2. PICK bans : LastBans(page[p], bans) /\ CurrentBans(bans)
  BY <1>1 DEF ShownInv
<1> QED
  BY <1>1, <1>2

LEMMA CurrentKept ==
    ASSUME UNCHANGED <<secrets, ips, issued, banTimer, now>>
    PROVE  \A bans : CurrentBans(bans) => CurrentBans(bans)'
BY DEF CurrentBans, ActiveBans, InForce, Ban

\* A page follows if nothing happens to it ...
LEMMA FollowsSame ==
    ASSUME NEW p \in Pages, page'[p] = page[p], joined' \subseteq joined
    PROVE  Follows(p)
BY DEF Follows, Listens, Socket

\* ... or if it is sent something that is not a list of bans.
LEMMA FollowsSent ==
    ASSUME NEW p \in Pages, page[p] \in PageStates, NEW m \in Messages,
           m.kind # "bans", page'[p] = Sent(page[p], m), joined' \subseteq joined
    PROVE  Follows(p)
<1>1. page'[p].link = page[p].link /\ page'[p].id = page[p].id
  BY SentFacts
<1>2. Listens(p)' => Listens(p) /\ page[p].link = "up"
  BY <1>1 DEF Listens, Socket
<1>3. page[p].link = "up" =>
        /\ \A bans : LastBans(page[p], bans) => LastBans(page'[p], bans)
        /\ Open(page'[p]) => Open(page[p])
  BY SentOther
<1> QED
  BY <1>2, <1>3 DEF Follows

\* Everyone has been sent the list of bans, and the timer is set.
LEMMA ShownSent ==
    ASSUME \A p \in Pages : Listens(p)' /\ Open(page'[p]) =>
                             LastBans(page'[p], ActiveBans'),
           \/ joined' = {}
           \/ CurrentBans(ActiveBans)'
    PROVE  ShownInv'
<1> SUFFICES ASSUME NEW p \in Pages, Listens(p)', Open(page'[p])
             PROVE  \E bans : LastBans(page'[p], bans) /\ CurrentBans(bans)'
  BY DEF ShownInv
<1>1. joined' # {}
  BY DEF Listens
<1>2. CurrentBans(ActiveBans)'
  BY <1>1
<1>3. LastBans(page'[p], ActiveBans')
  OBVIOUS
<1>4. PICK bans : bans = ActiveBans'
  OBVIOUS
<1>5. LastBans(page'[p], bans)
  BY <1>3, <1>4
<1>6. CurrentBans(bans)'
  BY <1>2, <1>4 DEF CurrentBans
<1> QED
  BY <1>5, <1>6

\* Times have a first one.
LEMMA LessThan ==
    \E R : IsWellFoundedOn(R, Nat) /\ \A x, y \in Nat : x < y => <<x, y>> \in R
<1>1. \A x, y \in Nat : x < y => <<x, y>> \in OpToRel(<, Nat)
  BY DEF OpToRel
<1> QED
  BY <1>1, NatLessThanWellFounded, Zenon

\* The timer is due when the first ban ends.
LEMMA NextIs ==
    ASSUME NEW room, NEW bans \in SUBSET Nat, NEW is \in Seq(BanRecords),
           bans \subseteq DOMAIN is
    PROVE  /\ NextBanEnd(room, bans, Ends(is)) \in Nat
           /\ room # {} => \A b \in bans :
                 /\ NextBanEnd(room, bans, Ends(is)) # Never
                 /\ NextBanEnd(room, bans, Ends(is)) <= is[b].end
<1>1. CASE room = {} \/ bans = {}
  BY <1>1 DEF NextBanEnd, Never
<1>2. CASE room # {} /\ bans # {}
  <2>1. \A b \in bans : Ends(is)[b] = is[b].end /\ is[b].end \in Nat \ {0}
    <3>1. \A b \in bans : is[b] \in BanRecords
      BY ElementOfSeq, LenProperties
    <3> QED
      BY <3>1 DEF Ends, BanRecords
  <2>2. PICK ends : ends = {Ends(is)[b] : b \in bans}
    OBVIOUS
  <2>3. ends \subseteq Nat \ {0} /\ ends # {}
    BY <1>2, <2>1, <2>2
  <2>4. \E e \in ends : \A n \in ends : e <= n
    <3>1. PICK R : /\ IsWellFoundedOn(R, Nat)
                   /\ \A x, y \in Nat : x < y => <<x, y>> \in R
      BY LessThan
    <3>2. ends \subseteq Nat /\ ends # {}
      BY <2>3
    <3>3. PICK e \in ends : \A n \in ends : ~(<<n, e>> \in R)
      <4>1. IsWellFoundedOn(R, Nat)
        BY <3>1
      <4> QED
        BY <3>2, <4>1, WFMin, Zenon
    <3>4. \A n \in ends : ~(n < e)
      BY <3>1, <3>2, <3>3
    <3> QED
      BY <3>2, <3>4
  <2>5. \E e \in {Ends(is)[b] : b \in bans} : \A b \in bans : e <= Ends(is)[b]
    BY <2>2, <2>4
  <2>6. PICK e : e = CHOOSE x \in {Ends(is)[b] : b \in bans} :
                        \A b \in bans : x <= Ends(is)[b]
    OBVIOUS
  <2>7. e \in {Ends(is)[b] : b \in bans} /\ \A b \in bans : e <= Ends(is)[b]
    BY <2>5, <2>6
  <2>8. NextBanEnd(room, bans, Ends(is)) = e
    BY <1>2, <2>6 DEF NextBanEnd
  <2> QED
    BY <2>1, <2>2, <2>3, <2>7, <2>8 DEF Never
<1> QED
  BY <1>1, <1>2

\* A step that changes no ban.
LEMMA Quiet ==
    ASSUME IInv, Same, UNCHANGED <<secrets, ips, issued, now>>,
           grants' \in [Known -> Nat], joined' \subseteq joined,
           closing' \subseteq Pages \X Nat, page' \in [Pages -> PageStates],
           banTimer' \in Nat, joined' # {} => banTimer' = banTimer,
           \A p \in Pages : Rests(page'[p]),
           \A p \in Pages : Follows(p)
    PROVE  IInv'
<1>1. ServerInv'
  BY DEF IInv, ServerInv, Same
<1>2. BansInv'
  BY BansKept DEF IInv
<1>3. ShownInv'
  <2>1. CASE joined' = {}
    BY <2>1 DEF ShownInv, Listens
  <2>2. CASE joined' # {}
    BY <2>2, CurrentKept, ShownKept DEF IInv
  <2> QED
    BY <2>1, <2>2
<1> QED
  BY <1>1, <1>2, <1>3 DEF IInv, PagesInv, NoticeInv

\* A step that sends everyone the list of bans.
LEMMA Publishes ==
    ASSUME IInv, Same, UNCHANGED <<now, grants>>, BansInv',
           issued' \in Seq(BanRecords),
           secrets' \in [Known -> Nat], ips' \in [KnownIps -> Nat],
           joined' \subseteq Pages \X Nat, closing' \subseteq Pages \X Nat,
           page' \in [Pages -> PageStates],
           \A p \in Pages : Rests(page'[p]),
           banTimer' = NextBanEnd(joined', ActiveBans', Ends(issued')),
           \A p \in Pages : Listens(p)' /\ Open(page'[p]) =>
                             LastBans(page'[p], ActiveBans')
    PROVE  IInv'
<1>1. ActiveBans' \subseteq DOMAIN issued' /\ ActiveBans' \in SUBSET Nat
      /\ DOMAIN issued' \subseteq Nat
  <2>1. DOMAIN issued' = 1 .. Len(issued') /\ Len(issued') \in Nat
    BY LenProperties
  <2>2. ActiveBans' \subseteq DOMAIN issued'
    BY DEF ActiveBans
  <2> QED
    BY <2>1, <2>2
<1>2. banTimer' \in Nat /\ (joined' # {} => \A b \in ActiveBans' :
            banTimer' # Never /\ banTimer' <= issued'[b].end)
  BY <1>1, NextIs
<1>3. joined' # {} => CurrentBans(ActiveBans)'
  <2>1. {id \in ActiveBans' : InForce(id)'} = ActiveBans'
    BY DEF ActiveBans
  <2> QED
    BY <1>1, <1>2, <2>1 DEF CurrentBans, Ban
<1>4. ShownInv'
  BY <1>3, ShownSent
<1>5. ServerInv'
  BY <1>2 DEF IInv, ServerInv, Same
<1> QED
  BY <1>4, <1>5 DEF IInv, PagesInv, NoticeInv

\* The invariant, of one page.
LEMMA PageFacts ==
    ASSUME IInv, NEW p \in Pages
    PROVE  /\ page[p] \in PageStates
           /\ Rests(page[p])
BY DEF IInv, PagesInv, NoticeInv

\* One page changes.
LEMMA OnePage ==
    ASSUME IInv, NEW p \in Pages, NEW new, new \in PageStates,
           page' = [page EXCEPT ![p] = new], UNCHANGED <<Server, now>>, Same,
           Rests(new),
           Listens(p)' /\ Open(new) =>
              /\ Listens(p) /\ Open(page[p])
              /\ \A bans : LastBans(page[p], bans) => LastBans(new, bans)
    PROVE  IInv'
<1>1. page \in [Pages -> PageStates]
  BY DEF IInv, PagesInv
<1>2. page'[p] = new /\ page' \in [Pages -> PageStates]
      /\ \A q \in Pages \ {p} : page'[q] = page[q]
  BY <1>1
<1>3. UNCHANGED <<secrets, ips, issued, now, grants, joined, closing, banTimer>>
  BY DEF Server
<1>4. Follows(p)
  BY <1>2 DEF Follows
<1>5. \A q \in Pages \ {p} : Follows(q)
  BY <1>2, <1>3, FollowsSame
<1>6. \A q \in Pages : Rests(page'[q])
  BY <1>2, PageFacts
<1>7. grants' \in [Known -> Nat] /\ closing' \subseteq Pages \X Nat /\ banTimer' \in Nat
      /\ joined' \subseteq joined
  BY <1>3 DEF IInv, ServerInv
<1> QED
  BY <1>2, <1>3, <1>4, <1>5, <1>6, <1>7, Quiet

-----------------------------------------------------------------------------
(* The steps of pages *)

\* A page hears its messages in their order, the last list of bans remains the last.
LEMMA HearStep ==
    ASSUME IInv, NEW p \in Pages, Hear(p)
    PROVE  IInv'
<1>1. PICK new : new = Heard([page[p] EXCEPT !.inbox = Tail(@)], Head(page[p].inbox))
  OBVIOUS
<1>2. page' = [page EXCEPT ![p] = new] /\ UNCHANGED <<Server, now>> /\ left' = left
      /\ page[p].inbox # << >> /\ page[p].link = "up"
  <2>1. page' = [page EXCEPT ![p] = new]
    BY <1>1 DEF Hear
  <2>2. UNCHANGED <<Server, now, left>> /\ page[p].inbox # << >> /\ page[p].link = "up"
    BY DEF Hear
  <2> QED
    BY <2>1, <2>2
<1>3. page[p] \in PageStates /\ now \in Nat
      /\ Rests(page[p])
  BY PageFacts DEF IInv, ServerInv
<1>4. /\ new \in PageStates /\ new.id = page[p].id
      /\ Rests(new)
      /\ new.link = "up" => Open(page[p]) \/ ~Open(new)
      /\ new.link = "up" => \A bans : LastBans(page[p], bans) => LastBans(new, bans)
  BY <1>1, <1>2, <1>3, HeardBans
<1>5. page'[p] = new /\ joined' = joined
  BY <1>2 DEF IInv, PagesInv, Server
<1>6. Listens(p)' => Listens(p) /\ new.link = "up"
  BY <1>2, <1>4, <1>5 DEF Listens, Socket
<1>7. Same
  BY <1>2, LeftSame DEF IInv
<1> QED
  BY <1>2, <1>4, <1>6, <1>7, OnePage

LEMMA AcknowledgeStep ==
    ASSUME IInv, NEW p \in Pages, Acknowledge(p)
    PROVE  IInv'
<1>1. PICK n, r : /\ n = (IF page[p].notice = "open" THEN "read" ELSE None)
                  /\ r = (IF page[p].notice = "waiting" THEN "read" ELSE page[p].reconnect)
  OBVIOUS
<1>2. PICK new : new = [page[p] EXCEPT !.notice = n, !.reconnect = r]
  OBVIOUS
<1>3. page' = [page EXCEPT ![p] = new] /\ UNCHANGED <<Server, now>> /\ left' = left
  BY <1>1, <1>2 DEF Acknowledge
<1>4. page[p] \in PageStates /\ Rests(page[p])
  BY PageFacts
<1>5. n \in {"read", None} /\ n # "waiting" /\ r \in {"lost", "read", None}
      /\ (r = "lost" => page[p].reconnect = "lost")
  BY <1>1, <1>4 DEF PageStates, None
<1>6. /\ new \in PageStates /\ new.link = page[p].link /\ new.id = page[p].id
      /\ new.inbox = page[p].inbox /\ new.bans = page[p].bans /\ new.notice = n
      /\ new.reconnect = r
  BY <1>2, <1>4, <1>5 DEF PageStates
<1>7. page'[p] = new /\ joined' = joined
  BY <1>3 DEF IInv, PagesInv, Server
<1>8. Listens(p)' /\ Open(new) =>
         /\ Listens(p) /\ Open(page[p])
         /\ \A bans : LastBans(page[p], bans) => LastBans(new, bans)
  BY <1>6, <1>7 DEF Listens, Socket, Open, LastBans
<1>9. Same
  BY <1>3, LeftSame DEF IInv
<1>10. Rests(new)
  BY <1>4, <1>5, <1>6 DEF Rests
<1> QED
  BY <1>3, <1>6, <1>8, <1>9, <1>10, OnePage

\* Whoever starts over listens only when he has joined again.
LEMMA StartedFacts ==
    ASSUME NEW pg \in PageStates, NEW new \in Started(pg), Rests(pg)
    PROVE  /\ new \in PageStates /\ Rests(new) /\ new.timer = pg.timer
           /\ new.link = "connecting"
<1>1. CASE new = Fresh(pg)
  <2>1. << >> \in Seq(Messages) /\ {} \in SUBSET Nat /\ pg.id + 1 \in Nat
    BY EmptySeq DEF PageStates
  <2>2. PICK box \in Seq(Messages), bans \in SUBSET Nat, n \in Nat :
            box = << >> /\ bans = {} /\ n = pg.id + 1
    BY <2>1
  <2>3. new = [pg EXCEPT !.link = "connecting", !.id = n, !.inbox = box,
                         !.bans = bans, !.reconnect = None]
    BY <1>1, <2>2 DEF Fresh
  <2>4. /\ new \in PageStates /\ new.timer = pg.timer /\ new.link = "connecting"
        /\ new.reconnect = None
    BY <2>3 DEF PageStates
  <2> QED
    BY <2>4 DEF Rests, None
<1>2. CASE new # Fresh(pg)
  <2>1. new = pg /\ pg.link = "connecting"
    BY <1>2 DEF Started
  <2> QED
    BY <2>1
<1> QED
  BY <1>1, <1>2

LEMMA StartStep ==
    ASSUME IInv, NEW p \in Pages, Reconnect(p) \/ RefreshAccess(p)
    PROVE  IInv'
<1>1. page[p] \in PageStates /\ Rests(page[p])
  BY PageFacts
<1>2. PICK new : /\ page' = [page EXCEPT ![p] = new] /\ new \in PageStates
                 /\ Rests(new) /\ new.link = "connecting"
  <2>1. CASE Reconnect(p)
    <3>1. PICK mid : mid = [page[p] EXCEPT !.reconnect = None]
      OBVIOUS
    <3>2. mid \in PageStates /\ mid.reconnect = None
      BY <1>1, <3>1 DEF PageStates
    <3>3. Rests(mid)
      BY <3>2 DEF Rests, None
    <3>4. PICK new \in Started(mid) : page' = [page EXCEPT ![p] = new]
      BY <2>1, <3>1 DEF Reconnect
    <3> QED
      BY <3>2, <3>3, <3>4, StartedFacts
  <2>2. CASE RefreshAccess(p)
    <3>1. PICK mid : mid = [page[p] EXCEPT !.timer = Never]
      OBVIOUS
    <3>2. /\ mid \in PageStates /\ mid.reconnect = page[p].reconnect
          /\ mid.link = page[p].link /\ mid.notice = page[p].notice
      BY <1>1, <3>1 DEF PageStates, Never
    <3>3. Rests(mid)
      BY <1>1, <3>2 DEF Rests
    <3>4. PICK new \in Started(mid) : page' = [page EXCEPT ![p] = new]
      BY <2>2, <3>1 DEF RefreshAccess
    <3> QED
      BY <3>2, <3>3, <3>4, StartedFacts
  <2> QED
    BY <2>1, <2>2
<1>3. UNCHANGED <<Server, now>> /\ left' = left
  BY DEF Reconnect, RefreshAccess
<1>4. page'[p] = new
  BY <1>2 DEF IInv, PagesInv
<1>5. ~Listens(p)'
  BY <1>2, <1>4 DEF Listens
<1>6. Same
  BY <1>3, LeftSame DEF IInv
<1> QED
  BY <1>2, <1>3, <1>5, <1>6, OnePage

\* A connection that is lost leaves nothing under way but its end.
LEMMA CutStep ==
    ASSUME IInv, NEW p \in Pages, Cut(p)
    PROVE  IInv'
<1>1. PICK box : box = <<[kind |-> "closed"]>>
  OBVIOUS
<1>2. box \in Seq(Messages) /\ Len(box) = 1 /\ box[1].kind = "closed"
  <2>1. PICK m \in Messages : m = [kind |-> "closed"]
    BY NewsFacts
  <2>2. box = <<m>> /\ m.kind = "closed"
    BY <1>1, <2>1
  <2> QED
    BY <2>2
<1>3. PICK new : new = [page[p] EXCEPT !.inbox = box]
  OBVIOUS
<1>4. page' = [page EXCEPT ![p] = new] /\ UNCHANGED <<Server, now>>
  BY <1>1, <1>3 DEF Cut
<1>5. page[p] \in PageStates /\ Rests(page[p])
  BY PageFacts
<1>6. /\ new \in PageStates /\ new.inbox = box
      /\ new.reconnect = page[p].reconnect /\ new.link = page[p].link
      /\ new.notice = page[p].notice
  BY <1>2, <1>3, <1>5 DEF PageStates
<1>9. Rests(new)
  BY <1>5, <1>6 DEF Rests
<1>7. ~Open(new)
  <2>1. 1 \in 1 .. Len(box)
    BY <1>2
  <2> QED
    BY <1>2, <1>6, <2>1, Zenon DEF Open
<1>8. Same
  BY LeftSpent DEF Cut, IInv
<1> QED
  BY <1>4, <1>6, <1>7, <1>8, <1>9, OnePage

-----------------------------------------------------------------------------
(* The steps of the server *)

\* Time ends bans; the timer of the list is set for the first of them.
LEMMA TickStep ==
    ASSUME IInv, Tick
    PROVE  IInv'
<1>1. now \in Nat /\ now > 0 /\ now' = now + 1
      /\ UNCHANGED <<joined, users, closing, secrets, ips, grants, banTimer, issued, page, left>>
  BY DEF IInv, ServerInv, Tick, Server
<1>2. Same
  BY <1>1, LeftSame DEF IInv
<1>3. ServerInv' /\ PagesInv' /\ NoticeInv'
  BY <1>1, <1>2 DEF IInv, ServerInv, PagesInv, NoticeInv, Same
<1>4. BansInv'
  BY <1>1, <1>2, BansKept DEF IInv
<1>5. \A p \in Pages : Follows(p)
  BY <1>1, FollowsSame
<1>6. ASSUME NEW bans, CurrentBans(bans)
      PROVE  CurrentBans(bans)'
  <2>1. \A id \in DOMAIN issued : Ban(id).end \in Nat
    <3>1. \A id \in 1 .. Len(issued) : issued[id] \in BanRecords
      BY ElementOfSeq DEF IInv, ServerInv
    <3> QED
      BY <3>1, LenProperties DEF IInv, ServerInv, Ban, BanRecords
  <2>2. \A id \in DOMAIN issued : InForce(id)' => InForce(id)
    BY <1>1, <2>1 DEF InForce, Ban
  <2>3. \A id : Ban(id)' = Ban(id)
    BY <1>1 DEF Ban
  <2>4. ActiveBans' = {id \in ActiveBans : InForce(id)'}
    BY <1>1, <2>2 DEF ActiveBans
  <2>5. bans \subseteq DOMAIN issued /\ {id \in bans : InForce(id)} = ActiveBans
    BY <1>6 DEF CurrentBans
  <2>6. {id \in bans : InForce(id)'} = ActiveBans'
    BY <2>2, <2>4, <2>5
  <2> QED
    BY <1>1, <1>6, <2>3, <2>6 DEF CurrentBans
<1>7. ShownInv'
  BY <1>5, <1>6, ShownKept DEF IInv
<1> QED
  BY <1>3, <1>4, <1>7 DEF IInv

\* A socket leaves, and maybe a page is told so.
LEMMA LeaveStep ==
    ASSUME IInv, NEW s \in joined, Leave(s), Same,
           UNCHANGED <<now, secrets, ips, grants, issued>>
    PROVE  IInv'
<1>1. PICK p \in Pages : p = s[1]
  BY DEF IInv, ServerInv
<1>2. PICK m \in Messages : m = [kind |-> "closed"]
  BY NewsFacts
<1>3. m.kind = "closed" /\ page \in [Pages -> PageStates]
  BY <1>2 DEF IInv, PagesInv
<1>4. \/ page' = Tell(page, p, m)
      \/ page' = page
  BY <1>1, <1>2 DEF Leave
<1>5. /\ page' \in [Pages -> PageStates]
      /\ \A q \in Pages : page'[q] \in {page[q], Sent(page[q], m)}
  BY <1>3, <1>4, TellIs
<1>6. joined' \subseteq joined /\ closing' \subseteq closing
      /\ banTimer' = (IF joined' = {} THEN Never ELSE banTimer)
  BY DEF Leave
<1>7. \A q \in Pages : Follows(q)
  <2>1. \A q \in Pages : page[q] \in PageStates
    BY <1>3
  <2> QED
    BY <1>3, <1>5, <1>6, <2>1, FollowsSame, FollowsSent
<1>8. \A q \in Pages : Rests(page'[q])
  BY <1>3, <1>5, SentFacts, PageFacts DEF Rests
<1>9. grants' \in [Known -> Nat] /\ closing' \subseteq Pages \X Nat /\ banTimer' \in Nat
      /\ (joined' # {} => banTimer' = banTimer)
  BY <1>6 DEF IInv, ServerInv, Never
<1> QED
  BY <1>5, <1>6, <1>7, <1>8, <1>9, Quiet

\* Reports end connections, and change no ban.
LEMMA ReportProtectedStep ==
    ASSUME IInv, NEW p \in Pages, NEW q \in Pages, ReportProtected(p, q)
    PROVE  IInv'
<1>1. Same
  BY LeftSpent DEF ReportProtected, Reportable, IInv
<1>2. Socket(p) \in joined /\ Leave(Socket(p)) /\ UNCHANGED <<now, secrets, ips, grants, issued>>
  BY DEF ReportProtected, Reportable, Listens
<1> QED
  BY <1>1, <1>2, LeaveStep

LEMMA CloseStep ==
    ASSUME IInv, NEW s \in joined, CloseReported(s) \/ Drop(s)
    PROVE  IInv'
<1>1. Leave(s) /\ UNCHANGED <<now, secrets, ips, grants, issued, left>>
  BY DEF CloseReported, Drop
<1>2. Same
  BY <1>1, LeftSame DEF IInv
<1> QED
  BY <1>1, <1>2, LeaveStep

LEMMA ReportByPeerStep ==
    ASSUME IInv, NEW p \in Pages, NEW q \in Pages, ReportByPeer(p, q)
    PROVE  IInv'
<1>1. Same
  BY LeftSpent DEF ReportByPeer, Reportable, IInv
<1>2. PICK m \in Messages : m = [kind |-> "notice"]
  BY NewsFacts
<1>3. PICK c \in Messages : c = [kind |-> "closed"]
  BY NewsFacts
<1>4. m.kind # "bans" /\ c.kind # "bans" /\ page \in [Pages -> PageStates]
  BY <1>2, <1>3 DEF IInv, PagesInv
<1>5. PICK mid : mid = Tell(page, q, m)
  OBVIOUS
<1>6. mid \in [Pages -> PageStates] /\ \A r \in Pages :
         mid[r] = IF r = q THEN Sent(page[r], m) ELSE page[r]
  BY <1>4, <1>5, TellIs
<1>7. page' = Tell(mid, p, c)
  BY <1>2, <1>3, <1>5 DEF ReportByPeer
<1>8. page' \in [Pages -> PageStates] /\ \A r \in Pages :
         page'[r] = IF r = p THEN Sent(mid[r], c) ELSE mid[r]
  BY <1>6, <1>7, TellIs
<1>9. /\ UNCHANGED <<now, secrets, ips, grants, issued, banTimer>>
      /\ joined' \subseteq joined /\ p # q
      /\ closing' = (closing \ {Socket(p)}) \cup {Socket(q)} /\ Socket(q) \in joined
  BY DEF ReportByPeer, Reportable, SelfTarget
<1>10. \A r \in Pages : \/ page'[r] = page[r]
                        \/ page'[r] = Sent(page[r], m)
                        \/ page'[r] = Sent(page[r], c)
  BY <1>6, <1>8, <1>9
<1>11. \A r \in Pages : Follows(r)
  BY <1>4, <1>9, <1>10, FollowsSame, FollowsSent, PageFacts
<1>12. \A r \in Pages : Rests(page'[r])
  BY <1>10, SentFacts, PageFacts DEF Rests
<1>13. grants' \in [Known -> Nat] /\ closing' \subseteq Pages \X Nat /\ banTimer' \in Nat
  BY <1>9 DEF IInv, ServerInv
<1> QED
  BY <1>1, <1>8, <1>9, <1>11, <1>12, <1>13, Quiet

LEMMA WarnStep ==
    ASSUME IInv, NEW p \in Pages, NEW q \in Pages, Warn(p, q)
    PROVE  IInv'
<1>1. Same
  BY LeftSpent DEF Warn, Reportable, IInv
<1>2. PICK m \in Messages : m = [kind |-> "notice"]
  BY NewsFacts
<1>3. m.kind # "bans" /\ page \in [Pages -> PageStates]
  BY <1>2 DEF IInv, PagesInv
<1>4. /\ page' = Tell(page, q, m) /\ closing' = closing \cup {Socket(q)}
      /\ Socket(q) \in joined
      /\ UNCHANGED <<now, joined, secrets, ips, grants, banTimer, issued>>
  BY <1>2 DEF Warn, Reportable
<1>5. page' \in [Pages -> PageStates] /\ \A r \in Pages :
         page'[r] = page[r] \/ page'[r] = Sent(page[r], m)
  BY <1>3, <1>4, TellIs
<1>6. \A r \in Pages : Follows(r)
  BY <1>3, <1>4, <1>5, FollowsSame, FollowsSent, PageFacts
<1>7. \A r \in Pages : Rests(page'[r])
  BY <1>5, SentFacts, PageFacts DEF Rests
<1>8. grants' \in [Known -> Nat] /\ closing' \subseteq Pages \X Nat /\ banTimer' \in Nat
      /\ joined' \subseteq joined
  BY <1>4 DEF IInv, ServerInv
<1> QED
  BY <1>1, <1>4, <1>5, <1>6, <1>7, <1>8, Quiet

LEMMA SetTemporaryModeratorStep ==
    ASSUME IInv, NEW p \in Pages, NEW q \in Pages, NEW d \in Durations \cup {0},
           SetTemporaryModerator(p, q, d)
    PROVE  IInv'
<1>1. Same
  BY LeftSpent DEF SetTemporaryModerator, IInv
<1>2. PICK told : told = Concerned(Secret(q), Blank)
  OBVIOUS
<1>3. /\ page' = TellAccess(page, told)
      /\ UNCHANGED <<now, joined, closing, secrets, ips, banTimer, issued>>
      /\ grants' = [grants EXCEPT ![Secret(q)] = IF d = 0 THEN 0 ELSE now + d]
  BY <1>2 DEF SetTemporaryModerator
<1>4. (IF d = 0 THEN 0 ELSE now + d) \in Nat
  BY ModerationAssumption DEF IInv, ServerInv
<1>5. grants' \in [Known -> Nat]
  BY <1>3, <1>4 DEF IInv, ServerInv
<1>6. ServerInv'
  BY <1>1, <1>3, <1>5 DEF IInv, ServerInv, Same
<1>7. BansInv'
  BY <1>1, <1>3, BansKept DEF IInv
<1>8. \A r \in Pages : Access(r)' \in AccessStates
  BY <1>6, <1>7, AccessNext
<1>9. page \in [Pages -> PageStates]
  BY DEF IInv, PagesInv
<1>10. PICK news \in [Pages -> AccessNews] :
         /\ page' \in [Pages -> PageStates]
         /\ \A r \in Pages : page'[r] = page[r] \/ page'[r] = Sent(page[r], news[r])
  BY <1>3, <1>8, <1>9, TellAccessIs
<1>11. \A r \in Pages : news[r] \in Messages /\ news[r].kind # "bans"
  BY NewsFacts DEF AccessNews, Messages
<1>12. \A r \in Pages : Follows(r)
  BY <1>3, <1>10, <1>11, FollowsSame, FollowsSent, PageFacts
<1>13. ASSUME NEW r \in Pages
       PROVE  Rests(page'[r])
  <2>1. CASE page'[r] = page[r]
    BY <1>13, <2>1, PageFacts
  <2>2. CASE page'[r] = Sent(page[r], news[r])
    <3>1. page[r] \in PageStates /\ news[r] \in Messages
      BY <1>11, PageFacts
    <3>2. page'[r].notice = page[r].notice /\ page'[r].reconnect = page[r].reconnect
          /\ page'[r].link = page[r].link
      BY <2>2, <3>1, SentFacts
    <3> QED
      BY <3>2, PageFacts DEF Rests
  <2> QED
    BY <1>10, <2>1, <2>2
<1>14. joined' \subseteq joined /\ closing' \subseteq Pages \X Nat /\ banTimer' \in Nat
  BY <1>3 DEF IInv, ServerInv
<1> QED
  BY <1>1, <1>3, <1>5, <1>10, <1>12, <1>13, <1>14, Quiet

-----------------------------------------------------------------------------
(* The steps that publish the bans *)

\* A page in the room has the list as its last, whatever else it is sent then.
LEMMA PublishedIs ==
    ASSUME NEW pg \in [Pages -> PageStates], NEW room, NEW bans \in SUBSET Nat
    PROVE  /\ Published(pg, room, bans) \in [Pages -> PageStates]
           /\ \A p \in Pages :
                 LET new == Published(pg, room, bans)[p]
                 IN  /\ new.link = pg[p].link /\ new.id = pg[p].id
                     /\ new.notice = pg[p].notice /\ new.reconnect = pg[p].reconnect
                     /\ pg[p].link = "up" /\ <<p, pg[p].id>> \in room =>
                           LastBans(new, bans)
<1>1. PICK m \in Messages : m = [kind |-> "bans", bans |-> bans]
  BY NewsFacts
<1>2. m.kind = "bans" /\ m.bans = bans /\ Published(pg, room, bans) = TellAll(pg, room, m)
  BY <1>1 DEF Published
<1>3. PICK new : new = Published(pg, room, bans)
  OBVIOUS
<1>4. /\ new \in [Pages -> PageStates]
      /\ \A p \in Pages :
            new[p] = IF <<p, pg[p].id>> \in room THEN Sent(pg[p], m) ELSE pg[p]
  BY <1>2, <1>3, TellAllIs
<1>5. ASSUME NEW p \in Pages
      PROVE  /\ new[p].link = pg[p].link /\ new[p].id = pg[p].id
             /\ new[p].notice = pg[p].notice /\ new[p].reconnect = pg[p].reconnect
             /\ pg[p].link = "up" /\ <<p, pg[p].id>> \in room => LastBans(new[p], bans)
  <2>1. CASE <<p, pg[p].id>> \in room
    <3>1. new[p] = Sent(pg[p], m)
      BY <1>4, <2>1
    <3>2. pg[p].link = "up" => LastBans(Sent(pg[p], m), bans)
      BY <1>2, SentBans
    <3> QED
      BY <3>1, <3>2, SentFacts
  <2>2. CASE <<p, pg[p].id>> \notin room
    BY <1>4, <2>2
  <2> QED
    BY <2>1, <2>2
<1> QED
  BY <1>3, <1>4, <1>5

\* Bans in force are bans.
LEMMA ActiveIs ==
    ASSUME IInv
    PROVE  ActiveBans \in SUBSET Nat /\ ActiveBans \subseteq DOMAIN issued
<1>1. DOMAIN issued = 1 .. Len(issued) /\ Len(issued) \in Nat
  BY LenProperties DEF IInv, ServerInv
<1> QED
  BY <1>1 DEF ActiveBans

\* The list is sent again when a ban has ended.
LEMMA BanTimerStep ==
    ASSUME IInv, BanTimerFires
    PROVE  IInv'
<1>1. /\ page' = Published(page, joined, ActiveBans)
      /\ banTimer' = NextBanEnd(joined, ActiveBans, Ends(issued))
      /\ UNCHANGED <<now, joined, closing, secrets, ips, grants, issued, left>>
  BY DEF BanTimerFires
<1>2. Same /\ BansInv'
  <2>1. Same
    BY <1>1, LeftSame DEF IInv
  <2> QED
    BY <1>1, <2>1, BansKept DEF IInv
<1>3. PICK bans : bans = ActiveBans
  OBVIOUS
<1>4. bans \in SUBSET Nat /\ bans = ActiveBans'
  <2>1. ActiveBans' = ActiveBans
    BY <1>1 DEF ActiveBans, InForce, Ban
  <2> QED
    BY <1>3, <2>1, ActiveIs
<1>5. page \in [Pages -> PageStates]
  BY DEF IInv, PagesInv
<1>6. /\ page' \in [Pages -> PageStates]
      /\ \A p \in Pages :
            /\ page'[p].link = page[p].link /\ page'[p].id = page[p].id
            /\ page'[p].notice = page[p].notice /\ page'[p].reconnect = page[p].reconnect
            /\ page[p].link = "up" /\ <<p, page[p].id>> \in joined => LastBans(page'[p], bans)
  BY <1>1, <1>3, <1>4, <1>5, PublishedIs
<1>7. \A p \in Pages : Listens(p)' /\ Open(page'[p]) => LastBans(page'[p], ActiveBans')
  BY <1>1, <1>4, <1>6 DEF Listens, Socket
<1>8. \A p \in Pages : Rests(page'[p])
  BY <1>6, PageFacts DEF Rests
<1>9. banTimer' = NextBanEnd(joined', ActiveBans', Ends(issued'))
  BY <1>1, <1>3, <1>4
<1>10. /\ issued' \in Seq(BanRecords) /\ secrets' \in [Known -> Nat]
       /\ ips' \in [KnownIps -> Nat] /\ joined' \subseteq Pages \X Nat
       /\ closing' \subseteq Pages \X Nat /\ UNCHANGED <<now, grants>>
  BY <1>1 DEF IInv, ServerInv
<1> QED
  BY <1>2, <1>6, <1>7, <1>8, <1>9, <1>10, Publishes

\* Who joins is sent the list, with everybody else.
LEMMA JoinStep ==
    ASSUME IInv, NEW p \in Pages, Join(p)
    PROVE  IInv'
<1>1. Access(p) \in AccessStates
  BY AccessFacts DEF IInv
<1>2. PICK m \in Messages : m = [kind |-> "access", access |-> Access(p)]
  BY <1>1, NewsFacts
<1>3. PICK box : box = <<m>>
  OBVIOUS
<1>4. PICK mid : mid = [page EXCEPT ![p].link = "up", ![p].inbox = box]
  OBVIOUS
<1>5. page \in [Pages -> PageStates]
  BY DEF IInv, PagesInv
<1>6. /\ mid \in [Pages -> PageStates] /\ mid[p].link = "up" /\ mid[p].id = page[p].id
      /\ mid[p].notice = page[p].notice /\ mid[p].reconnect = page[p].reconnect
      /\ \A q \in Pages \ {p} : mid[q] = page[q]
  <2>1. box \in Seq(Messages)
    BY <1>2, <1>3
  <2>2. PICK new : new = [page[p] EXCEPT !.link = "up", !.inbox = box]
    OBVIOUS
  <2>3. /\ new \in PageStates /\ new.link = "up" /\ new.id = page[p].id
        /\ new.notice = page[p].notice /\ new.reconnect = page[p].reconnect
    BY <1>5, <2>1, <2>2 DEF PageStates
  <2>4. mid = [page EXCEPT ![p] = new]
    BY <1>4, <1>5, <2>2
  <2> QED
    BY <1>5, <2>3, <2>4
<1>7. PICK bans : bans = ActiveBans
  OBVIOUS
<1>8. /\ page' = Published(mid, joined', bans)
      /\ banTimer' = NextBanEnd(joined', bans, Ends(issued))
      /\ joined' = joined \cup {Socket(p)}
      /\ UNCHANGED <<now, closing, secrets, ips, grants, issued, left>>
  BY <1>2, <1>3, <1>4, <1>7 DEF Join
<1>9. Same /\ BansInv'
  <2>1. Same
    BY <1>8, LeftSame DEF IInv
  <2> QED
    BY <1>8, <2>1, BansKept DEF IInv
<1>10. bans \in SUBSET Nat /\ bans = ActiveBans'
  <2>1. ActiveBans' = ActiveBans
    BY <1>8 DEF ActiveBans, InForce, Ban
  <2> QED
    BY <1>7, <2>1, ActiveIs
<1>11. /\ page' \in [Pages -> PageStates]
       /\ \A q \in Pages :
            /\ page'[q].link = mid[q].link /\ page'[q].id = mid[q].id
            /\ page'[q].notice = mid[q].notice /\ page'[q].reconnect = mid[q].reconnect
            /\ mid[q].link = "up" /\ <<q, mid[q].id>> \in joined' => LastBans(page'[q], bans)
  BY <1>6, <1>8, <1>10, PublishedIs
<1>12. \A q \in Pages : Listens(q)' /\ Open(page'[q]) => LastBans(page'[q], ActiveBans')
  BY <1>10, <1>11 DEF Listens, Socket
<1>13. \A q \in Pages : Rests(page'[q])
  <2>1. page'[p].reconnect # "lost"
    BY <1>6, <1>11, PageFacts DEF Join, Rests
  <2>2. \A q \in Pages \ {p} : Rests(page'[q])
    BY <1>6, <1>11, PageFacts DEF Rests
  <2> QED
    BY <2>1, <2>2 DEF Rests
<1>14. Socket(p) \in Pages \X Nat
  BY <1>5 DEF Socket, PageStates
<1>15. /\ issued' \in Seq(BanRecords) /\ secrets' \in [Known -> Nat]
       /\ ips' \in [KnownIps -> Nat] /\ joined' \subseteq Pages \X Nat
       /\ closing' \subseteq Pages \X Nat /\ UNCHANGED <<now, grants>>
  BY <1>8, <1>14 DEF IInv, ServerInv
<1>16. banTimer' = NextBanEnd(joined', ActiveBans', Ends(issued'))
  BY <1>8, <1>10
<1> QED
  BY <1>9, <1>11, <1>12, <1>13, <1>15, <1>16, Publishes

\* A notice or an access behind the list leaves it the last.
LEMMA StillLast ==
    ASSUME NEW pg \in PageStates, NEW m \in Messages, m.kind # "bans",
           NEW new, new = pg \/ new = Sent(pg, m)
    PROVE  /\ new.link = pg.link /\ new.id = pg.id
           /\ new.notice = pg.notice /\ new.reconnect = pg.reconnect
           /\ \A bans : LastBans(pg, bans) => LastBans(new, bans)
<1>1. CASE new = pg
  BY <1>1
<1>2. CASE new = Sent(pg, m)
  <2>1. pg.link # "up" => new = pg
    BY <1>2 DEF Sent
  <2>2. pg.link = "up" => \A bans : LastBans(pg, bans) => LastBans(new, bans)
    BY <1>2, SentOther
  <2> QED
    BY <1>2, <2>1, <2>2, SentFacts
<1> QED
  BY <1>1, <1>2

\* A ban replaces the earlier ones of the same person, and of nobody else.
LEMMA BanUserBans ==
    ASSUME IInv, Same, NEW q \in Pages, NEW b \in BanRecords, b.secret = Secret(q),
           issued' = Append(issued, b),
           secrets' = [s \in DOMAIN secrets |->
                          IF s = Secret(q) THEN Len(issued) + 1 ELSE secrets[s]],
           ips' = [i \in DOMAIN ips |-> IF i = Ip(q) THEN Len(issued) + 1 ELSE ips[i]]
    PROVE  /\ issued' \in Seq(BanRecords) /\ secrets' \in [Known -> Nat]
           /\ ips' \in [KnownIps -> Nat] /\ BansInv'
<1>1. PICK n \in Nat : n = Len(issued)
  BY LenProperties DEF IInv, ServerInv
<1>2. DOMAIN issued = 1 .. n
  BY <1>1, LenProperties DEF IInv, ServerInv
<1>3. PICK new : new = issued'
  OBVIOUS
<1>4. /\ new \in Seq(BanRecords) /\ Len(new) = n + 1
      /\ (\A k \in 1 .. n : new[k] = issued[k]) /\ new[n + 1] = b
  BY <1>1, <1>3, AppendProperties DEF IInv, ServerInv
<1>5. DOMAIN new = 1 .. (n + 1)
  BY <1>4, LenProperties
<1>6. 1 .. (n + 1) = (1 .. n) \cup {n + 1} /\ n + 1 \in Nat
  OBVIOUS
<1>7. DOMAIN secrets = Known /\ DOMAIN ips = KnownIps /\ secrets \in [Known -> Nat]
      /\ ips \in [KnownIps -> Nat]
  BY DEF IInv, ServerInv
<1>8. PICK sec : sec = secrets'
  OBVIOUS
<1>9. PICK adr : adr = ips'
  OBVIOUS
<1>10. /\ sec \in [Known -> Nat] /\ adr \in [KnownIps -> Nat]
       /\ \A s \in Known : sec[s] = IF s = Secret(q) THEN n + 1 ELSE secrets[s]
       /\ \A i \in KnownIps : adr[i] = IF i = Ip(q) THEN n + 1 ELSE ips[i]
  BY <1>1, <1>6, <1>7, <1>8, <1>9
<1>11. (\A s \in Known : sec[s] # 0 => sec[s] \in DOMAIN new)
       /\ (\A i \in KnownIps : adr[i] # 0 => adr[i] \in DOMAIN new)
  BY <1>2, <1>5, <1>6, <1>10 DEF IInv, BansInv
<1>12. ASSUME NEW id \in 1 .. (n + 1), ~new[id].lifted, new[id].secret # None,
              \A later \in 1 .. (n + 1) : later > id => new[later].secret # new[id].secret
       PROVE  new[id].secret \in Known /\ sec[new[id].secret] = id
  <2>1. CASE id = n + 1
    <3>1. new[id].secret = Secret(q)
      BY <1>4, <2>1
    <3>2. Secret(q) \in Known
      BY <1>12, <3>1 DEF Known
    <3> QED
      BY <1>10, <2>1, <3>1, <3>2
  <2>2. CASE id \in 1 .. n
    <3>1. n + 1 > id /\ new[id] = issued[id]
      BY <1>4, <2>2
    <3>2. new[id].secret # Secret(q)
      BY <1>4, <1>6, <1>12, <3>1
    <3>3. \A later \in 1 .. n : later > id => issued[later].secret # issued[id].secret
      BY <1>4, <1>6, <1>12, <3>1
    <3>4. issued[id].secret \in Known /\ secrets[issued[id].secret] = id
      BY <1>2, <1>12, <2>2, <3>1, <3>3 DEF IInv, BansInv, Ban
    <3> QED
      BY <1>10, <3>1, <3>2, <3>4
  <2> QED
    BY <1>6, <1>12, <2>1, <2>2
<1>13. BansInv'
  <2>1. Known' = Known /\ KnownIps' = KnownIps
    BY DEF Same
  <2> QED
    BY <1>3, <1>5, <1>8, <1>9, <1>11, <1>12, <2>1 DEF BansInv, Ban
<1> QED
  BY <1>3, <1>4, <1>8, <1>9, <1>10, <1>13

\* ... before and after the step.
LEMMA ActiveNext ==
    ASSUME issued' \in Seq(BanRecords)
    PROVE  ActiveBans' \in SUBSET Nat
<1>1. DOMAIN issued' = 1 .. Len(issued') /\ Len(issued') \in Nat
  BY LenProperties
<1>2. ActiveBans' \subseteq DOMAIN issued'
  BY DEF ActiveBans
<1> QED
  BY <1>1, <1>2

\* A ban is in the list that is sent in the same turn.
LEMMA BanUserStep ==
    ASSUME IInv, NEW p \in Pages, NEW q \in Pages, NEW d \in Durations, BanUser(p, q, d)
    PROVE  IInv'
<1>1. Same
  BY LeftSpent DEF BanUser, Reportable, IInv
<1>2. PICK b : b = [secret |-> Secret(q), ip |-> Ip(q), end |-> now + d, lifted |-> FALSE]
  OBVIOUS
<1>3. b \in BanRecords /\ b.secret = Secret(q)
  <2>1. Secret(q) \in STRING /\ Ip(q) \in Addresses
    BY DEF IInv, ServerInv, Lefts, Secret, Ip
  <2>2. now + d \in Nat \ {0}
    BY ModerationAssumption DEF IInv, ServerInv
  <2>3. PICK x \in STRING, y \in Addresses, z \in Nat \ {0} :
            x = Secret(q) /\ y = Ip(q) /\ z = now + d
    BY <2>1, <2>2
  <2>4. b = [secret |-> x, ip |-> y, end |-> z, lifted |-> FALSE]
    BY <1>2, <2>3
  <2> QED
    BY <2>3, <2>4 DEF BanRecords
<1>4. /\ issued' = Append(issued, b)
      /\ secrets' = [s \in DOMAIN secrets |->
                          IF s = Secret(q) THEN Len(issued) + 1 ELSE secrets[s]]
      /\ ips' = [i \in DOMAIN ips |-> IF i = Ip(q) THEN Len(issued) + 1 ELSE ips[i]]
  BY <1>2 DEF BanUser
<1>5. /\ issued' \in Seq(BanRecords) /\ secrets' \in [Known -> Nat]
      /\ ips' \in [KnownIps -> Nat] /\ BansInv'
  BY <1>1, <1>3, <1>4, BanUserBans
<1>6. PICK bans : bans = ActiveBans'
  OBVIOUS
<1>7. PICK m \in Messages : m = [kind |-> "notice"]
  BY NewsFacts
<1>8. PICK mid : mid = Published(page, joined, bans)
  OBVIOUS
<1>9. /\ page' = Tell(mid, q, m) /\ m.kind # "bans"
      /\ banTimer' = NextBanEnd(joined, bans, Ends(issued'))
      /\ UNCHANGED <<now, joined, grants>>
      /\ closing' = closing \cup {Socket(q)} /\ Socket(q) \in joined
  BY <1>6, <1>7, <1>8 DEF BanUser, Reportable
<1>10. bans \in SUBSET Nat /\ page \in [Pages -> PageStates]
  BY <1>5, <1>6, ActiveNext DEF IInv, PagesInv
<1>11. /\ mid \in [Pages -> PageStates]
       /\ \A r \in Pages :
            /\ mid[r].link = page[r].link /\ mid[r].id = page[r].id
            /\ mid[r].notice = page[r].notice /\ mid[r].reconnect = page[r].reconnect
            /\ page[r].link = "up" /\ <<r, page[r].id>> \in joined => LastBans(mid[r], bans)
  BY <1>8, <1>10, PublishedIs
<1>12. /\ page' \in [Pages -> PageStates]
       /\ \A r \in Pages : page'[r] = mid[r] \/ page'[r] = Sent(mid[r], m)
  BY <1>9, <1>11, TellIs
<1>13. \A r \in Pages :
            /\ page'[r].link = mid[r].link /\ page'[r].id = mid[r].id
            /\ page'[r].notice = mid[r].notice /\ page'[r].reconnect = mid[r].reconnect
            /\ LastBans(mid[r], bans) => LastBans(page'[r], bans)
  BY <1>9, <1>11, <1>12, StillLast
<1>14. \A r \in Pages : Listens(r)' /\ Open(page'[r]) => LastBans(page'[r], ActiveBans')
  BY <1>6, <1>9, <1>11, <1>13 DEF Listens, Socket
<1>15. \A r \in Pages : Rests(page'[r])
  BY <1>11, <1>13, PageFacts DEF Rests
<1>16. joined' \subseteq Pages \X Nat /\ closing' \subseteq Pages \X Nat
  BY <1>9 DEF IInv, ServerInv
<1>17. banTimer' = NextBanEnd(joined', ActiveBans', Ends(issued'))
  BY <1>6, <1>9
<1> QED
  BY <1>1, <1>5, <1>9, <1>12, <1>14, <1>15, <1>16, <1>17, Publishes

\* Lifting a ban frees the keys that it holds, and no other.
LEMMA UnbanBans ==
    ASSUME IInv, Same, NEW id \in DOMAIN issued,
           issued' = [issued EXCEPT ![id].lifted = TRUE],
           secrets' = Without(secrets, id), ips' = Without(ips, id)
    PROVE  /\ issued' \in Seq(BanRecords) /\ secrets' \in [Known -> Nat]
           /\ ips' \in [KnownIps -> Nat] /\ BansInv' /\ Ends(issued') = Ends(issued)
<1>1. PICK old : old = issued
  OBVIOUS
<1>2. old \in Seq(BanRecords)
  BY <1>1 DEF IInv, ServerInv
<1>3. PICK n \in Nat : n = Len(old)
  BY <1>2, LenProperties
<1>4. DOMAIN old = 1 .. n /\ id \in 1 .. n /\ \A k \in 1 .. n : old[k] \in BanRecords
  BY <1>1, <1>2, <1>3, LenProperties, ElementOfSeq
<1>5. PICK r : r = [old[id] EXCEPT !.lifted = TRUE]
  OBVIOUS
<1>6. r \in BanRecords /\ r.lifted = TRUE /\ r.secret = old[id].secret /\ r.end = old[id].end
  BY <1>4, <1>5 DEF BanRecords
<1>7. PICK new : new = issued'
  OBVIOUS
<1>8. new = [old EXCEPT ![id] = r]
  BY <1>1, <1>5, <1>7
<1>9. /\ new \in Seq(BanRecords) /\ DOMAIN new = 1 .. n
      /\ \A k \in 1 .. n : new[k] = IF k = id THEN r ELSE old[k]
  <2>1. /\ new \in Seq(BanRecords) /\ Len(new) = Len(old)
        /\ \A k \in 1 .. Len(old) : new[k] = IF k = id THEN r ELSE old[k]
    BY <1>2, <1>3, <1>4, <1>6, <1>8, ExceptSeq
  <2> QED
    BY <1>3, <2>1, LenProperties
<1>10. \A k \in 1 .. n : new[k].secret = old[k].secret /\ new[k].end = old[k].end
                         /\ (k # id => new[k] = old[k])
  BY <1>6, <1>9
<1>11. DOMAIN secrets = Known /\ DOMAIN ips = KnownIps /\ secrets \in [Known -> Nat]
      /\ ips \in [KnownIps -> Nat]
  BY DEF IInv, ServerInv
<1>12. PICK sec : sec = secrets'
  OBVIOUS
<1>13. PICK adr : adr = ips'
  OBVIOUS
<1>14. /\ sec \in [Known -> Nat] /\ adr \in [KnownIps -> Nat]
       /\ \A s \in Known : sec[s] = IF secrets[s] = id THEN 0 ELSE secrets[s]
       /\ \A i \in KnownIps : adr[i] = IF ips[i] = id THEN 0 ELSE ips[i]
  BY <1>11, <1>12, <1>13 DEF Without
<1>15. (\A s \in Known : sec[s] # 0 => sec[s] \in DOMAIN new)
       /\ (\A i \in KnownIps : adr[i] # 0 => adr[i] \in DOMAIN new)
  BY <1>1, <1>4, <1>9, <1>14 DEF IInv, BansInv
<1>16. ASSUME NEW k \in 1 .. n, ~new[k].lifted, new[k].secret # None,
              \A later \in 1 .. n : later > k => new[later].secret # new[k].secret
       PROVE  new[k].secret \in Known /\ sec[new[k].secret] = k
  <2>1. k # id
    BY <1>6, <1>9, <1>16
  <2>2. ~old[k].lifted /\ old[k].secret # None
        /\ \A later \in 1 .. n : later > k => old[later].secret # old[k].secret
    BY <1>10, <1>16, <2>1
  <2>3. old[k].secret \in Known /\ secrets[old[k].secret] = k
    BY <1>1, <1>4, <2>2 DEF IInv, BansInv, Ban
  <2> QED
    BY <1>10, <1>14, <2>1, <2>3
<1>17. BansInv'
  <2>1. Known' = Known /\ KnownIps' = KnownIps
    BY DEF Same
  <2> QED
    BY <1>7, <1>9, <1>12, <1>13, <1>15, <1>16, <2>1 DEF BansInv, Ban
<1>18. Ends(new) = Ends(old)
  BY <1>4, <1>9, <1>10 DEF Ends
<1> QED
  BY <1>1, <1>7, <1>9, <1>12, <1>13, <1>14, <1>17, <1>18

\* ... and a ban that is lifted is not.
LEMMA UnbanStep ==
    ASSUME IInv, NEW p \in Pages, NEW id, Unban(p, id)
    PROVE  IInv'
<1>1. Same
  BY LeftSpent DEF Unban, IInv
<1>2. /\ id \in ActiveBans /\ UNCHANGED <<now, joined, closing, grants>>
      /\ issued' = [issued EXCEPT ![id].lifted = TRUE]
      /\ secrets' = Without(secrets, id) /\ ips' = Without(ips, id)
      /\ banTimer' = NextBanEnd(joined, ActiveBans', Ends(issued))
  BY DEF Unban
<1>3. /\ issued' \in Seq(BanRecords) /\ secrets' \in [Known -> Nat]
      /\ ips' \in [KnownIps -> Nat] /\ BansInv' /\ Ends(issued') = Ends(issued)
  BY <1>1, <1>2, UnbanBans, ActiveIs
<1>4. PICK bans : bans = ActiveBans'
  OBVIOUS
<1>5. PICK told : told = Concerned(Ban(id).secret, Ban(id).ip)
  OBVIOUS
<1>6. PICK mid : mid = Published(page, joined, bans)
  OBVIOUS
<1>7. page' = TellAccess(mid, told)
  BY <1>4, <1>5, <1>6 DEF Unban
<1>8. bans \in SUBSET Nat /\ page \in [Pages -> PageStates]
  BY <1>3, <1>4, ActiveNext DEF IInv, PagesInv
<1>9. /\ mid \in [Pages -> PageStates]
      /\ \A r \in Pages :
            /\ mid[r].link = page[r].link /\ mid[r].id = page[r].id
            /\ mid[r].notice = page[r].notice /\ mid[r].reconnect = page[r].reconnect
            /\ page[r].link = "up" /\ <<r, page[r].id>> \in joined => LastBans(mid[r], bans)
  BY <1>6, <1>8, PublishedIs
<1>10. banTimer' = NextBanEnd(joined', ActiveBans', Ends(issued')) /\ banTimer' \in Nat
  <2>1. banTimer' = NextBanEnd(joined', bans, Ends(issued'))
    BY <1>2, <1>3, <1>4
  <2>2. bans \subseteq DOMAIN issued'
    BY <1>4 DEF ActiveBans
  <2>3. PICK is \in Seq(BanRecords) : is = issued'
    BY <1>3
  <2>4. NextBanEnd(joined', bans, Ends(is)) \in Nat
    BY <1>8, <2>2, <2>3, NextIs
  <2> QED
    BY <1>4, <2>1, <2>3, <2>4
<1>11. ServerInv'
  BY <1>1, <1>2, <1>3, <1>10 DEF IInv, ServerInv, Same
<1>12. \A r \in Pages : Access(r)' \in AccessStates
  BY <1>3, <1>11, AccessNext
<1>13. PICK news \in [Pages -> AccessNews] :
         /\ page' \in [Pages -> PageStates]
         /\ \A r \in Pages : page'[r] = mid[r] \/ page'[r] = Sent(mid[r], news[r])
  BY <1>7, <1>9, <1>12, TellAccessIs
<1>14. ASSUME NEW r \in Pages
       PROVE  /\ page'[r].link = mid[r].link /\ page'[r].id = mid[r].id
              /\ page'[r].notice = mid[r].notice /\ page'[r].reconnect = mid[r].reconnect
              /\ LastBans(mid[r], bans) => LastBans(page'[r], bans)
  <2>1. PICK m \in Messages : m = news[r] /\ m.kind # "bans"
    BY DEF AccessNews, Messages
  <2>2. mid[r] \in PageStates
    BY <1>9
  <2>3. page'[r] = mid[r] \/ page'[r] = Sent(mid[r], m)
    BY <1>13, <2>1
  <2> QED
    BY <2>1, <2>2, <2>3, StillLast
<1>15. \A r \in Pages : Listens(r)' /\ Open(page'[r]) => LastBans(page'[r], ActiveBans')
  BY <1>2, <1>4, <1>9, <1>14 DEF Listens, Socket
<1>16. \A r \in Pages : Rests(page'[r])
  BY <1>9, <1>14, PageFacts DEF Rests
<1>17. joined' \subseteq Pages \X Nat /\ closing' \subseteq Pages \X Nat
  BY <1>2 DEF IInv, ServerInv
<1> QED
  BY <1>1, <1>2, <1>3, <1>10, <1>13, <1>15, <1>16, <1>17, Publishes

-----------------------------------------------------------------------------
(* Theorems *)

\* Nobody is banned to begin with.
LEMMA InitOk == Init => IInv
<1> SUFFICES ASSUME Init
             PROVE  IInv
  OBVIOUS
<1>1. PICK s \in Scenarios : left = Addressed(s)
  BY DEF Init
<1>2. left \in Lefts
  <2>1. s \in [open : SUBSET Pages, reporters : SUBSET Pages, permanent : SUBSET STRING,
               secret : [Pages -> STRING], prompt : BOOLEAN,
               ip : [Pages -> [remote : STRING, header : Seq(STRING)]],
               reports : Nat, unbans : Nat, grants : Nat, cuts : Nat]
    BY ModerationAssumption
  <2>2. PICK ip : ip = [p \in Pages |-> ClientIp(Network, s.ip[p])]
    OBVIOUS
  <2>3. left = [s EXCEPT !.ip = ip]
    BY <1>1, <2>2 DEF Addressed
  <2>4. \A p \in Pages : s.ip[p] \in Requests
    BY <2>1 DEF Requests
  <2>5. ip \in [Pages -> Addresses]
    BY <2>2, <2>4 DEF Addresses
  <2> QED
    BY <2>1, <2>3, <2>5 DEF Lefts
<1>3. << >> \in Seq(BanRecords) /\ << >> \in Seq(Messages) /\ DOMAIN << >> = {}
  BY EmptySeq
<1>4. secrets \in [Known -> Nat] /\ (\A k \in Known : secrets[k] = 0)
      /\ grants \in [Known -> Nat]
  <2>1. secrets = [k \in Known |-> 0] /\ grants = [k \in DOMAIN secrets |-> 0]
    BY DEF Init, Known, Secret
  <2> QED
    BY <2>1
<1>5. ips \in [KnownIps -> Nat] /\ (\A i \in KnownIps : ips[i] = 0)
  BY DEF Init, KnownIps
<1>6. joined \subseteq Pages \X Nat
  BY <1>2 DEF Init, Lefts
<1>7. ServerInv
  BY <1>2, <1>3, <1>4, <1>5, <1>6 DEF Init, ServerInv, Never
<1>8. issued = << >>
  BY DEF Init
<1>9. BansInv
  BY <1>3, <1>4, <1>5, <1>8 DEF BansInv
<1>10. \A p \in Pages : Access(p) \in AccessStates
  BY <1>7, <1>9, AccessFacts
<1>11. \A p \in Pages :
          page[p] = [link |-> IF p \in left.open THEN "up" ELSE "none", id |-> 1,
                     access |-> Access(p), timer |-> Never, notice |-> None, bans |-> {},
                     inbox |-> << >>, reconnect |-> None]
  BY DEF Init
<1>12. ASSUME NEW p \in Pages
       PROVE  /\ page[p] \in PageStates /\ page[p].reconnect = None
              /\ page[p].inbox = << >> /\ page[p].bans = {}
  <2>1. PICK a \in AccessStates : a = Access(p)
    BY <1>10
  <2>2. PICK l \in {"up", "none"} : l = IF p \in left.open THEN "up" ELSE "none"
    OBVIOUS
  <2>3. PICK box \in Seq(Messages) : box = << >>
    BY <1>3
  <2>4. page[p] = [link |-> l, id |-> 1, access |-> a, timer |-> 0, notice |-> None,
                   bans |-> {}, inbox |-> box, reconnect |-> None]
    BY <1>11, <2>1, <2>2, <2>3 DEF Never
  <2> QED
    BY <2>3, <2>4 DEF PageStates
<1>13. PagesInv
  <2>1. DOMAIN page = Pages /\ page = [p \in Pages |-> page[p]]
    BY DEF Init
  <2> QED
    BY <1>12, <2>1 DEF PagesInv
<1>14. ShownInv
  <2>1. ActiveBans = {}
    BY <1>3, <1>8 DEF ActiveBans
  <2>2. CurrentBans({})
    BY <2>1 DEF CurrentBans
  <2>3. \A p \in Pages : LastBans(page[p], {})
    <3>1. Len(<< >>) = 0 /\ 1 .. 0 = {}
      BY EmptySeq
    <3> QED
      BY <1>12, <3>1 DEF LastBans
  <2> QED
    BY <2>2, <2>3 DEF ShownInv
<1> QED
  BY <1>7, <1>9, <1>12, <1>13, <1>14 DEF IInv, NoticeInv, Rests, None

\* Every turn keeps the invariant.
LEMMA Inductive == IInv /\ [Next]_vars => IInv'
<1> SUFFICES ASSUME IInv, [Next]_vars
             PROVE  IInv'
  OBVIOUS
<1>1. CASE UNCHANGED vars
  <2>1. UNCHANGED <<page, Server, now, left>>
    BY <1>1 DEF vars, Server
  <2>2. Same
    BY <2>1, LeftSame DEF IInv
  <2>3. UNCHANGED <<secrets, ips, issued, now, grants, joined, closing, banTimer>>
    BY <2>1 DEF Server
  <2>4. page' = page /\ \A p \in Pages : Follows(p)
    BY <2>1, <2>3, FollowsSame
  <2>5. \A p \in Pages : Rests(page'[p])
    BY <2>4, PageFacts
  <2>6. page' \in [Pages -> PageStates] /\ grants' \in [Known -> Nat]
        /\ closing' \subseteq Pages \X Nat /\ banTimer' \in Nat /\ joined' \subseteq joined
    BY <2>3, <2>4 DEF IInv, ServerInv, PagesInv
  <2> QED
    BY <2>2, <2>3, <2>4, <2>5, <2>6, Quiet
<1>2. CASE Tick
  BY <1>2, TickStep
<1>3. CASE BanTimerFires
  BY <1>3, BanTimerStep
<1>4. ASSUME NEW s \in joined, CloseReported(s) \/ Drop(s)
      PROVE  IInv'
  BY <1>4, CloseStep
<1>5. ASSUME NEW p \in Pages, Join(p) \/ Hear(p) \/ Acknowledge(p) \/ Reconnect(p)
                              \/ RefreshAccess(p) \/ Cut(p)
      PROVE  IInv'
  BY <1>5, JoinStep, HearStep, AcknowledgeStep, StartStep, CutStep
<1>6. ASSUME NEW p \in Pages, NEW q \in Pages,
             ReportProtected(p, q) \/ ReportByPeer(p, q) \/ Warn(p, q)
      PROVE  IInv'
  BY <1>6, ReportProtectedStep, ReportByPeerStep, WarnStep
<1>7. ASSUME NEW p \in Pages, NEW q \in Pages, NEW d \in Durations, BanUser(p, q, d)
      PROVE  IInv'
  BY <1>7, BanUserStep
<1>8. ASSUME NEW p \in Pages, NEW q \in Pages, NEW d \in Durations \cup {0},
             SetTemporaryModerator(p, q, d)
      PROVE  IInv'
  BY <1>8, SetTemporaryModeratorStep
<1>9. ASSUME NEW p \in Pages, NEW id \in page[p].bans, Unban(p, id)
      PROVE  IInv'
  BY <1>9, UnbanStep
<1> QED
  BY <1>1, <1>2, <1>3, <1>4, <1>5, <1>6, <1>7, <1>8, <1>9 DEF Next

\* The strengthening holds in every reachable state.
THEOREM Invariance == Spec => []IInv
<1> QED
  BY InitOk, Inductive, PTL DEF Spec

\* A ban keeps its person from drawing until it ends or is lifted, or is replaced by
\* a newer one of the same person, whatever bans, loans and liftings meet its
\* address or its neighbours (getEditBanExpiresAt takes the later of the two ends).
THEOREM BansHold == Spec => []BanHolds
<1>1. IInv => BanHolds
  <2> SUFFICES ASSUME IInv, NEW id \in DOMAIN issued, ~Ban(id).lifted, InForce(id),
                      Ban(id).secret # None,
                      \A later \in DOMAIN issued :
                          later > id => Ban(later).secret # Ban(id).secret
               PROVE  BanEnd(Ban(id).secret, Ban(id).ip) >= Ban(id).end
    BY DEF BanHolds
  <2>1. Ban(id).secret \in Known /\ secrets[Ban(id).secret] = id
    BY DEF IInv, BansInv
  <2>2. DOMAIN issued \subseteq Nat \ {0} /\ \A k \in DOMAIN issued : Ban(k).end \in Nat
    <3>1. /\ DOMAIN issued = 1 .. Len(issued) /\ Len(issued) \in Nat
          /\ \A k \in 1 .. Len(issued) : issued[k] \in BanRecords
      BY LenProperties, ElementOfSeq DEF IInv, ServerInv
    <3> QED
      BY <3>1 DEF Ban, BanRecords
  <2>3. DOMAIN secrets = Known /\ DOMAIN ips = KnownIps
    BY DEF IInv, ServerInv
  <2>4. KeyBanEnd(secrets, Ban(id).secret) = Ban(id).end
    BY <2>1, <2>2, <2>3 DEF KeyBanEnd
  <2>5. KeyBanEnd(ips, Ban(id).ip) \in Nat
    BY <2>2, <2>3 DEF KeyBanEnd, IInv, BansInv, Never
  <2>6. Ban(id).end \in Nat
    BY <2>2
  <2> QED
    BY <2>4, <2>5, <2>6, Later DEF BanEnd
<1> QED
  BY <1>1, Invariance, PTL

\* A page that has heard everything shows the bans in force, and besides these only
\* some that the timer of emitBoardBans is due to remove.
THEOREM ShownBansAreCurrent == Spec => []ShownBansCurrent
<1>1. IInv => ShownBansCurrent
  <2> SUFFICES ASSUME IInv, NEW p \in Pages, Listens(p), page[p].inbox = << >>
               PROVE  /\ {id \in page[p].bans : InForce(id)} = ActiveBans
                      /\ page[p].bans \subseteq ActiveBans \/ (banTimer # Never /\ banTimer <= now)
    BY DEF ShownBansCurrent
  <2>1. Len(page[p].inbox) = 0 /\ 1 .. 0 = {}
    BY EmptySeq
  <2>2. Open(page[p]) /\ \A bans : LastBans(page[p], bans) => page[p].bans = bans
    BY <2>1 DEF Open, LastBans
  <2>3. CurrentBans(page[p].bans)
    BY <2>2 DEF IInv, ShownInv
  <2>4. {id \in page[p].bans : InForce(id)} = ActiveBans
    BY <2>3 DEF CurrentBans
  <2>5. ASSUME NEW id \in page[p].bans, id \notin ActiveBans
        PROVE  banTimer # Never /\ banTimer <= now
    <3>1. ~(Ban(id).end > now) /\ banTimer # Never /\ banTimer <= Ban(id).end
      BY <2>3, <2>4, <2>5 DEF CurrentBans, InForce
    <3>2. Ban(id).end \in Nat /\ now \in Nat /\ banTimer \in Nat
      <4>1. /\ DOMAIN issued = 1 .. Len(issued)
            /\ \A k \in 1 .. Len(issued) : issued[k] \in BanRecords
        BY LenProperties, ElementOfSeq DEF IInv, ServerInv
      <4>2. id \in DOMAIN issued
        BY <2>3, <2>5 DEF CurrentBans
      <4> QED
        BY <4>1, <4>2 DEF Ban, BanRecords, IInv, ServerInv
    <3> QED
      BY <3>1, <3>2
  <2> QED
    BY <2>4, <2>5
<1> QED
  BY <1>1, Invariance, PTL

-----------------------------------------------------------------------------
(* Who connects *)

\* These pages have the connections of those.
Links(pg, old) ==
    /\ DOMAIN pg = Pages
    /\ \A p \in Pages : "link" \in DOMAIN pg[p] /\ pg[p].link = old[p].link

\* Whatever the server sends, it opens and closes no connection by itself.
LEMMA TellLinks ==
    ASSUME NEW old, NEW pg, Links(pg, old), NEW q, NEW m
    PROVE  Links(Tell(pg, q, m), old)
<1>1. CASE pg[q].link = "up"
  <2>1. PICK new : new = Tell(pg, q, m)
    OBVIOUS
  <2>2. new = [pg EXCEPT ![q].inbox = Append(@, m)]
    BY <1>1, <2>1 DEF Tell
  <2>3. DOMAIN new = Pages /\ \A p \in Pages :
           new[p] = pg[p] \/ new[p] = [pg[p] EXCEPT !.inbox = Append(@, m)]
    BY <2>2 DEF Links
  <2>4. \A p \in Pages : "link" \in DOMAIN new[p] /\ new[p].link = pg[p].link
    BY <2>3 DEF Links
  <2> QED
    BY <2>1, <2>3, <2>4 DEF Links
<1>2. CASE pg[q].link # "up"
  BY <1>2 DEF Tell
<1> QED
  BY <1>1, <1>2

\* ... to one, to all,
LEMMA PublishLinks ==
    ASSUME NEW old, NEW pg, Links(pg, old), NEW room, NEW bans
    PROVE  Links(Published(pg, room, bans), old)
<1>1. PICK m : m = [kind |-> "bans", bans |-> bans]
  OBVIOUS
<1>2. Published(pg, room, bans) =
        [p \in Pages |-> IF <<p, pg[p].id>> \in room THEN Tell(pg, p, m)[p] ELSE pg[p]]
  BY <1>1 DEF Published, TellAll
<1>3. \A p \in Pages : Links(Tell(pg, p, m), old)
  BY TellLinks
<1> QED
  BY <1>2, <1>3 DEF Links

\* ... or to those whose access has changed.
LEMMA AccessLinks ==
    ASSUME NEW old, NEW pg, Links(pg, old), NEW room
    PROVE  Links(TellAccess(pg, room), old)
<1>1. PICK news : news = [p \in Pages |-> [kind |-> "access", access |-> Access(p)']]
  OBVIOUS
<1>2. \A p \in Pages : news[p] = [kind |-> "access", access |-> Access(p)']
  BY <1>1
<1>3. TellAccess(pg, room) =
        [p \in Pages |-> IF <<p, pg[p].id>> \in room THEN Tell(pg, p, news[p])[p]
                         ELSE pg[p]]
  BY <1>2 DEF TellAccess
<1>4. \A p \in Pages : Links(Tell(pg, p, news[p]), old)
  BY TellLinks
<1> QED
  BY <1>3, <1>4 DEF Links

\* Of the steps of the server only Join changes a connection, which it opens.
LEMMA ServerLinks ==
    ASSUME IInv,
           \/ UNCHANGED vars \/ Tick \/ BanTimerFires
           \/ \E s \in joined : CloseReported(s) \/ Drop(s)
           \/ \E p, q \in Pages : ReportProtected(p, q) \/ ReportByPeer(p, q) \/ Warn(p, q)
           \/ \E p, q \in Pages, d \in Durations : BanUser(p, q, d)
           \/ \E p, q \in Pages, d \in Durations \cup {0} : SetTemporaryModerator(p, q, d)
           \/ \E p \in Pages : \E id \in page[p].bans : Unban(p, id)
    PROVE  Links(page', page)
<1>1. Links(page, page)
  BY DEF IInv, PagesInv, PageStates, Links
<1>2. CASE UNCHANGED vars \/ Tick
  BY <1>1, <1>2 DEF vars, Tick
<1>3. CASE BanTimerFires
  BY <1>1, <1>3, PublishLinks DEF BanTimerFires
<1>4. ASSUME NEW s, Leave(s)
      PROVE  Links(page', page)
  BY <1>1, <1>4, TellLinks DEF Leave
<1>5. CASE \E s \in joined : CloseReported(s) \/ Drop(s)
  BY <1>4, <1>5 DEF CloseReported, Drop
<1>6. ASSUME NEW p, NEW q, ReportProtected(p, q) \/ ReportByPeer(p, q) \/ Warn(p, q)
      PROVE  Links(page', page)
  <2>1. CASE ReportProtected(p, q)
    BY <1>4, <2>1 DEF ReportProtected
  <2>2. CASE ReportByPeer(p, q)
    BY <1>1, <2>2, TellLinks DEF ReportByPeer
  <2>3. CASE Warn(p, q)
    BY <1>1, <2>3, TellLinks DEF Warn
  <2> QED
    BY <1>6, <2>1, <2>2, <2>3
<1>7. ASSUME NEW p, NEW q, NEW d, BanUser(p, q, d)
      PROVE  Links(page', page)
  <2>1. PICK mid : mid = Published(page, joined, ActiveBans')
    OBVIOUS
  <2>2. page' = Tell(mid, q, [kind |-> "notice"])
    BY <1>7, <2>1 DEF BanUser
  <2> QED
    BY <1>1, <2>1, <2>2, PublishLinks, TellLinks
<1>8. ASSUME NEW p, NEW q, NEW d, SetTemporaryModerator(p, q, d)
      PROVE  Links(page', page)
  <2>1. PICK told : told = Concerned(Secret(q), Blank)
    OBVIOUS
  <2>2. page' = TellAccess(page, told)
    BY <1>8, <2>1 DEF SetTemporaryModerator
  <2> QED
    BY <1>1, <2>2, AccessLinks
<1>9. ASSUME NEW p, NEW id, Unban(p, id)
      PROVE  Links(page', page)
  <2>1. PICK mid : mid = Published(page, joined, ActiveBans')
    OBVIOUS
  <2>2. PICK told : told = Concerned(Ban(id).secret, Ban(id).ip)
    OBVIOUS
  <2>3. page' = TellAccess(mid, told)
    BY <1>9, <2>1, <2>2 DEF Unban
  <2> QED
    BY <1>1, <2>1, <2>3, PublishLinks, AccessLinks
<1> QED
  BY <1>2, <1>3, <1>5, <1>6, <1>7, <1>8, <1>9

\* Of the steps of the pages, the timer and Reconnect ask for one.
LEMMA PageLinks ==
    ASSUME IInv, NEW p \in Pages, NEW q \in Pages,
           Join(q) \/ Hear(q) \/ Acknowledge(q) \/ Reconnect(q) \/ RefreshAccess(q) \/ Cut(q),
           page[p].link = "down", page'[p].link = "connecting"
    PROVE  p = q /\ (Reconnect(q) \/ (RefreshAccess(q) /\ page'[p].timer = Never))
<1>1. page \in [Pages -> PageStates] /\ page[p] \in PageStates
  BY DEF IInv, PagesInv
<1>2. ~Join(q)
  <2>1. SUFFICES ASSUME Join(q)
                 PROVE  FALSE
    OBVIOUS
  <2>2. PICK box : box = <<[kind |-> "access", access |-> Access(q)]>>
    OBVIOUS
  <2>3. PICK mid : mid = [page EXCEPT ![q].link = "up", ![q].inbox = box]
    OBVIOUS
  <2>4. page' = Published(mid, joined', ActiveBans)
    BY <2>1, <2>2, <2>3 DEF Join
  <2>5. p # q
    BY <2>1 DEF Join
  <2>6. Links(mid, mid) /\ mid[p].link = "down"
    BY <1>1, <2>3, <2>5 DEF Links, PageStates
  <2>7. Links(page', mid)
    BY <2>4, <2>6, PublishLinks
  <2> QED
    BY <2>6, <2>7 DEF Links
<1>3. ~Hear(q)
  <2>1. Hear(q) => page[q].link = "up"
    BY DEF Hear
  <2>2. Hear(q) => (p # q => page'[p] = page[p])
    BY <1>1 DEF Hear
  <2> QED
    BY <2>1, <2>2
<1>4. ~Cut(q) /\ ~Acknowledge(q)
  <2>1. Cut(q) => page'[p].link = page[p].link
    BY <1>1 DEF Cut, PageStates
  <2>2. PICK n, r : /\ n = (IF page[q].notice = "open" THEN "read" ELSE None)
                    /\ r = (IF page[q].notice = "waiting" THEN "read" ELSE page[q].reconnect)
    OBVIOUS
  <2>3. PICK new : new = [page[q] EXCEPT !.notice = n, !.reconnect = r]
    OBVIOUS
  <2>4. Acknowledge(q) => page' = [page EXCEPT ![q] = new]
    BY <2>2, <2>3 DEF Acknowledge
  <2>5. new.link = page[q].link
    BY <1>1, <2>3 DEF PageStates
  <2>6. Acknowledge(q) => page'[p].link = page[p].link
    BY <1>1, <2>4, <2>5
  <2> QED
    BY <2>1, <2>6
<1>5. Reconnect(q) \/ RefreshAccess(q) => p = q
  BY <1>1 DEF Reconnect, RefreshAccess
<1>6. CASE RefreshAccess(p)
  <2>1. PICK mid : mid = [page[p] EXCEPT !.timer = Never]
    OBVIOUS
  <2>2. /\ mid \in PageStates /\ mid.timer = Never /\ mid.reconnect = page[p].reconnect
        /\ mid.link = page[p].link /\ mid.notice = page[p].notice
    BY <1>1, <2>1 DEF PageStates, Never
  <2>3. Rests(mid)
    BY <2>2, PageFacts DEF Rests
  <2>4. PICK new \in Started(mid) : page' = [page EXCEPT ![p] = new]
    BY <1>6, <2>1 DEF RefreshAccess
  <2>5. page'[p].timer = Never
    BY <1>1, <2>2, <2>3, <2>4, StartedFacts
  <2> QED
    BY <1>2, <1>3, <1>4, <1>5, <1>6, <2>5
<1> QED
  BY <1>2, <1>3, <1>4, <1>5, <1>6

\* A page that was told to go connects again before its user has acknowledged the
\* notice only by the timer of a ban or a loan that it knew of, or because its
\* user has just acknowledged an earlier notice.
THEOREM NoticesHold == Spec => NoticeHoldsThePage
<1>1. ASSUME IInv, [Next]_vars, NEW p \in Pages,
             page[p].notice = "waiting", page[p].link = "down", page'[p].link = "connecting"
      PROVE  \/ page[p].timer # Never /\ page'[p].timer = Never
             \/ page[p].reconnect = "read"
  <2>1. ~Links(page', page)
    BY <1>1 DEF Links
  <2>2. PICK q \in Pages : Join(q) \/ Hear(q) \/ Acknowledge(q) \/ Reconnect(q)
                           \/ RefreshAccess(q) \/ Cut(q)
    BY <1>1, <2>1, ServerLinks DEF Next
  <2>3. p = q /\ (Reconnect(q) \/ (RefreshAccess(q) /\ page'[p].timer = Never))
    BY <1>1, <2>2, PageLinks
  <2>4. Reconnect(p) => page[p].reconnect = "read"
    BY <1>1, PageFacts DEF Reconnect, PageStates, Rests
  <2> QED
    BY <2>3, <2>4 DEF RefreshAccess
<1>2. IInv /\ [Next]_vars =>
         \A p \in Pages :
            /\ page[p].notice = "waiting" /\ page[p].link = "down"
            /\ page'[p].link = "connecting"
            => \/ page[p].timer # Never /\ page'[p].timer = Never
               \/ page[p].reconnect = "read"
  BY <1>1
<1> QED
  BY <1>2, Invariance, PTL DEF Spec, NoticeHoldsThePage
=============================================================================
