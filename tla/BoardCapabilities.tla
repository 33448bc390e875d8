------------------------- MODULE BoardCapabilities -------------------------
(***************************************************************************)
(* Who may do what on a board: the role a visitor's token and secret give, *)
(* and the capabilities this role has, together with a temporary moderator *)
(* grant and a ban that end by the clock.  Pages served over HTTP, sockets *)
(* and each write ask the same resolver.                                   *)
(***************************************************************************)
EXTENDS Naturals, Sequences

Granted == {"moderator", "editor", "reader"}
None == "none"   \* no board, no token, no secret
Never == 0       \* the end of what does not end, or was not given; times are positive

\* A token claims a sequence of [role, board] pairs, or no roles at all
\* ("unclaimed"), or it is malformed, forged or expired ("invalid").
\* roleInBoard: the last claim that names the board counts; without one, a
\* token that names no board at all is valid on every board.
RoleInBoard(roles, board) ==
    IF roles = "unclaimed" THEN "editor"
    ELSE IF roles = "invalid" THEN "forbidden"
    ELSE LET naming == {k \in DOMAIN roles : roles[k].board = board}
             last == CHOOSE k \in naming : \A j \in naming : j <= k
             moderator == \E k \in DOMAIN roles : roles[k].role = "moderator"
         IN  IF naming # {}
             THEN IF roles[last].role \in Granted THEN roles[last].role ELSE "forbidden"
             ELSE IF \E k \in DOMAIN roles : roles[k].board # None THEN "forbidden"
             ELSE IF moderator THEN "moderator" ELSE "editor"

\* roleForBoard: the moderators of the configuration are told by their secret.
RoleForBoard(configured, jwt, token, board) ==
    CASE configured      -> "moderator"
      [] ~configured /\ ~jwt -> "editor"
      [] ~configured /\ jwt  -> IF token = None THEN "forbidden" ELSE RoleInBoard(token, board)

\* readAccessState, from the ends of the temporary grant and of the ban.
AccessState(role, grantEnd, banEnd, now) ==
    CASE role = "moderator" ->
            [moderator |-> TRUE, banned |-> FALSE, refresh |-> Never]
      [] role # "moderator" /\ grantEnd > now ->
            [moderator |-> TRUE, banned |-> FALSE, refresh |-> grantEnd - now]
      [] role # "moderator" /\ grantEnd <= now ->
            [moderator |-> FALSE, banned |-> banEnd > now,
             refresh |-> IF banEnd > now THEN banEnd - now ELSE Never]

\* resolveCapabilitiesForAccessState
Capabilities(jwt, role, readonly, st) ==
    LET open == ~jwt \/ role # "forbidden" \/ st.moderator
    IN  IF ~jwt /\ ~st.moderator
        THEN [canOpen |-> TRUE, canEdit |-> ~readonly /\ ~st.banned, canClear |-> FALSE]
        ELSE [canOpen |-> open,
              canEdit |-> /\ open /\ ~st.banned
                          /\ ~readonly \/ st.moderator \/ role \in {"editor", "moderator"},
              canClear |-> st.moderator]

\* boardState: what a page is told about its access.
BoardState(jwt, role, readonly, st) ==
    LET caps == Capabilities(jwt, role, readonly, st)
    IN  [canEdit |-> caps.canEdit, canClear |-> caps.canClear,
         canBan |-> st.moderator, canGrant |-> role = "moderator",
         canReport |-> caps.canOpen /\ ~st.banned, refresh |-> st.refresh]

=============================================================================
