---------------------------- MODULE MCModeration ----------------------------
EXTENDS Moderation

BehindProxy == [source |-> "x-forwarded-for", hops |-> 1]
Via(address, sent) == Proxied(<<address, "proxy">>, sent)

S(prompt, open, reporters, secret, ip, r, u, g, c) ==
    [prompt |-> prompt, open |-> open, reporters |-> reporters,
     secret |-> [p \in Pages |-> secret[p]],
     ip |-> [p \in Pages |-> ip[p]],
     permanent |-> {"m"}, reports |-> r, unbans |-> u,
     grants |-> g, cuts |-> c]
\* A moderator and two neighbours who share an address; one person in two
\* tabs; a neighbour without a secret.
Neighbours == [mod |-> "m", ann |-> "a", bob |-> "b"]
TwoTabs == [mod |-> "m", ann |-> "a", bob |-> "a"]
NoSecret == [mod |-> "m", ann |-> "a", bob |-> None]
\* Two at one address, one of whom names another network before it; or nobody.
Same == [mod |-> Via("hq", << >>), ann |-> Via("cafe", << >>),
         bob |-> Via("cafe", <<"intranet">>)]
Apart == [mod |-> Via("hq", << >>), ann |-> Via("cafe", << >>), bob |-> Via("home", << >>)]
All == Pages
MCScenarios == {S(TRUE, All, {"mod"}, Neighbours, Same, 2, 0, 0, 0),
                S(FALSE, {"mod", "ann"}, All, Neighbours, Same, 1, 1, 0, 1),
                S(TRUE, All, {}, TwoTabs, Apart, 0, 0, 2, 0),
                S(TRUE, All, All, NoSecret, Same, 1, 1, 0, 0),
                S(FALSE, {"mod", "ann"}, All, Neighbours, Same, 1, 0, 1, 0),
                S(TRUE, {"mod", "ann"}, All, Neighbours, Same, 2, 1, 0, 0)}

\* The code's handling of a client behind proxies, for all short paths and
\* headers: with as many hops configured as there are proxies, the address is
\* the client's own, whatever stood in the header before; in the Forwarded
\* header a blank entry leaves the last proxy's address instead.
Addresses == {"hq", "cafe", "home"}
Upto(n, s) == UNION {[1 .. k -> s] : k \in 0 .. n}
ASSUME
    \A path \in Upto(3, Addresses), sent \in Upto(2, Addresses \cup {Blank}),
       source \in Chained :
        LET c == [source |-> source, hops |-> Len(path) - 1]
            request == Proxied(path, sent)
        IN  Len(path) > 1 =>
                ClientIp(c, request) =
                    IF source = "forwarded" /\ \E i \in DOMAIN sent : sent[i] = Blank
                    THEN request.remote ELSE path[1]
=============================================================================
