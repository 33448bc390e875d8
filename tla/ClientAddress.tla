--------------------------- MODULE ClientAddress ---------------------------
(***************************************************************************)
(* The address of a client, on which bans, write limits and display names  *)
(* are keyed.  Behind proxies the connection comes from the last one, and  *)
(* a header lists the addresses that the proxies saw, each appending the   *)
(* one that called it; what stands before these came with the request.     *)
(***************************************************************************)
EXTENDS Integers, SequencesExt

Blank == ""                  \* no address
Unresolved == "unresolved"   \* stands for the error that getRequestClientIp throws

Chained == {"x-forwarded-for", "forwarded"}
Sources == Chained \cup {"remoteaddress", "custom"}

\* parseIpConfigurationEnv: the server does not start with anything else.
IpConfiguration(c) ==
    /\ c.source \in Sources /\ c.hops \in Nat
    /\ c.hops > 0 => c.source \in Chained

\* resolveClientIpChain: so many hops back from the connection, or as far as the
\* chain goes; with no hops configured, its first entry.
Selected(chain, remote, hops) ==
    LET calls == <<remote>> \o Reverse(chain)
    IN  IF hops > 0 /\ remote # Blank
        THEN calls[1 + (IF hops < Len(chain) THEN hops ELSE Len(chain))]
        ELSE IF chain = << >> THEN Blank ELSE Head(chain)

\* A request comes from the address "remote" with the entries of the configured
\* header; without it there are none.  A blank entry makes a Forwarded header
\* invalid (parseForwardedChain) and is skipped otherwise (parseHeaderChain).
Readable(source, header) ==
    /\ header # << >>
    /\ source = "forwarded" => \A i \in DOMAIN header : header[i] # Blank
Entries(source, header) ==
    IF source = "forwarded" THEN header
    ELSE SelectSeq(header, LAMBDA hop : hop # Blank)

RequestClientIp(c, request) ==
    CASE c.source = "remoteaddress" ->
            IF request.remote = Blank THEN Unresolved ELSE request.remote
      [] c.source = "custom" ->
            IF request.header \in {<< >>, <<Blank>>} THEN Unresolved
            ELSE Head(request.header)
      [] c.source \in Chained ->
            IF ~Readable(c.source, request.header) THEN Unresolved
            ELSE Selected(Entries(c.source, request.header), request.remote, c.hops)

\* resolveClientIp, resolveRequestClientIpSafe
ClientIp(c, request) ==
    LET ip == RequestClientIp(c, request)
    IN  IF ip # Unresolved THEN ip
        ELSE IF request.remote # Blank THEN request.remote ELSE "unknown"

\* The request that reaches the server through n proxies, each of which appends
\* the address that called it, when the client sent what is in "sent".
\* path is the client's address followed by those of all proxies.
Proxied(path, sent) ==
    [remote |-> path[Len(path)], header |-> sent \o SubSeq(path, 1, Len(path) - 1)]
=============================================================================
