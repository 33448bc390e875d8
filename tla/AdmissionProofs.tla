-------------------------- MODULE AdmissionProofs --------------------------
(***************************************************************************)
(* Proofs about who a write is counted for and which writes are let        *)
(* through: the address of a client behind any number of proxies           *)
(* (ClientAddress), and, for any durations, limits, costs and delays, the  *)
(* validation of a connection, the windows in which the server counts, and *)
(* the pace of a page that never fills one (WriteAdmission).               *)
(***************************************************************************)
EXTENDS WriteAdmission, ClientAddress, TLAPS, SequenceTheorems, WellFoundedInduction,
        NaturalsInduction

-----------------------------------------------------------------------------
(* The address of a client *)

\* So many entries back from the connection as there are entries in the path
\* stands the client, whatever came before it (resolveClientIpChain).
LEMMA SelectedIsFirstOfPath ==
    ASSUME NEW Addresses, NEW sent \in Seq(Addresses),
           NEW path \in Seq(Addresses), path # << >>,
           NEW remote \in Addresses, remote # Blank
    PROVE  Selected(sent \o path, remote, Len(path)) = path[1]
<1> DEFINE chain == sent \o path
           back == Reverse(chain)
           calls == <<remote>> \o back
           n == Len(path)
<1>1. n \in Nat \ {0} /\ Len(sent) \in Nat
  BY EmptySeq
<1>2. chain \in Seq(Addresses) /\ Len(chain) = Len(sent) + n
  BY ConcatProperties
<1>3. chain[Len(sent) + 1] = path[1]
  BY <1>1, ConcatProperties
<1>4. back \in Seq(Addresses) /\ Len(back) = Len(chain)
      /\ \A i \in 1 .. Len(chain) : back[i] = chain[Len(chain) - i + 1]
  BY <1>1, <1>2 DEF Reverse
<1>5. calls[n + 1] = back[n]
  <2>1. <<remote>> \in Seq(Addresses) /\ Len(<<remote>>) = 1
    OBVIOUS
  <2>2. n + 1 \in 1 .. Len(<<remote>>) + Len(back)
    BY <1>1, <1>2, <1>4, <2>1
  <2> QED
    BY <1>1, <1>4, <2>1, <2>2, ConcatProperties
<1>6. back[n] = path[1]
  <2>1. n \in 1 .. Len(chain) /\ Len(chain) - n + 1 = Len(sent) + 1
    BY <1>1, <1>2
  <2> QED
    BY <1>3, <1>4, <2>1
<1>7. n > 0 /\ remote # Blank /\ (IF n < Len(chain) THEN n ELSE Len(chain)) = n
  BY <1>1, <1>2
<1>8. Selected(chain, remote, n) = calls[1 + n]
  BY <1>7 DEF Selected
<1> HIDE DEF chain, back, calls
<1>9. calls[1 + n] = path[1]
  BY <1>1, <1>5, <1>6
<1> QED
  BY <1>8, <1>9 DEF chain

\* With the Forwarded header and as many hops configured as there are proxies, a
\* client whose request brought along only complete entries is known by its own
\* address (getRequestClientIp).
LEMMA CompleteEntriesAreSkipped ==
    ASSUME NEW Addresses, Blank \notin Addresses, Unresolved \notin Addresses,
           NEW path \in Seq(Addresses), Len(path) > 1,
           NEW sent \in Seq(Addresses),
           NEW c, c.source = "forwarded", c.hops = Len(path) - 1
    PROVE  ClientIp(c, Proxied(path, sent)) = path[1]
<1> DEFINE n == Len(path) - 1
           calling == SubSeq(path, 1, n)
           header == sent \o calling
           remote == path[Len(path)]
           request == Proxied(path, sent)
<1>1. n \in Nat \ {0} /\ n + 1 = Len(path)
  <2>1. Len(path) \in Nat
    BY LenProperties
  <2>2. \A k \in Nat : k > 1 => k - 1 \in Nat \ {0} /\ k - 1 + 1 = k
    OBVIOUS
  <2> QED
    BY <2>1, <2>2
<1>2. calling \in Seq(Addresses) /\ Len(calling) = n /\ calling[1] = path[1]
  <2>1. n \in 1 .. Len(path) /\ 1 \in 1 .. n
    BY <1>1
  <2> QED
    BY <2>1, SubSeqProperties
<1>3. header \in Seq(Addresses) /\ Len(header) > 0
  <2>1. Len(sent) \in Nat
    BY LenProperties
  <2> QED
    BY <1>1, <1>2, <2>1, ConcatProperties
<1>4. header # << >> /\ \A i \in DOMAIN header : header[i] # Blank
  <2>1. header # << >>
    <3> HIDE DEF header
    <3>1. Len(<< >>) = 0
      BY EmptySeq
    <3> QED
      BY <1>3, <3>1
  <2>2. \A i \in 1 .. Len(header) : header[i] \in Addresses
    BY <1>3, ElementOfSeq
  <2> QED
    BY <1>3, <2>1, <2>2, LenProperties
<1>5. /\ remote \in Addresses /\ remote # Blank
      /\ path[1] \in Addresses /\ path[1] # Unresolved
  <2>1. 1 \in 1 .. Len(path) /\ Len(path) \in 1 .. Len(path)
    BY <1>1
  <2> QED
    BY <2>1, ElementOfSeq
<1>6. Selected(header, remote, n) = path[1]
  <2>1. calling # << >>
    BY <1>1, <1>2, EmptySeq
  <2> HIDE DEF n, calling, remote
  <2>2. Selected(sent \o calling, remote, Len(calling)) = calling[1]
    BY <1>2, <1>5, <2>1, SelectedIsFirstOfPath
  <2> QED
    BY <1>2, <2>2
<1>7. RequestClientIp(c, request) = path[1]
  <2>1. request.header = header /\ request.remote = remote
    BY DEF Proxied
  <2>2. c.hops = n
    OBVIOUS
  <2> HIDE DEF request, header, remote, n
  <2>3. Readable(c.source, header) /\ Entries(c.source, header) = header
    BY <1>4 DEF Readable, Entries
  <2> QED
    BY <1>6, <2>1, <2>2, <2>3 DEF RequestClientIp, Chained
<1> HIDE DEF request
<1>8. ClientIp(c, request) = path[1]
  BY <1>5, <1>7 DEF ClientIp
<1> QED
  BY <1>8 DEF request

\* With the Forwarded header and as many hops configured as there are proxies,
\* whatever entries its request brought along: a client is known by its own
\* address, or, if one of these entries names no address, by that of the last
\* proxy, as then the whole header is dropped (parseForwardedChain throws,
\* resolveClientIp falls back to the connection).
THEOREM ClientBehindProxies ==
    ASSUME NEW Addresses, Blank \notin Addresses, Unresolved \notin Addresses,
           NEW path \in Seq(Addresses), Len(path) > 1,
           NEW sent \in Seq(Addresses \cup {Blank}),
           NEW c, c.source = "forwarded", c.hops = Len(path) - 1
    PROVE  ClientIp(c, Proxied(path, sent))
             = IF \E i \in DOMAIN sent : sent[i] = Blank
               THEN path[Len(path)] ELSE path[1]
<1>1. CASE \A i \in DOMAIN sent : sent[i] # Blank
  <2>1. DOMAIN sent = 1 .. Len(sent) /\ Len(sent) \in Nat
    BY LenProperties
  <2>2. \A i \in 1 .. Len(sent) : sent[i] \in Addresses
    BY <1>1, <2>1, ElementOfSeq
  <2>3. sent \in Seq(Addresses)
    BY <2>1, <2>2, LenProperties, IsASeq
  <2> QED
    BY <1>1, <2>3, CompleteEntriesAreSkipped
<1>2. CASE \E i \in DOMAIN sent : sent[i] = Blank
  <2> DEFINE calling == SubSeq(path, 1, Len(path) - 1)
             header == sent \o calling
             remote == path[Len(path)]
             request == Proxied(path, sent)
  <2>1. PICK i \in DOMAIN sent : sent[i] = Blank
    BY <1>2
  <2>2. Len(path) \in Nat /\ Len(sent) \in Nat /\ i \in 1 .. Len(sent)
    BY LenProperties
  <2>3. calling \in Seq(Addresses) /\ calling \in Seq(Addresses \cup {Blank})
    <3>1. \A j \in 1 .. Len(path) - 1 : path[j] \in Addresses
      BY <2>2, ElementOfSeq
    <3> QED
      BY <2>2, <3>1, SubSeqProperties
  <2>4. Len(header) = Len(sent) + Len(calling) /\ header[i] = Blank
        /\ header \in Seq(Addresses \cup {Blank})
    <3> HIDE DEF calling
    <3> QED
      BY <2>1, <2>2, <2>3, ConcatProperties
  <2>5. i \in DOMAIN header
    <3>1. Len(calling) \in Nat
      BY <2>3, LenProperties
    <3> HIDE DEF calling, header
    <3>2. DOMAIN header = 1 .. Len(header)
      BY <2>4, LenProperties
    <3> QED
      BY <2>2, <2>4, <3>1, <3>2
  <2>6. remote \in Addresses /\ remote # Blank
    BY <2>2, ElementOfSeq
  <2>7. request.header = header /\ request.remote = remote
    BY DEF Proxied
  <2> HIDE DEF request, header, remote
  <2>8. RequestClientIp(c, request) = Unresolved
    <3>1. ~Readable(c.source, header)
      BY <2>4, <2>5 DEF Readable
    <3> QED
      BY <2>7, <3>1 DEF RequestClientIp, Chained
  <2>9. ClientIp(c, request) = remote
    BY <2>6, <2>7, <2>8 DEF ClientIp
  <2> QED
    BY <1>2, <2>9 DEF request, remote
<1> QED
  BY <1>1, <1>2

-----------------------------------------------------------------------------
(* The validation of a connection *)

Budgets == [protected : BOOLEAN, alone : BOOLEAN, jitter : Nat, own : Nat,
            others : Nat, cuts : Nat, fails : Nat]
Messages == [cost : Costs, at : Nat, valid : BOOLEAN]
Submits == [born : Nat, at : Nat, phase : {"sent", "yes", "no", "lost"}]

\* What the proof has to know of the page; its usage and pauses do not matter.
PageOk(p) ==
    /\ {"queue", "valid", "checks", "paused", "usage", "pending", "widget", "timer"} \subseteq DOMAIN p
    /\ p.queue \in Seq(Costs) /\ p.checks \in Seq(Costs) /\ p.valid \in Nat

TypeInv ==
    /\ now \in Nat /\ verified \in Nat /\ left \in Budgets /\ online \in BOOLEAN
    /\ PageOk(page)
    /\ up \in Seq(Messages) /\ submits \subseteq Submits
    /\ ignored \subseteq [valid : BOOLEAN]

\* A message is not older than it may be.
DelayInv ==
    /\ \A k \in DOMAIN up : up[k].at <= now /\ now <= up[k].at + left.jitter
    /\ \A s \in submits : s.phase \in {"yes", "no"} =>
          s.at <= now /\ now <= s.at + left.jitter

\* Without a connection nothing is under way.
OfflineInv ==
    ~online => up = << >> /\ \A s \in submits : s.phase = "lost"

\* How much longer the server's validation lasts than what the page believes, what a
\* write relies on, and what an answer under way will make the page believe.
MarginInv ==
    /\ verified <= now + Window
    /\ online =>
        /\ page.valid # 0 => verified + left.jitter >= page.valid + Margin
        /\ \A k \in DOMAIN up : up[k].valid =>
              verified + left.jitter >= up[k].at + 1 + Margin
        /\ \A s \in submits : s.phase = "yes" => verified >= s.at + Window

IInv == TypeInv /\ DelayInv /\ OfflineInv /\ MarginInv /\ IgnoredOnlyIfOver

\* The assumptions on the durations, and what a bound leaves when it is used.
LEMMA Durations ==
    /\ {Window, Margin, AckTimeout, RetryDelay} \subseteq Nat
    /\ Scenarios \subseteq Budgets
BY WriteAdmissionAssumption DEF Budgets

\* Every message under way has the time it was sent.
LEMMA SentAt ==
    ASSUME TypeInv, NEW k \in DOMAIN up
    PROVE  up[k].at \in Nat
<1>1. up \in Seq(Messages)
  BY DEF TypeInv
<1>2. up[k] \in Messages
  BY <1>1, ElementOfSeq, LenProperties
<1> QED
  BY <1>2 DEF Messages

\* A bound is used up by one step at a time; the delays stay what they are.
LEMMA SpendFacts ==
    ASSUME NEW what \in {"own", "others", "cuts", "fails"}, left \in Budgets, Spend(what)
    PROVE  left' \in Budgets /\ left'.jitter = left.jitter
<1>1. left[what] \in Nat /\ left[what] > 0
  BY DEF Spend, Budgets
<1>2. PICK n \in Nat : n = left[what] - 1
  BY <1>1
<1>3. left' = [left EXCEPT ![what] = n]
  BY <1>2 DEF Spend
<1> QED
  BY <1>3 DEF Budgets

\* A step that neither time nor the validation takes part in.
LEMMA Elsewhere ==
    ASSUME IInv, UNCHANGED <<now, up, submits, verified, online, ignored>>,
           left' \in Budgets, left'.jitter = left.jitter,
           PageOk(page'), page'.valid = page.valid
    PROVE  IInv'
<1>1. TypeInv'
  BY DEF IInv, TypeInv
<1>2. DelayInv' /\ OfflineInv' /\ IgnoredOnlyIfOver'
  BY DEF IInv, DelayInv, OfflineInv, IgnoredOnlyIfOver
<1>3. MarginInv'
  BY DEF IInv, MarginInv
<1> QED
  BY <1>1, <1>2, <1>3 DEF IInv

\* Others' writes use up limits; they touch neither the page nor its validation.
LEMMA OtherWritesStep ==
    ASSUME IInv, NEW ip \in Ips, NEW cost \in Costs, OtherWrites(ip, cost)
    PROVE  IInv'
<1>1. UNCHANGED <<now, page, up, submits, verified, online, ignored>> /\ Spend("others")
  BY DEF OtherWrites
<1>2. left' \in Budgets /\ left'.jitter = left.jitter
  BY <1>1, SpendFacts DEF IInv, TypeInv
<1>3. PageOk(page')
  BY <1>1 DEF IInv, TypeInv
<1> QED
  BY <1>1, <1>2, <1>3, Elsewhere

\* drawAndSend: what is drawn waits in the buffer or for the next check.
LEMMA DrawAndSendStep ==
    ASSUME IInv, NEW cost \in Costs, DrawAndSend(cost)
    PROVE  IInv'
<1>1. UNCHANGED <<now, up, submits, verified, online, ignored>> /\ Spend("own")
  BY DEF DrawAndSend
<1>2. left' \in Budgets /\ left'.jitter = left.jitter
  BY <1>1, SpendFacts DEF IInv, TypeInv
<1>3. Append(page.queue, cost) \in Seq(Costs) /\ Append(page.checks, cost) \in Seq(Costs)
  BY AppendProperties DEF IInv, TypeInv, PageOk
<1>4. PICK queue, checks : queue = Append(page.queue, cost) /\ checks = Append(page.checks, cost)
  OBVIOUS
<1>5. CASE Protected /\ ~Validated
  <2>1. PICK widget, pending, timer :
          page' = [page EXCEPT !.checks = checks, !.widget = widget, !.pending = pending,
                               !.timer = timer]
    BY <1>4, <1>5 DEF DrawAndSend
  <2>2. PageOk(page') /\ page'.valid = page.valid
    BY <1>3, <1>4, <2>1 DEF IInv, TypeInv, PageOk
  <2> QED
    BY <1>1, <1>2, <2>2, Elsewhere
<1>6. CASE ~(Protected /\ ~Validated)
  <2>1. page' = [page EXCEPT !.queue = queue]
    BY <1>4, <1>6 DEF DrawAndSend
  <2>2. PageOk(page') /\ page'.valid = page.valid
    BY <1>3, <1>4, <2>1 DEF IInv, TypeInv, PageOk
  <2> QED
    BY <1>1, <1>2, <2>2, Elsewhere
<1> QED
  BY <1>5, <1>6

\* refresh(): a new challenge, the old validation still counts.
LEMMA RefreshStep ==
    ASSUME IInv, Refresh
    PROVE  IInv'
<1>1. UNCHANGED <<now, up, submits, verified, online, ignored, left>>
  BY DEF Refresh
<1>2. PICK widget : page' = [page EXCEPT !.timer = 0, !.pending = TRUE, !.widget = widget]
  BY DEF Refresh
<1>3. PageOk(page') /\ page'.valid = page.valid
  BY <1>2 DEF IInv, TypeInv, PageOk
<1>4. left' \in Budgets /\ left'.jitter = left.jitter
  BY <1>1 DEF IInv, TypeInv
<1> QED
  BY <1>1, <1>3, <1>4, Elsewhere

\* emitBufferedWrite: the page believes in its validation, so the server's lasts longer.
LEMMA EmitStep ==
    ASSUME IInv, Emit
    PROVE  IInv'
<1>1. /\ UNCHANGED <<now, submits, verified, online, ignored, left>> /\ online
      /\ page.queue # << >>
  BY DEF Emit, MayEmit, CanWrite
<1>2. PICK usage : page' = [page EXCEPT !.queue = Tail(@), !.usage = usage]
  BY DEF Emit
<1>3. page.queue \in Seq(Costs) /\ Head(page.queue) \in Costs /\ Tail(page.queue) \in Seq(Costs)
  BY <1>1, HeadTailProperties DEF IInv, TypeInv, PageOk
<1>4. PageOk(page') /\ page'.valid = page.valid
  BY <1>2, <1>3 DEF IInv, TypeInv, PageOk
<1>5. PICK v \in BOOLEAN : v = Validated /\ (v => page.valid > now)
  <2>1. now \in Nat /\ page.valid \in Nat
    BY DEF IInv, TypeInv, PageOk
  <2>2. Validated \in BOOLEAN /\ (Validated => page.valid > now)
    BY <2>1 DEF Validated
  <2> QED
    BY <2>2
<1> DEFINE w == [cost |-> Head(page.queue), at |-> now, valid |-> v]
<1>6. w \in Messages /\ w.at = now /\ (w.valid => page.valid > now)
  BY <1>3, <1>5 DEF Messages, IInv, TypeInv
<1>7. up' = Append(up, w) /\ up \in Seq(Messages)
  BY <1>5 DEF Emit, IInv, TypeInv
<1> HIDE DEF w
<1>8. PICK n \in Nat : n = Len(up)
  BY <1>7, LenProperties
<1>9. /\ up' \in Seq(Messages) /\ DOMAIN up' = 1 .. n + 1 /\ up'[n + 1] = w
      /\ \A k \in 1 .. n : up'[k] = up[k] /\ k \in DOMAIN up
  BY <1>6, <1>7, <1>8, AppendProperties, LenProperties
<1>10. now \in Nat /\ left.jitter \in Nat /\ Margin \in Nat /\ page.valid \in Nat /\ verified \in Nat
  BY Durations DEF IInv, TypeInv, PageOk, Budgets
<1>11. TypeInv' /\ OfflineInv' /\ IgnoredOnlyIfOver'
  BY <1>1, <1>4, <1>9 DEF IInv, TypeInv, OfflineInv, IgnoredOnlyIfOver
<1>12. DelayInv'
  <2>1. ASSUME NEW k \in DOMAIN up'
        PROVE  up'[k].at <= now /\ now <= up'[k].at + left.jitter
    <3>1. CASE k = n + 1
      BY <1>6, <1>9, <1>10, <3>1
    <3>2. CASE k \in 1 .. n
      BY <1>9, <3>2 DEF IInv, DelayInv
    <3> QED
      BY <1>8, <1>9, <3>1, <3>2
  <2> QED
    BY <1>1, <2>1 DEF IInv, DelayInv
<1>13. MarginInv'
  <2>1. ASSUME NEW k \in DOMAIN up', up'[k].valid
        PROVE  verified + left.jitter >= up'[k].at + 1 + Margin
    <3>1. CASE k = n + 1
      <4>1. page.valid > now /\ verified + left.jitter >= page.valid + Margin
        BY <1>1, <1>6, <1>9, <1>10, <2>1, <3>1 DEF IInv, MarginInv
      <4> QED
        BY <1>6, <1>9, <1>10, <3>1, <4>1
    <3>2. CASE k \in 1 .. n
      BY <1>1, <1>9, <2>1, <3>2 DEF IInv, MarginInv
    <3> QED
      BY <1>8, <1>9, <3>1, <3>2
  <2> QED
    BY <1>1, <1>4, <2>1 DEF IInv, MarginInv
<1> QED
  BY <1>11, <1>12, <1>13 DEF IInv

\* The connection ends, by a limit or otherwise.
LEMMA Offline ==
    ASSUME IInv, UNCHANGED <<now, verified, ignored>>, left' \in Budgets,
           left'.jitter = left.jitter, PageOk(page'), up' = << >>, online' = FALSE,
           submits' = {[s EXCEPT !.phase = "lost"] : s \in submits}
    PROVE  IInv'
<1>1. \A s \in submits : [s EXCEPT !.phase = "lost"] \in Submits
                         /\ [s EXCEPT !.phase = "lost"].phase = "lost"
  BY DEF IInv, TypeInv, Submits
<1>2. submits' \subseteq Submits /\ \A s \in submits' : s.phase = "lost"
  BY <1>1
<1>3. << >> \in Seq(Messages) /\ DOMAIN up' = {}
  BY EmptySeq
<1>4. TypeInv'
  BY <1>2, <1>3 DEF IInv, TypeInv
<1> QED
  BY <1>2, <1>3, <1>4 DEF IInv, DelayInv, OfflineInv, MarginInv, IgnoredOnlyIfOver

\* The connection breaks, and nothing of it is under way any more.
LEMMA CutStep ==
    ASSUME IInv, Cut
    PROVE  IInv'
<1>1. /\ UNCHANGED <<now, verified, ignored>> /\ up' = << >> /\ online' = FALSE
      /\ submits' = {[s EXCEPT !.phase = "lost"] : s \in submits} /\ Spend("cuts")
  BY DEF Cut
<1>2. PICK queue \in Seq(Costs) : page' = [page EXCEPT !.checks = << >>, !.queue = queue]
  BY EmptySeq DEF Cut, IInv, TypeInv, PageOk
<1>3. PageOk(page')
  BY <1>2, EmptySeq DEF IInv, TypeInv, PageOk
<1>4. left' \in Budgets /\ left'.jitter = left.jitter
  BY <1>1, SpendFacts DEF IInv, TypeInv
<1> QED
  BY <1>1, <1>3, <1>4, Offline

\* handleBroadcastWriteMessage, whatever is counted: the page is cut off, or the write is
\* let through or ignored.
LEMMA ReceiveFacts ==
    ASSUME Receive
    PROVE  /\ up # << >> /\ UNCHANGED <<now, verified, left>>
           /\ \/ /\ up' = << >> /\ online' = FALSE /\ UNCHANGED ignored
                 /\ submits' = {[s EXCEPT !.phase = "lost"] : s \in submits}
                 /\ \E until :
                       page' = [page EXCEPT !.paused = until, !.checks = << >>,
                                  !.queue = [k \in DOMAIN up |-> up[k].cost] \o @]
              \/ /\ up' = Tail(up) /\ UNCHANGED <<page, online, submits>>
                 /\ \/ UNCHANGED ignored
                    \/ verified <= now /\ ignored' = ignored \cup {[valid |-> Head(up).valid]}
BY DEF Receive

\* A write the server ignores was sent a jitter ago at most, so that its validation,
\* had the page believed in it, would still last.
LEMMA ReceiveStep ==
    ASSUME IInv, Receive
    PROVE  IInv'
<1>1. up # << >> /\ UNCHANGED <<now, verified, left>> /\ up \in Seq(Messages)
  BY ReceiveFacts DEF IInv, TypeInv
<1>2. left' \in Budgets /\ left'.jitter = left.jitter
  BY <1>1 DEF IInv, TypeInv
<1>3. CASE /\ up' = << >> /\ online' = FALSE /\ UNCHANGED ignored
           /\ submits' = {[s EXCEPT !.phase = "lost"] : s \in submits}
           /\ \E until :
                 page' = [page EXCEPT !.paused = until, !.checks = << >>,
                            !.queue = [k \in DOMAIN up |-> up[k].cost] \o @]
  <2>1. PICK queue : queue = [k \in DOMAIN up |-> up[k].cost] \o page.queue
    OBVIOUS
  <2>2. PICK until : page' = [page EXCEPT !.paused = until, !.checks = << >>, !.queue = queue]
    BY <1>3, <2>1
  <2>3. [k \in DOMAIN up |-> up[k].cost] \in Seq(Costs)
    <3>1. \A k \in DOMAIN up : up[k].cost \in Costs
      <4>1. \A k \in DOMAIN up : up[k] \in Messages
        BY <1>1, ElementOfSeq, LenProperties
      <4> QED
        BY <4>1 DEF Messages
    <3>2. PICK n \in Nat : DOMAIN up = 1 .. n
      BY <1>1, LenProperties
    <3> DEFINE costs == [k \in DOMAIN up |-> up[k].cost]
    <3>3. costs \in [1 .. n -> Costs]
      BY <3>1, <3>2
    <3> HIDE DEF costs
    <3>4. costs \in Seq(Costs)
      BY <3>2, <3>3, SeqDef
    <3> QED
      BY <3>4 DEF costs
  <2>4. queue \in Seq(Costs)
    BY <2>1, <2>3, ConcatProperties DEF IInv, TypeInv, PageOk
  <2>5. PageOk(page')
    BY <2>2, <2>4, EmptySeq DEF IInv, TypeInv, PageOk
  <2> QED
    BY <1>1, <1>2, <1>3, <2>5, Offline
<1>4. CASE /\ up' = Tail(up) /\ UNCHANGED <<page, online, submits>>
           /\ \/ UNCHANGED ignored
              \/ verified <= now /\ ignored' = ignored \cup {[valid |-> Head(up).valid]}
  <2>1. PICK n \in Nat : n + 1 = Len(up)
    <3>1. Len(up) \in Nat /\ Len(up) # 0
      BY <1>1, EmptySeq, LenProperties
    <3>2. Len(up) - 1 \in Nat
      BY <3>1
    <3> QED
      BY <3>1, <3>2
  <2>2. /\ up' \in Seq(Messages) /\ DOMAIN up' = 1 .. n /\ DOMAIN up = 1 .. n + 1
        /\ \A k \in 1 .. n : up'[k] = up[k + 1]
        /\ Head(up) = up[1] /\ Head(up) \in Messages
    BY <1>1, <1>4, <2>1, HeadTailProperties, LenProperties
  <2>3. \A k \in DOMAIN up' : k + 1 \in DOMAIN up /\ up'[k] = up[k + 1]
    BY <2>1, <2>2
  <2>4. 1 \in DOMAIN up
    BY <2>1, <2>2
  <2>5. ignored' \subseteq [valid : BOOLEAN]
    BY <1>4, <2>2 DEF IInv, TypeInv, Messages
  <2>6. TypeInv'
    BY <1>1, <1>4, <2>2, <2>5 DEF IInv, TypeInv
  <2>7. online
    BY <1>1 DEF IInv, TypeInv, OfflineInv
  <2>8. DelayInv' /\ OfflineInv'
    BY <1>1, <1>4, <2>3, <2>7 DEF IInv, DelayInv, OfflineInv
  <2>9. MarginInv'
    BY <1>1, <1>4, <2>3, <2>7 DEF IInv, MarginInv
  <2>10. IgnoredOnlyIfOver'
    <3>1. SUFFICES ASSUME 2 * left.jitter <= Margin, verified <= now, Head(up).valid
                   PROVE  FALSE
      BY <1>1, <1>4 DEF IInv, IgnoredOnlyIfOver
    <3>2. verified + left.jitter >= up[1].at + 1 + Margin /\ now <= up[1].at + left.jitter
      BY <2>2, <2>4, <2>7, <3>1 DEF IInv, MarginInv, DelayInv
    <3>3. verified \in Nat /\ now \in Nat /\ up[1].at \in Nat /\ left.jitter \in Nat /\ Margin \in Nat
      BY <2>2, Durations DEF IInv, TypeInv, Messages, Budgets
    <3> QED
      BY <3>1, <3>2, <3>3
  <2> QED
    BY <2>6, <2>8, <2>9, <2>10 DEF IInv
<1> QED
  BY <1>3, <1>4, ReceiveFacts

\* The server and the page both start without a validation.
LEMMA ReconnectStep ==
    ASSUME IInv, Reconnect
    PROVE  IInv'
<1>1. /\ ~online /\ online' = TRUE /\ verified' = 0
      /\ UNCHANGED <<now, up, submits, ignored, left>>
  BY DEF Reconnect
<1>2. PICK queue \in Seq(Costs) :
        page' = [page EXCEPT !.valid = 0, !.widget = Protected, !.queue = queue]
  BY EmptySeq DEF Reconnect, IInv, TypeInv, PageOk
<1>3. PageOk(page') /\ page'.valid = 0
  BY <1>2 DEF IInv, TypeInv, PageOk
<1>4. DOMAIN up = {} /\ \A s \in submits : s.phase = "lost"
  BY <1>1 DEF IInv, OfflineInv
<1>5. now \in Nat /\ Window \in Nat
  BY Durations DEF IInv, TypeInv
<1>6. TypeInv' /\ DelayInv' /\ OfflineInv' /\ IgnoredOnlyIfOver'
  BY <1>1, <1>3 DEF IInv, TypeInv, DelayInv, OfflineInv, IgnoredOnlyIfOver
<1>7. MarginInv'
  BY <1>1, <1>3, <1>4, <1>5 DEF MarginInv
<1> QED
  BY <1>6, <1>7 DEF IInv

\* A validation that is not valid any more: nothing relies on it.
LEMMA PageForgets ==
    ASSUME IInv, UNCHANGED <<now, up, verified, online, ignored>>,
           left' \in Budgets, left'.jitter = left.jitter, submits' \subseteq submits,
           PageOk(page'), page'.valid \in {0, page.valid}
    PROVE  IInv'
<1>1. TypeInv'
  BY DEF IInv, TypeInv
<1>2. DelayInv' /\ OfflineInv' /\ IgnoredOnlyIfOver'
  BY DEF IInv, DelayInv, OfflineInv, IgnoredOnlyIfOver
<1>3. MarginInv'
  BY DEF IInv, MarginInv
<1> QED
  BY <1>1, <1>2, <1>3 DEF IInv

\* Nothing is believed after a failed check.
LEMMA UnvalidatedFacts ==
    ASSUME NEW p, PageOk(p)
    PROVE  PageOk(Unvalidated(p)) /\ Unvalidated(p).valid = 0
<1>1. PICK timer : Unvalidated(p) = [p EXCEPT !.pending = FALSE, !.valid = 0, !.timer = timer]
  BY DEF Unvalidated
<1> QED
  BY <1>1 DEF PageOk

\* A new submission to the server.
LEMMA SolvedStep ==
    ASSUME IInv, Solved
    PROVE  IInv'
<1>1. UNCHANGED <<now, up, verified, online, ignored, left>>
  BY DEF Solved
<1>2. PICK pending, timer :
        page' = [page EXCEPT !.widget = FALSE, !.pending = pending, !.timer = timer]
  <2>1. CASE online
    <3>1. page' = [page EXCEPT !.widget = FALSE]
      BY <2>1 DEF Solved
    <3>2. page' = [page EXCEPT !.widget = FALSE, !.pending = page.pending, !.timer = page.timer]
      BY <3>1 DEF IInv, TypeInv, PageOk
    <3> QED
      BY <3>2
  <2>2. CASE ~online
    BY <2>2 DEF Solved
  <2> QED
    BY <2>1, <2>2
<1>3. PageOk(page') /\ page'.valid = page.valid
  BY <1>2 DEF IInv, TypeInv, PageOk
<1>4. CASE ~online
  <2>1. UNCHANGED submits
    BY <1>4 DEF Solved
  <2>2. left' \in Budgets /\ left'.jitter = left.jitter
    BY <1>1 DEF IInv, TypeInv
  <2> QED
    BY <1>1, <1>3, <2>1, <2>2, PageForgets
<1>5. CASE online
  <2>1. PICK new : new = [born |-> now, at |-> now, phase |-> "sent"]
    OBVIOUS
  <2>2. new \in Submits /\ new.phase = "sent"
    BY <2>1 DEF IInv, TypeInv, Submits
  <2>3. submits' = submits \cup {new}
    BY <1>5, <2>1 DEF Solved
  <2>4. TypeInv'
    BY <1>1, <1>3, <2>2, <2>3 DEF IInv, TypeInv
  <2>5. DelayInv' /\ OfflineInv' /\ IgnoredOnlyIfOver'
    BY <1>1, <1>5, <2>2, <2>3 DEF IInv, DelayInv, OfflineInv, IgnoredOnlyIfOver
  <2>6. MarginInv'
    BY <1>1, <1>3, <2>2, <2>3 DEF IInv, MarginInv
  <2> QED
    BY <2>4, <2>5, <2>6 DEF IInv
<1> QED
  BY <1>4, <1>5

\* A challenge that fails takes the page's validation away, not the server's.
LEMMA ChallengeFailsStep ==
    ASSUME IInv, ChallengeFails
    PROVE  IInv'
<1>1. UNCHANGED <<now, up, submits, verified, online, ignored>> /\ Spend("fails")
  BY DEF ChallengeFails
<1>2. left' \in Budgets /\ left'.jitter = left.jitter
  BY <1>1, SpendFacts DEF IInv, TypeInv
<1>3. PICK p : p = Unvalidated(page)
  OBVIOUS
<1>4. page' = [p EXCEPT !.widget = FALSE]
  BY <1>3 DEF ChallengeFails
<1>5. PageOk(p) /\ p.valid = 0
  BY <1>3, UnvalidatedFacts DEF IInv, TypeInv
<1>6. PageOk(page') /\ page'.valid = 0
  BY <1>4, <1>5 DEF PageOk
<1> QED
  BY <1>1, <1>2, <1>6, PageForgets

\* handleTurnstileTokenMessage: a later validation lasts longer than an earlier one.
LEMMA VerifyStep ==
    ASSUME IInv, NEW s \in submits, NEW accepted \in BOOLEAN, Verify(s, accepted)
    PROVE  IInv'
<1>1. /\ s.phase = "sent" /\ UNCHANGED <<now, page, up, online, ignored>>
      /\ verified' = IF accepted THEN now + Window ELSE verified
  BY DEF Verify
<1>2. PICK new : new = [s EXCEPT !.at = now, !.phase = IF accepted THEN "yes" ELSE "no"]
  OBVIOUS
<1>3. submits' = (submits \ {s}) \cup {new}
  BY <1>2 DEF Verify
<1>4. /\ new \in Submits /\ new.at = now /\ new.phase \in {"yes", "no"}
      /\ new.phase = "yes" => accepted
  BY <1>2 DEF IInv, TypeInv, Submits
<1>5. left' \in Budgets /\ left'.jitter = left.jitter /\ left.jitter \in Nat
  <2>1. left.jitter \in Nat /\ left \in Budgets
    BY DEF IInv, TypeInv, Budgets
  <2>2. UNCHANGED left \/ Spend("fails")
    BY DEF Verify
  <2> QED
    BY <2>1, <2>2, SpendFacts
<1>6. online
  BY <1>1 DEF IInv, TypeInv, OfflineInv
<1>7. now \in Nat /\ Window \in Nat /\ verified \in Nat /\ verified <= now + Window
  BY Durations DEF IInv, TypeInv, MarginInv
<1>8. verified' \in Nat /\ verified <= verified' /\ verified' <= now + Window
  BY <1>1, <1>7
<1>9. TypeInv'
  BY <1>1, <1>3, <1>4, <1>5, <1>8 DEF IInv, TypeInv
<1>10. DelayInv' /\ OfflineInv' /\ IgnoredOnlyIfOver'
  <2>1. now <= now /\ now <= now + left.jitter
    BY <1>5, <1>7
  <2> QED
    BY <1>1, <1>3, <1>4, <1>5, <1>6, <2>1 DEF IInv, DelayInv, OfflineInv, IgnoredOnlyIfOver
<1>11. page.valid # 0 => verified' + left.jitter >= page.valid + Margin
  <2>1. page.valid \in Nat /\ Margin \in Nat
    BY Durations DEF IInv, TypeInv, PageOk
  <2> QED
    BY <1>5, <1>6, <1>7, <1>8, <2>1 DEF IInv, MarginInv
<1>12. \A k \in DOMAIN up : up[k].valid => verified' + left.jitter >= up[k].at + 1 + Margin
  <2>1. ASSUME NEW k \in DOMAIN up, up[k].valid
        PROVE  verified' + left.jitter >= up[k].at + 1 + Margin
    <3>1. up[k].at \in Nat /\ Margin \in Nat
      BY Durations, SentAt DEF IInv
    <3>2. verified + left.jitter >= up[k].at + 1 + Margin
      BY <1>6, <2>1 DEF IInv, MarginInv
    <3> QED
      BY <1>5, <1>7, <1>8, <3>1, <3>2
  <2> QED
    BY <2>1
<1>13. \A r \in submits' : r.phase = "yes" => verified' >= r.at + Window
  <2>1. ASSUME NEW r \in submits, r.phase = "yes"
        PROVE  verified' >= r.at + Window
    <3>1. r.at \in Nat
      BY DEF IInv, TypeInv, Submits
    <3>2. verified >= r.at + Window
      BY <1>6, <2>1 DEF IInv, MarginInv
    <3> QED
      BY <1>7, <1>8, <3>1, <3>2
  <2>2. new.phase = "yes" => verified' >= new.at + Window
    BY <1>1, <1>4, <1>7
  <2> QED
    BY <1>3, <2>1, <2>2
<1>14. MarginInv'
  BY <1>1, <1>5, <1>8, <1>11, <1>12, <1>13 DEF MarginInv
<1> QED
  BY <1>9, <1>10, <1>14 DEF IInv

\* computeTurnstileValidation: the answer came in time, so the margin is still there.
LEMMA AcknowledgedStep ==
    ASSUME IInv, NEW s \in submits, Acknowledged(s)
    PROVE  IInv'
<1>1. /\ s.phase \in {"yes", "no"} /\ submits' = submits \ {s}
      /\ UNCHANGED <<now, up, verified, online, ignored, left>>
  BY DEF Acknowledged
<1>2. left' \in Budgets /\ left'.jitter = left.jitter /\ left.jitter \in Nat
  BY <1>1 DEF IInv, TypeInv, Budgets
<1>3. CASE s.phase = "no"
  <2>1. page' = Unvalidated(page)
    BY <1>3 DEF Acknowledged
  <2>2. PageOk(page') /\ page'.valid = 0
    BY <2>1, UnvalidatedFacts DEF IInv, TypeInv
  <2> QED
    BY <1>1, <1>2, <2>2, PageForgets
<1>4. CASE s.phase = "yes"
  <2>1. PICK timer, queue : /\ queue \in Seq(Costs)
                            /\ page' = [page EXCEPT !.pending = FALSE, !.valid = ValidUntil,
                                         !.timer = timer, !.checks = << >>, !.queue = queue]
    <3>1. page.queue \in Seq(Costs) /\ page.queue \o page.checks \in Seq(Costs)
      BY ConcatProperties DEF IInv, TypeInv, PageOk
    <3>2. PICK queue \in Seq(Costs) :
            queue = IF CanWrite THEN page.queue \o page.checks ELSE page.queue
      BY <3>1
    <3>3. s.phase # "no"
      BY <1>4
    <3>4. PICK timer : timer = now + (8 * Window) \div 10
      OBVIOUS
    <3>5. page' = [page EXCEPT !.pending = FALSE, !.valid = ValidUntil, !.timer = timer,
                               !.checks = << >>, !.queue = queue]
      BY <3>2, <3>3, <3>4, Zenon DEF Acknowledged
    <3> QED
      BY <3>5
  <2>2. now \in Nat /\ Window \in Nat /\ Margin \in Nat /\ verified \in Nat /\ s.at \in Nat
    BY Durations DEF IInv, TypeInv, Submits
  <2>3. PICK valid \in Nat : valid = ValidUntil /\ (valid # 0 => valid + Margin = now + Window)
    <3>1. CASE Window > Margin
      <4>1. now + Window - Margin \in Nat /\ now + Window - Margin + Margin = now + Window
        BY <2>2, <3>1
      <4> QED
        BY <3>1, <4>1 DEF ValidUntil
    <3>2. CASE ~(Window > Margin)
      BY <3>2 DEF ValidUntil
    <3> QED
      BY <3>1, <3>2
  <2>4. PageOk(page') /\ page'.valid = valid
    BY <2>1, <2>3, EmptySeq DEF IInv, TypeInv, PageOk
  <2>5. online /\ verified >= s.at + Window /\ now <= s.at + left.jitter
    BY <1>4 DEF IInv, TypeInv, OfflineInv, MarginInv, DelayInv
  <2>6. valid # 0 => verified + left.jitter >= valid + Margin
    BY <1>2, <2>2, <2>3, <2>5
  <2>7. TypeInv'
    BY <1>1, <2>4 DEF IInv, TypeInv
  <2>8. DelayInv' /\ OfflineInv' /\ IgnoredOnlyIfOver'
    BY <1>1 DEF IInv, DelayInv, OfflineInv, IgnoredOnlyIfOver
  <2>9. MarginInv'
    BY <1>1, <2>4, <2>6 DEF IInv, MarginInv
  <2> QED
    BY <2>7, <2>8, <2>9 DEF IInv
<1> QED
  BY <1>1, <1>3, <1>4

\* An answer that does not come in time will not be believed later.
LEMMA SubmitTimesOutStep ==
    ASSUME IInv, NEW s \in submits, SubmitTimesOut(s)
    PROVE  IInv'
<1>1. /\ submits' = submits \ {s} /\ page' = Unvalidated(page)
      /\ UNCHANGED <<now, up, verified, online, ignored, left>>
  BY DEF SubmitTimesOut
<1>2. PageOk(page') /\ page'.valid = 0
  BY <1>1, UnvalidatedFacts DEF IInv, TypeInv
<1>3. left' \in Budgets /\ left'.jitter = left.jitter
  BY <1>1 DEF IInv, TypeInv
<1> QED
  BY <1>1, <1>2, <1>3, PageForgets

\* Time passes only as far as the messages under way allow.
LEMMA TickStep ==
    ASSUME IInv, Tick
    PROVE  IInv'
<1>1. /\ now' = now + 1 /\ UNCHANGED <<page, up, submits, verified, online, ignored, left>>
      /\ \A k \in DOMAIN up : now < up[k].at + left.jitter
      /\ \A s \in submits : s.phase \in {"yes", "no"} => now < s.at + left.jitter
  BY DEF Tick
<1>2. now \in Nat /\ Window \in Nat /\ verified \in Nat /\ left.jitter \in Nat
  BY Durations DEF IInv, TypeInv, Budgets
<1>3. \A k \in DOMAIN up : up[k].at \in Nat
  BY SentAt DEF IInv
<1>4. \A s \in submits : s.at \in Nat
  BY DEF IInv, TypeInv, Submits
<1>5. TypeInv' /\ OfflineInv' /\ IgnoredOnlyIfOver'
  BY <1>1, <1>2 DEF IInv, TypeInv, OfflineInv, IgnoredOnlyIfOver
<1>6. DelayInv'
  <2>1. \A k \in DOMAIN up : up[k].at <= now + 1 /\ now + 1 <= up[k].at + left.jitter
    BY <1>1, <1>2, <1>3 DEF IInv, DelayInv
  <2>2. \A s \in submits : s.phase \in {"yes", "no"} =>
          s.at <= now + 1 /\ now + 1 <= s.at + left.jitter
    BY <1>1, <1>2, <1>4 DEF IInv, DelayInv
  <2> QED
    BY <1>1, <2>1, <2>2 DEF DelayInv
<1>7. MarginInv'
  <2>1. verified <= now + 1 + Window
    BY <1>2 DEF IInv, MarginInv
  <2> QED
    BY <1>1, <2>1 DEF IInv, MarginInv
<1> QED
  BY <1>5, <1>6, <1>7 DEF IInv

\* A new page and connection have no validation.
LEMMA InitOk ==
    ASSUME Init
    PROVE  IInv
<1>1. /\ now = 1 /\ verified = 0 /\ online = TRUE /\ up = << >> /\ submits = {} /\ ignored = {}
      /\ left \in Budgets
  BY Durations DEF Init
<1>2. PageOk(page) /\ page.valid = 0
  BY EmptySeq DEF Init, PageOk
<1>3. << >> \in Seq(Messages) /\ DOMAIN up = {}
  BY <1>1, EmptySeq
<1>4. TypeInv
  BY <1>1, <1>2, <1>3 DEF TypeInv
<1>5. 0 <= 1 + Window
  BY Durations
<1> QED
  BY <1>1, <1>2, <1>3, <1>4, <1>5 DEF IInv, DelayInv, OfflineInv, MarginInv, IgnoredOnlyIfOver

\* Each step keeps the strengthening.
LEMMA Inductive ==
    ASSUME IInv, [Next]_vars
    PROVE  IInv'
<1>1. CASE UNCHANGED vars
  BY <1>1 DEF vars, IInv, TypeInv, DelayInv, OfflineInv, MarginInv, IgnoredOnlyIfOver
<1>2. CASE \E ip \in Ips, cost \in Costs : OtherWrites(ip, cost)
  BY <1>2, OtherWritesStep
<1>3. CASE \E cost \in Costs : DrawAndSend(cost)
  BY <1>3, DrawAndSendStep
<1>4. ASSUME NEW s \in submits,
             \/ \E accepted \in BOOLEAN : Verify(s, accepted)
             \/ Acknowledged(s) \/ SubmitTimesOut(s)
      PROVE  IInv'
  BY <1>4, VerifyStep, AcknowledgedStep, SubmitTimesOutStep
<1> QED
  BY <1>1, <1>2, <1>3, <1>4, EmitStep, ReceiveStep, CutStep, ReconnectStep, RefreshStep,
     SolvedStep, ChallengeFailsStep, TickStep DEF Next

\* The strengthening holds in every reachable state.
THEOREM Invariance == Spec => []IInv
<1> QED
  BY InitOk, Inductive, PTL DEF Spec

\* The server ignores no write that the page sent in good faith (handleBroadcastWriteMessage
\* against computeTurnstileValidation): if two messages take no longer than the margin,
\* every ignored write was sent after the page's own validation had ended.
THEOREM IgnoredOnlyLate == Spec => []IgnoredOnlyIfOver
<1>1. IInv => IgnoredOnlyIfOver
  BY DEF IInv
<1> QED
  BY <1>1, Invariance, PTL

-----------------------------------------------------------------------------
(* Induction and recursion up to a number *)

\* What holds at 0 and is passed on holds up to n.
LEMMA UpTo ==
    ASSUME NEW n \in Nat, NEW S, 0 \in S,
           \A k \in 0 .. n - 1 : k \in S => k + 1 \in S
    PROVE  \A k \in 0 .. n : k \in S
<1> SUFFICES ASSUME NEW x \in 0 .. n, x \notin S PROVE FALSE
  OBVIOUS
<1> DEFINE Out == {k \in 0 .. n : k \notin S}
<1> DEFINE R == OpToRel(<, Nat)
<1>1. Out \subseteq Nat /\ x \in Out
  OBVIOUS
<1>2. IsWellFoundedOn(R, Nat)
  BY NatLessThanWellFounded
<1>3. PICK k \in Out : \A j \in Out : ~(<<j, k>> \in R)
  <2> HIDE DEF Out, R
  <2> QED
    BY <1>1, <1>2, WFMin, Zenon
<1>4. \A j \in Out : ~(j < k)
  BY <1>1, <1>3 DEF OpToRel
<1>5. k \in 0 .. n /\ k \notin S
  OBVIOUS
<1>6. k # 0
  BY <1>5
<1>7. k - 1 \in 0 .. n - 1 /\ k - 1 \in 0 .. n /\ k - 1 < k /\ k - 1 + 1 = k
  BY <1>5, <1>6
<1>8. k - 1 \in S
  BY <1>4, <1>7
<1> QED
  BY <1>5, <1>7, <1>8

\* A function that is defined step by step exists.
Steps(f, n, S, a, step) ==
    /\ f \in [0 .. n -> S] /\ f[0] = a
    /\ \A k \in 1 .. n : f[k] = step[<<k, f[k - 1]>>]

\* Steps that stay in a set make such a function.
LEMMA Stepwise ==
    ASSUME NEW n \in Nat, NEW S, NEW a \in S, NEW step \in [(1 .. n) \X S -> S]
    PROVE  \E f : Steps(f, n, S, a, step)
<1> DEFINE Ok(f, l) == f[0] = a /\ \A k \in 1 .. l : f[k] = step[<<k, f[k - 1]>>]
           G == {l \in 0 .. n : \E f \in [0 .. l -> S] : Ok(f, l)}
<1>1. 0 \in G
  <2> DEFINE f == [i \in 0 .. 0 |-> a]
  <2>1. f \in [0 .. 0 -> S]
    OBVIOUS
  <2>2. f[0] = a /\ 0 \in 0 .. n
    OBVIOUS
  <2>3. \A k \in 1 .. 0 : FALSE
    OBVIOUS
  <2> HIDE DEF f
  <2>4. Ok(f, 0)
    BY <2>2, <2>3
  <2> QED
    BY <2>1, <2>2, <2>4
<1>2. \A l \in 0 .. n - 1 : l \in G => l + 1 \in G
  <2> SUFFICES ASSUME NEW l \in 0 .. n - 1, l \in G
               PROVE  l + 1 \in G
    OBVIOUS
  <2>1. PICK f \in [0 .. l -> S] : Ok(f, l)
    OBVIOUS
  <2> DEFINE g == [i \in 0 .. l + 1 |-> IF i = l + 1 THEN step[<<l + 1, f[l]>>] ELSE f[i]]
  <2>2. l \in 0 .. l /\ l + 1 \in 1 .. n /\ l + 1 \in 0 .. n /\ f[l] \in S
    OBVIOUS
  <2>3. <<l + 1, f[l]>> \in (1 .. n) \X S
    BY <2>2
  <2>4. step[<<l + 1, f[l]>>] \in S
    BY <2>3
  <2>5. \A i \in 0 .. l : i \in 0 .. l + 1 /\ i # l + 1 /\ g[i] = f[i]
    OBVIOUS
  <2>6. g \in [0 .. l + 1 -> S]
    BY <2>4
  <2>7. g[l + 1] = step[<<l + 1, g[l]>>] /\ l + 1 - 1 = l
    BY <2>2, <2>5
  <2>8. g[0] = a
    BY <2>1, <2>5
  <2>9. ASSUME NEW k \in 1 .. l + 1
        PROVE  g[k] = step[<<k, g[k - 1]>>]
    <3>1. CASE k = l + 1
      BY <2>7, <3>1
    <3>2. CASE k # l + 1
      <4>1. k \in 1 .. l /\ k \in 0 .. l /\ k - 1 \in 0 .. l
        BY <3>2
      <4>2. f[k] = step[<<k, f[k - 1]>>]
        BY <2>1, <4>1
      <4> QED
        BY <2>5, <4>1, <4>2
    <3> QED
      BY <3>1, <3>2
  <2> HIDE DEF g
  <2>10. Ok(g, l + 1)
    BY <2>8, <2>9
  <2> QED
    BY <2>2, <2>6, <2>10
<1>3. n \in 0 .. n
  OBVIOUS
<1> HIDE DEF G
<1>4. n \in G
  BY <1>1, <1>2, <1>3, UpTo
<1> QED
  BY <1>4 DEF G, Steps

-----------------------------------------------------------------------------
(* Amounts over time *)

Amounts == [Times -> Nat]

\* The partial sums behind a total.
Sums(u, f) ==
    /\ u \in [Times -> Nat] /\ u[0] = f[0] /\ u[MaxTime] = Total(f)
    /\ \A t \in 1 .. MaxTime : u[t] = f[t] + u[t - 1]

\* The clock starts at zero.
LEMMA TimeFacts ==
    /\ MaxTime \in Nat \ {0} /\ 0 \in Times /\ MaxTime \in Times /\ Times \subseteq Nat
    /\ \A t \in Times : t # 0 => t \in 1 .. MaxTime
    /\ \A t \in 1 .. MaxTime : t \in Times /\ t - 1 \in Times
    /\ \A t \in 0 .. MaxTime - 1 : t \in Times /\ t + 1 \in 1 .. MaxTime /\ t + 1 \in Times
<1>1. MaxTime \in Nat \ {0}
  BY WriteAdmissionAssumption
<1> QED
  BY <1>1 DEF Times

\* Amounts have partial sums.
LEMMA SumsOf ==
    ASSUME NEW f \in Amounts
    PROVE  \E u : Sums(u, f)
<1> DEFINE step == [x \in (1 .. MaxTime) \X Nat |-> f[x[1]] + x[2]]
           S == CHOOSE s : s = [t \in Times |-> f[t] + (IF t = 0 THEN 0 ELSE s[t - 1])]
<1>1. step \in [(1 .. MaxTime) \X Nat -> Nat]
  <2> SUFFICES ASSUME NEW x \in (1 .. MaxTime) \X Nat
               PROVE  f[x[1]] + x[2] \in Nat
    OBVIOUS
  <2>1. x[1] \in Times /\ x[2] \in Nat
    BY TimeFacts
  <2>2. f[x[1]] \in Nat
    BY <2>1 DEF Amounts
  <2> QED
    BY <2>1, <2>2
<1>2. \A t \in 1 .. MaxTime, y \in Nat : step[<<t, y>>] = f[t] + y
  OBVIOUS
<1> HIDE DEF step
<1>3. f[0] \in Nat /\ MaxTime \in Nat
  BY TimeFacts DEF Amounts
<1>4. PICK u : Steps(u, MaxTime, Nat, f[0], step)
  BY <1>1, <1>3, Stepwise
<1>5. /\ u \in [Times -> Nat] /\ u[0] = f[0]
      /\ \A t \in 1 .. MaxTime : u[t] = step[<<t, u[t - 1]>>]
  BY <1>4 DEF Steps, Times
<1>6. \A t \in 1 .. MaxTime : u[t] = f[t] + u[t - 1]
  <2> SUFFICES ASSUME NEW t \in 1 .. MaxTime PROVE u[t] = f[t] + u[t - 1]
    OBVIOUS
  <2>1. t - 1 \in Times
    BY TimeFacts
  <2>2. u[t - 1] \in Nat
    BY <1>5, <2>1
  <2> QED
    BY <1>2, <1>5, <2>2
<1>7. u = [t \in Times |-> f[t] + (IF t = 0 THEN 0 ELSE u[t - 1])]
  <2>1. \A t \in Times : u[t] = f[t] + (IF t = 0 THEN 0 ELSE u[t - 1])
    <3> SUFFICES ASSUME NEW t \in Times PROVE u[t] = f[t] + (IF t = 0 THEN 0 ELSE u[t - 1])
      OBVIOUS
    <3>1. CASE t = 0
      BY <1>3, <1>5, <3>1
    <3>2. CASE t # 0
      BY <1>6, <3>2, TimeFacts
    <3> QED
      BY <3>1, <3>2
  <2> QED
    BY <1>5, <2>1
<1>8. S = [t \in Times |-> f[t] + (IF t = 0 THEN 0 ELSE S[t - 1])]
  BY <1>7
<1>9. Total(f) = S[MaxTime]
  BY DEF Total
<1> HIDE DEF S
<1>10. \A t \in Times : S[t] = f[t] + (IF t = 0 THEN 0 ELSE S[t - 1])
  BY <1>8
<1> DEFINE Same == {t \in Times : S[t] = u[t]}
<1>11. 0 \in Same
  BY <1>3, <1>5, <1>10, TimeFacts
<1>12. \A t \in 0 .. MaxTime - 1 : t \in Same => t + 1 \in Same
  <2> SUFFICES ASSUME NEW t \in 0 .. MaxTime - 1, t \in Same
               PROVE  t + 1 \in Same
    OBVIOUS
  <2>1. t + 1 \in Times /\ t + 1 \in 1 .. MaxTime /\ t + 1 - 1 = t /\ t + 1 # 0
    BY TimeFacts
  <2>2. S[t + 1] = f[t + 1] + S[t]
    BY <1>10, <2>1
  <2>3. u[t + 1] = f[t + 1] + u[t]
    BY <1>6, <2>1
  <2> QED
    BY <2>1, <2>2, <2>3
<1> HIDE DEF Same
<1>13. \A t \in 0 .. MaxTime : t \in Same
  BY <1>3, <1>11, <1>12, UpTo
<1>14. S[MaxTime] = u[MaxTime]
  BY <1>3, <1>13 DEF Same
<1> QED
  BY <1>5, <1>6, <1>9, <1>14 DEF Sums

\* Totals add up.
LEMMA TotalSum ==
    ASSUME NEW f \in Amounts, NEW g \in Amounts, NEW h \in Amounts,
           \A t \in Times : h[t] = f[t] + g[t]
    PROVE  Total(f) \in Nat /\ Total(g) \in Nat /\ Total(h) = Total(f) + Total(g)
<1>1. PICK u : Sums(u, f)
  BY SumsOf
<1>2. PICK v : Sums(v, g)
  BY SumsOf
<1>3. PICK w : Sums(w, h)
  BY SumsOf
<1> DEFINE Same == {t \in Times : w[t] = u[t] + v[t]}
<1>4. 0 \in Same
  BY <1>1, <1>2, <1>3, TimeFacts DEF Sums
<1>5. \A t \in 0 .. MaxTime - 1 : t \in Same => t + 1 \in Same
  <2> SUFFICES ASSUME NEW t \in 0 .. MaxTime - 1, t \in Same
               PROVE  t + 1 \in Same
    OBVIOUS
  <2>1. t \in Times /\ t + 1 \in Times /\ t + 1 \in 1 .. MaxTime /\ t + 1 - 1 = t
    BY TimeFacts
  <2>2. w[t + 1] = h[t + 1] + w[t] /\ u[t + 1] = f[t + 1] + u[t] /\ v[t + 1] = g[t + 1] + v[t]
    BY <1>1, <1>2, <1>3, <2>1 DEF Sums
  <2>3. u[t] \in Nat /\ v[t] \in Nat /\ f[t + 1] \in Nat /\ g[t + 1] \in Nat
    BY <1>1, <1>2, <2>1 DEF Sums, Amounts
  <2>4. w[t] = u[t] + v[t] /\ h[t + 1] = f[t + 1] + g[t + 1]
    BY <2>1
  <2> QED
    BY <2>1, <2>2, <2>3, <2>4
<1> HIDE DEF Same
<1>6. \A t \in 0 .. MaxTime : t \in Same
  BY <1>4, <1>5, TimeFacts, UpTo
<1>7. w[MaxTime] = u[MaxTime] + v[MaxTime]
  BY <1>6, TimeFacts DEF Same
<1>8. u[MaxTime] \in Nat /\ v[MaxTime] \in Nat
  BY <1>1, <1>2, TimeFacts DEF Sums
<1> QED
  BY <1>1, <1>2, <1>3, <1>7, <1>8 DEF Sums

\* Nothing adds up to nothing.
LEMMA TotalNothing == Nothing \in Amounts /\ Total(Nothing) = 0
<1>1. Nothing \in Amounts /\ \A t \in Times : Nothing[t] = Nothing[t] + Nothing[t]
  BY DEF Nothing, Amounts
<1>2. Total(Nothing) \in Nat /\ Total(Nothing) = Total(Nothing) + Total(Nothing)
  BY <1>1, TotalSum
<1>3. \A n \in Nat : n = n + n => n = 0
  OBVIOUS
<1>4. Total(Nothing) = 0
  BY <1>2, <1>3
<1> QED
  BY <1>1, <1>4, Zenon

\* A total is a number.
LEMMA TotalNat ==
    ASSUME NEW f \in Amounts
    PROVE  Total(f) \in Nat
<1>1. \A t \in Times : f[t] = f[t] + Nothing[t]
  BY DEF Nothing, Amounts
<1> QED
  BY <1>1, TotalNothing, TotalSum

\* Less at every time is less in total.
LEMMA TotalLeq ==
    ASSUME NEW f \in Amounts, NEW g \in Amounts, \A t \in Times : f[t] <= g[t]
    PROVE  Total(f) <= Total(g)
<1> DEFINE d == [t \in Times |-> g[t] - f[t]]
<1>1. d \in Amounts /\ \A t \in Times : g[t] = f[t] + d[t]
  <2>1. \A t \in Times : f[t] \in Nat /\ g[t] \in Nat
    BY DEF Amounts
  <2>2. \A t \in Times : g[t] - f[t] \in Nat /\ g[t] = f[t] + (g[t] - f[t])
    BY <2>1
  <2> QED
    BY <2>2 DEF Amounts
<1> HIDE DEF d
<1>2. Total(f) \in Nat /\ Total(d) \in Nat /\ Total(g) = Total(f) + Total(d)
  BY <1>1, TotalSum
<1> QED
  BY <1>2

\* A part of two others has no more than both in total.
LEMMA TotalCovered ==
    ASSUME NEW f \in Amounts, NEW g \in Amounts, NEW h \in Amounts,
           \A t \in Times : h[t] <= f[t] + g[t]
    PROVE  Total(h) <= Total(f) + Total(g)
<1> DEFINE s == [t \in Times |-> f[t] + g[t]]
<1>1. s \in Amounts /\ \A t \in Times : s[t] = f[t] + g[t] /\ h[t] <= s[t]
  BY DEF Amounts
<1> HIDE DEF s
<1>2. Total(s) = Total(f) + Total(g)
  BY <1>1, TotalSum
<1> QED
  BY <1>1, <1>2, TotalLeq

\* What is spent at one time.
At(n, c) == [t \in Times |-> IF t = n THEN c ELSE 0]

\* It is the total.
LEMMA TotalAt ==
    ASSUME NEW n \in Times, NEW c \in Nat
    PROVE  At(n, c) \in Amounts /\ Total(At(n, c)) = c
<1>1. At(n, c) \in Amounts
  BY DEF At, Amounts
<1>2. PICK u : Sums(u, At(n, c))
  BY <1>1, SumsOf
<1>3. /\ u[0] = At(n, c)[0] /\ u[MaxTime] = Total(At(n, c))
      /\ \A t \in 1 .. MaxTime : u[t] = At(n, c)[t] + u[t - 1]
  BY <1>2 DEF Sums
<1> DEFINE Ok == {t \in Times : u[t] = IF t < n THEN 0 ELSE c}
<1>4. n \in Nat
  BY TimeFacts
<1>5. 0 \in Ok
  <2>1. u[0] = IF 0 = n THEN c ELSE 0
    BY <1>3, TimeFacts DEF At
  <2> QED
    BY <1>4, <2>1, TimeFacts
<1>6. \A t \in 0 .. MaxTime - 1 : t \in Ok => t + 1 \in Ok
  <2> SUFFICES ASSUME NEW t \in 0 .. MaxTime - 1, t \in Ok
               PROVE  t + 1 \in Ok
    OBVIOUS
  <2>1. t \in Nat /\ t + 1 \in Times /\ t + 1 \in 1 .. MaxTime /\ t + 1 - 1 = t
    BY TimeFacts
  <2>2. u[t + 1] = At(n, c)[t + 1] + u[t]
    BY <1>3, <2>1
  <2>3. At(n, c)[t + 1] = IF t + 1 = n THEN c ELSE 0
    BY <2>1 DEF At
  <2>4. u[t] = IF t < n THEN 0 ELSE c
    OBVIOUS
  <2> QED
    BY <1>4, <2>1, <2>2, <2>3, <2>4
<1> HIDE DEF Ok
<1>7. \A t \in 0 .. MaxTime : t \in Ok
  BY <1>5, <1>6, TimeFacts, UpTo
<1>8. u[MaxTime] = c
  <2>1. MaxTime >= n
    BY <1>4, TimeFacts DEF Times
  <2> QED
    BY <1>4, <1>7, <2>1, TimeFacts DEF Ok
<1> QED
  BY <1>1, <1>3, <1>8

-----------------------------------------------------------------------------
(* The tables of the windows *)

Counters == [ip : Ips, start : Nat, count : Nat, seen : Nat]

\* A table has one entry per address.
MapOk(map) ==
    /\ map \in Seq(Counters)
    /\ \A k \in DOMAIN map : map[k].start <= map[k].seen /\ map[k].seen <= now
    /\ \A j, k \in DOMAIN map : map[j].ip = map[k].ip => j = k

\* The entries of s are those of map at the places g.
Picks(s, map, g) ==
    /\ s \in Seq(Counters) /\ g \in [DOMAIN s -> DOMAIN map]
    /\ \A k \in DOMAIN s : s[k] = map[g[k]]
    /\ \A j, k \in DOMAIN s : g[j] = g[k] => j = k

\* The places from a on.
From(s, a) == [k \in DOMAIN s |-> k + a - 1]

\* The end of a table of n entries, from a on.
Suffix(s, map, n, a) ==
    /\ Picks(s, map, From(s, a)) /\ Len(s) = n + 1 - a
    /\ \A k \in a .. n : k + 1 - a \in DOMAIN s /\ s[k + 1 - a] = map[k]

\* Counters picked from a table are a table.
LEMMA PicksOk ==
    ASSUME NEW map, MapOk(map), NEW s, NEW g, Picks(s, map, g)
    PROVE  MapOk(s)
BY DEF MapOk, Picks

\* A subsequence that ends with a table is its end.
LEMMA SuffixPicks ==
    ASSUME NEW map, MapOk(map), NEW n \in Nat, n = Len(map), NEW a \in 1 .. n + 1,
           NEW s, s = SubSeq(map, a, n)
    PROVE  Suffix(s, map, n, a)
<1>1. map \in Seq(Counters) /\ DOMAIN map = 1 .. n /\ \A k \in 1 .. n : map[k] \in Counters
  BY ElementOfSeq, LenProperties DEF MapOk
<1>2. /\ a \in Int /\ n \in Int /\ n - a + 1 \in Nat /\ n - a + 1 = n + 1 - a
      /\ \A i \in a .. n : map[i] \in Counters
  BY <1>1
<1>3. /\ s \in Seq(Counters) /\ Len(s) = IF a <= n THEN n - a + 1 ELSE 0
      /\ \A i \in 1 .. n - a + 1 : s[i] = map[a + i - 1]
  BY <1>2, SubSeqProperties
<1>4. Len(s) = n + 1 - a
  BY <1>3
<1>5. DOMAIN s = 1 .. n + 1 - a
  BY <1>3, <1>4, LenProperties
<1>6. ASSUME NEW k \in DOMAIN s
      PROVE  k + a - 1 \in DOMAIN map /\ s[k] = map[k + a - 1]
  <2>1. k \in 1 .. n + 1 - a /\ k \in 1 .. n - a + 1
    BY <1>5
  <2>2. s[k] = map[a + k - 1] /\ a + k - 1 = k + a - 1 /\ k + a - 1 \in 1 .. n
    BY <1>3, <2>1
  <2> QED
    BY <1>1, <2>2
<1>7. \A k \in a .. n : k + 1 - a \in DOMAIN s /\ s[k + 1 - a] = map[k]
  <2> SUFFICES ASSUME NEW k \in a .. n
               PROVE  k + 1 - a \in DOMAIN s /\ s[k + 1 - a] = map[k]
    OBVIOUS
  <2>1. k + 1 - a \in 1 .. n + 1 - a /\ k + 1 - a + a - 1 = k
    OBVIOUS
  <2> QED
    BY <1>5, <1>6, <2>1
<1> DEFINE g == From(s, a)
<1>8. g \in [DOMAIN s -> DOMAIN map] /\ \A k \in DOMAIN s : s[k] = map[g[k]]
  BY <1>6 DEF From
<1>9. \A j, k \in DOMAIN s : g[j] = g[k] => j = k
  BY <1>5 DEF From
<1> HIDE DEF g
<1>10. Picks(s, map, g)
  BY <1>3, <1>8, <1>9 DEF Picks
<1> QED
  BY <1>4, <1>7, <1>10 DEF g, Suffix

\* pruneStaleEntries leaves the end of the table, and what it took away was stale.
LEMMA PrunedFacts ==
    ASSUME NEW kind, NEW map, MapOk(map), NEW n \in Nat, n = Len(map)
    PROVE  \E a \in 1 .. n + 1 : /\ Pruned(kind, map) = SubSeq(map, a, n)
                                 /\ \A k \in 1 .. a - 1 : IsStale(kind, map[k])
<1> DEFINE stale == {m \in 0 .. n : m <= ScanLimit /\ \A k \in 1 .. m : IsStale(kind, map[k])}
           most == CHOOSE m \in stale : \A k \in stale : k <= m
           Bound == {m \in 0 .. n : \E k \in stale : m <= k}
<1>1. ScanLimit \in Nat
  BY WriteAdmissionAssumption
<1>2. 0 \in stale
  BY <1>1
<1>3. \E m \in stale : \A k \in stale : k <= m
  <2> SUFFICES ASSUME \A m \in stale : \E k \in stale : ~(k <= m)
               PROVE  FALSE
    OBVIOUS
  <2>1. stale \subseteq 0 .. n
    OBVIOUS
  <2> HIDE DEF stale
  <2>2. 0 \in Bound
    BY <1>2
  <2>3. \A m \in 0 .. n - 1 : m \in Bound => m + 1 \in Bound
    <3> SUFFICES ASSUME NEW m \in 0 .. n - 1, NEW k \in stale, m <= k
                 PROVE  m + 1 \in Bound
      OBVIOUS
    <3>1. PICK l \in stale : ~(l <= k)
      OBVIOUS
    <3>2. l \in 0 .. n /\ k \in 0 .. n
      BY <2>1
    <3>3. m + 1 <= l /\ m + 1 \in 0 .. n
      BY <3>1, <3>2
    <3> QED
      BY <3>3
  <2> HIDE DEF Bound
  <2>4. \A m \in 0 .. n : m \in Bound
    BY <2>2, <2>3, UpTo
  <2>5. PICK k \in stale : n <= k
    BY <2>4 DEF Bound
  <2>6. PICK l \in stale : ~(l <= k)
    OBVIOUS
  <2>7. k \in 0 .. n /\ l \in 0 .. n
    BY <2>1
  <2> QED
    BY <2>5, <2>6, <2>7
<1>4. most \in stale
  BY <1>3
<1>5. Pruned(kind, map) = SubSeq(map, most + 1, n)
  BY DEF Pruned
<1>6. most \in 0 .. n /\ \A k \in 1 .. most : IsStale(kind, map[k])
  BY <1>4
<1> HIDE DEF most
<1>7. PICK a \in 1 .. n + 1 : a = most + 1 /\ a - 1 = most
  BY <1>6
<1> QED
  BY <1>5, <1>6, <1>7

\* Every entry of a table is still in the other one, unless that one is full.
KeepsOrFull(s, map) ==
    Len(s) = MapSize \/ \A j \in DOMAIN map : \E k \in DOMAIN s : s[k].ip = map[j].ip

\* touchExisting and capToMaxSize: the entry of the address is the last, the others are
\* from the table.
TouchedOk(s, map, ip) ==
    /\ MapOk(s) /\ Len(s) > 0 /\ KeepsOrFull(s, map)
    /\ EntryOf(map, ip) = {} => s[Len(s)] = Entry(ip, now)
    /\ \A k \in EntryOf(map, ip) : s[Len(s)] = map[k]
    /\ \A k \in DOMAIN s : k = Len(s) \/ \E j \in DOMAIN map : s[k] = map[j]

\* A table that is capped keeps its last entry.
LEMMA CapKeeps ==
    ASSUME NEW map, NEW ip, NEW s, TouchedOk(s, map, ip)
    PROVE  TouchedOk(SubSeq(s, IF Len(s) > MapSize THEN Len(s) - MapSize + 1 ELSE 1, Len(s)), map, ip)
<1>1. MapSize \in Nat \ {0}
  BY WriteAdmissionAssumption
<1>2. PICK n \in Nat : n = Len(s) /\ n > 0 /\ DOMAIN s = 1 .. n
  BY LenProperties DEF TouchedOk, MapOk
<1>3. PICK a \in 1 .. n : a = IF n > MapSize THEN n - MapSize + 1 ELSE 1
  <2>1. CASE n > MapSize
    <3>1. n - MapSize + 1 \in 1 .. n
      BY <1>1, <1>2, <2>1
    <3> QED
      BY <2>1, <3>1
  <2>2. CASE ~(n > MapSize)
    <3>1. 1 \in 1 .. n
      BY <1>2
    <3> QED
      BY <2>2, <3>1
  <2> QED
    BY <2>1, <2>2
<1>4. PICK t : t = SubSeq(s, a, n)
  OBVIOUS
<1>5. MapOk(s) /\ a \in 1 .. n + 1
  BY DEF TouchedOk
<1>6. /\ Picks(t, s, From(t, a)) /\ Len(t) = n + 1 - a
      /\ \A k \in a .. n : k + 1 - a \in DOMAIN t /\ t[k + 1 - a] = s[k]
  <2>1. Suffix(t, s, n, a)
    BY <1>2, <1>4, <1>5, SuffixPicks
  <2> QED
    BY <2>1 DEF Suffix
<1>7. MapOk(t)
  BY <1>5, <1>6, PicksOk
<1>8. Len(t) > 0 /\ t[Len(t)] = s[Len(s)]
  <2>1. n \in a .. n /\ n + 1 - a > 0
    OBVIOUS
  <2> QED
    BY <1>2, <1>6, <2>1
<1>9. \A k \in DOMAIN t : k = Len(t) \/ \E j \in DOMAIN map : t[k] = map[j]
  <2> SUFFICES ASSUME NEW k \in DOMAIN t, k # Len(t)
               PROVE  \E j \in DOMAIN map : t[k] = map[j]
    OBVIOUS
  <2>1. k + a - 1 \in DOMAIN s /\ t[k] = s[k + a - 1]
    BY <1>6 DEF Picks, From
  <2>2. k \in Nat
    BY <1>7, LenProperties DEF MapOk
  <2>3. k + a - 1 # n
    BY <1>6, <2>2
  <2> QED
    BY <1>2, <2>1, <2>3 DEF TouchedOk
<1>10. KeepsOrFull(t, map)
  <2>1. CASE n > MapSize
    <3>1. n + 1 - a = MapSize
      BY <1>1, <1>3, <2>1
    <3> QED
      BY <1>6, <3>1 DEF KeepsOrFull
  <2>2. CASE ~(n > MapSize)
    <3>1. a = 1 /\ n + 1 - a = n
      BY <1>3, <2>2
    <3>2. Len(t) = n /\ DOMAIN t = 1 .. n
      BY <1>6, <1>7, <3>1, LenProperties DEF MapOk
    <3>3. \A k \in 1 .. n : t[k] = s[k]
      <4> SUFFICES ASSUME NEW k \in 1 .. n PROVE t[k] = s[k]
        OBVIOUS
      <4>1. k \in a .. n /\ k + 1 - a = k
        BY <3>1
      <4> QED
        BY <1>6, <4>1
    <3>4. KeepsOrFull(s, map)
      BY DEF TouchedOk
    <3> QED
      BY <1>2, <3>2, <3>3, <3>4 DEF KeepsOrFull
  <2> QED
    BY <2>1, <2>2
<1>11. TouchedOk(t, map, ip)
  BY <1>7, <1>8, <1>9, <1>10 DEF TouchedOk
<1> QED
  BY <1>2, <1>3, <1>4, <1>11

\* An address that has no entry gets one.
LEMMA TouchedNew ==
    ASSUME now \in Nat, NEW map, MapOk(map), NEW ip \in Ips, EntryOf(map, ip) = {}
    PROVE  TouchedOk(Append(map, Entry(ip, now)), map, ip)
<1> DEFINE e == Entry(ip, now)
           s == Append(map, e)
<1>1. e \in Counters /\ e.ip = ip /\ e.start <= e.seen /\ e.seen <= now
  BY DEF Entry, Counters
<1> HIDE DEF e
<1>2. PICK n \in Nat : n = Len(map) /\ DOMAIN map = 1 .. n /\ map \in Seq(Counters)
  BY LenProperties DEF MapOk
<1>3. /\ s \in Seq(Counters) /\ Len(s) = n + 1 /\ s[n + 1] = e
      /\ \A k \in 1 .. n : s[k] = map[k]
  BY <1>1, <1>2, AppendProperties
<1>4. DOMAIN s = 1 .. n + 1
  BY <1>3, LenProperties
<1> HIDE DEF s
<1>5. \A k \in DOMAIN s : k = n + 1 \/ (k \in 1 .. n /\ s[k] = map[k])
  BY <1>3, <1>4
<1>6. \A k \in 1 .. n : map[k].ip # ip
  BY <1>2 DEF EntryOf
<1>7. MapOk(s)
  <2>1. \A k \in DOMAIN s : s[k].start <= s[k].seen /\ s[k].seen <= now
    BY <1>1, <1>2, <1>3, <1>5 DEF MapOk
  <2>2. ASSUME NEW j \in DOMAIN s, NEW k \in DOMAIN s, s[j].ip = s[k].ip
        PROVE  j = k
    <3>1. CASE j = n + 1 \/ k = n + 1
      BY <1>1, <1>3, <1>5, <1>6, <2>2, <3>1
    <3>2. CASE j \in 1 .. n /\ k \in 1 .. n
      BY <1>2, <1>3, <2>2, <3>2 DEF MapOk
    <3> QED
      BY <1>5, <3>1, <3>2
  <2> QED
    BY <1>3, <2>1, <2>2 DEF MapOk
<1>8. \A k \in DOMAIN s : k = Len(s) \/ \E j \in DOMAIN map : s[k] = map[j]
  BY <1>2, <1>3, <1>5
<1>9. KeepsOrFull(s, map)
  BY <1>2, <1>3, <1>4 DEF KeepsOrFull
<1>10. TouchedOk(s, map, ip)
  BY <1>3, <1>7, <1>8, <1>9 DEF TouchedOk, e
<1> QED
  BY <1>10 DEF s, e

\* An entry that is there becomes the last.
LEMMA TouchedOld ==
    ASSUME NEW map, MapOk(map), NEW ip \in Ips, NEW own \in EntryOf(map, ip)
    PROVE  TouchedOk(Append(SubSeq(map, 1, own - 1) \o SubSeq(map, own + 1, Len(map)), map[own]),
                     map, ip)
<1>1. PICK n \in Nat : n = Len(map) /\ DOMAIN map = 1 .. n /\ map \in Seq(Counters)
  BY LenProperties DEF MapOk
<1>2. own \in 1 .. n /\ map[own].ip = ip /\ map[own] \in Counters
  BY <1>1, ElementOfSeq DEF EntryOf
<1> DEFINE before == SubSeq(map, 1, own - 1)
           after == SubSeq(map, own + 1, n)
           rest == before \o after
           s == Append(rest, map[own])
<1>3. \A k \in 1 .. n : map[k] \in Counters
  BY <1>1, ElementOfSeq
<1>4. /\ before \in Seq(Counters) /\ Len(before) = own - 1
      /\ \A k \in 1 .. own - 1 : before[k] = map[k]
  <2>1. 1 \in Int /\ own - 1 \in Int /\ \A k \in 1 .. own - 1 : map[k] \in Counters
    BY <1>2, <1>3
  <2>2. /\ before \in Seq(Counters)
        /\ Len(before) = IF 1 <= own - 1 THEN own - 1 - 1 + 1 ELSE 0
        /\ \A k \in 1 .. own - 1 - 1 + 1 : before[k] = map[1 + k - 1]
    BY <2>1, SubSeqProperties
  <2>3. \A k \in 1 .. own - 1 : k \in 1 .. own - 1 - 1 + 1 /\ 1 + k - 1 = k
    BY <1>2
  <2> HIDE DEF before
  <2>4. Len(before) = own - 1
    BY <1>2, <2>2
  <2>5. \A k \in 1 .. own - 1 : before[k] = map[k]
    BY <2>2, <2>3
  <2> QED
    BY <2>2, <2>4, <2>5
<1>5. /\ after \in Seq(Counters) /\ Len(after) = n - own
      /\ \A k \in 1 .. n - own : after[k] = map[own + k]
  <2>1. own + 1 \in Int /\ n \in Int /\ \A k \in own + 1 .. n : map[k] \in Counters
    BY <1>2, <1>3
  <2>2. /\ after \in Seq(Counters)
        /\ Len(after) = IF own + 1 <= n THEN n - (own + 1) + 1 ELSE 0
        /\ \A k \in 1 .. n - (own + 1) + 1 : after[k] = map[own + 1 + k - 1]
    BY <2>1, SubSeqProperties
  <2>3. \A k \in 1 .. n - own : k \in 1 .. n - (own + 1) + 1 /\ own + 1 + k - 1 = own + k
    BY <1>2
  <2> HIDE DEF after
  <2>4. Len(after) = n - own
    BY <1>2, <2>2
  <2>5. \A k \in 1 .. n - own : after[k] = map[own + k]
    BY <2>2, <2>3
  <2> QED
    BY <2>2, <2>4, <2>5
<1> HIDE DEF before, after
<1>6. /\ rest \in Seq(Counters) /\ Len(rest) = Len(before) + Len(after)
      /\ \A k \in 1 .. Len(before) + Len(after) :
            rest[k] = IF k <= Len(before) THEN before[k] ELSE after[k - Len(before)]
  BY <1>4, <1>5, ConcatProperties
<1> HIDE DEF rest
<1>7. Len(rest) = n - 1
  BY <1>2, <1>4, <1>5, <1>6
<1>8. ASSUME NEW k \in 1 .. n - 1
      PROVE  /\ k < own => rest[k] = map[k] 
             /\ k >= own => rest[k] = map[k + 1]
  <2>1. k \in 1 .. Len(before) + Len(after)
    BY <1>2, <1>4, <1>5
  <2>2. CASE k < own
    <3>1. k <= Len(before) /\ k \in 1 .. own - 1
      BY <1>2, <1>4, <2>2
    <3>2. rest[k] = before[k]
      BY <1>6, <2>1, <3>1
    <3> QED
      BY <1>4, <2>2, <3>1, <3>2, <1>2
  <2>3. CASE k >= own
    <3>1. ~(k <= Len(before)) /\ k - Len(before) \in 1 .. n - own /\ own + (k - Len(before)) = k + 1
      BY <1>2, <1>4, <2>3
    <3>2. rest[k] = after[k - Len(before)]
      BY <1>6, <2>1, <3>1
    <3>3. rest[k] = map[k + 1]
      BY <1>5, <3>1, <3>2
    <3> QED
      BY <1>2, <2>3, <3>3
  <2> QED
    BY <1>2, <2>2, <2>3
<1>20. PICK last \in Counters : last = map[own]
  BY <1>2
<1>9. /\ s \in Seq(Counters) /\ Len(s) = n /\ s[n] = map[own]
      /\ \A k \in 1 .. n - 1 : s[k] = rest[k]
  <2>1. /\ s \in Seq(Counters) /\ Len(s) = Len(rest) + 1 /\ s[Len(rest) + 1] = last
        /\ \A k \in 1 .. Len(rest) : s[k] = rest[k]
    <3>1. rest \in Seq(Counters) /\ s = Append(rest, last)
      BY <1>6, <1>20
    <3> HIDE DEF s
    <3> QED
      BY <3>1, AppendProperties
  <2>2. Len(rest) + 1 = n
    BY <1>2, <1>7
  <2> QED
    BY <1>7, <1>20, <2>1, <2>2
<1>10. DOMAIN s = 1 .. n
  BY <1>9, LenProperties
<1> HIDE DEF s
<1> DEFINE g == [k \in DOMAIN s |-> IF k = n THEN own ELSE IF k < own THEN k ELSE k + 1]
<1>11. \A k \in 1 .. n : k = n \/ k \in 1 .. n - 1
  OBVIOUS
<1>12. \A k \in DOMAIN s : g[k] \in DOMAIN map /\ s[k] = map[g[k]]
  BY <1>1, <1>2, <1>8, <1>9, <1>10, <1>11
<1>13. \A j, k \in DOMAIN s : g[j] = g[k] => j = k
  BY <1>2, <1>10
<1>14. g \in [DOMAIN s -> DOMAIN map]
  BY <1>12
<1> HIDE DEF g
<1>15. Picks(s, map, g)
  BY <1>9, <1>12, <1>13, <1>14 DEF Picks
<1>16. MapOk(s) /\ Len(s) > 0
  BY <1>2, <1>9, <1>15, PicksOk
<1>17. \A k \in EntryOf(map, ip) : s[Len(s)] = map[k]
  BY <1>2, <1>9 DEF EntryOf, MapOk
<1>18. KeepsOrFull(s, map)
  <2> SUFFICES ASSUME NEW j \in 1 .. n
               PROVE  \E k \in DOMAIN s : s[k].ip = map[j].ip
    BY <1>1 DEF KeepsOrFull
  <2>1. CASE j = own
    BY <1>2, <1>9, <1>10, <2>1
  <2>2. CASE j < own
    <3>1. j \in 1 .. n - 1 /\ j \in DOMAIN s
      BY <1>2, <1>10, <2>2
    <3> QED
      BY <1>8, <1>9, <2>2, <3>1
  <2>3. CASE j > own
    <3>1. j - 1 \in 1 .. n - 1 /\ j - 1 >= own /\ j - 1 + 1 = j /\ j - 1 \in 1 .. n
      BY <1>2, <2>3
    <3>2. rest[j - 1] = map[j]
      BY <1>8, <3>1
    <3>3. s[j - 1] = map[j]
      BY <1>9, <3>1, <3>2
    <3> QED
      BY <1>10, <3>1, <3>3
  <2> QED
    BY <1>2, <2>1, <2>2, <2>3
<1>19. TouchedOk(s, map, ip)
  BY <1>12, <1>14, <1>16, <1>17, <1>18 DEF TouchedOk
<1> QED
  BY <1>1, <1>19 DEF s, rest, before, after

\* touchExisting or a new entry, capped.
LEMMA TouchedFacts ==
    ASSUME now \in Nat, NEW map, MapOk(map), NEW ip \in Ips
    PROVE  TouchedOk(Touched(map, ip), map, ip)
<1>1. CASE EntryOf(map, ip) = {}
  <2>1. PICK all : all = Append(map, Entry(ip, now))
    OBVIOUS
  <2>2. TouchedOk(all, map, ip)
    BY <1>1, <2>1, TouchedNew
  <2>3. Touched(map, ip) = SubSeq(all, IF Len(all) > MapSize THEN Len(all) - MapSize + 1 ELSE 1, Len(all))
    BY <1>1, <2>1 DEF Touched
  <2> QED
    BY <2>2, <2>3, CapKeeps
<1>2. CASE EntryOf(map, ip) # {}
  <2>1. PICK own \in EntryOf(map, ip) : own = CHOOSE k \in EntryOf(map, ip) : TRUE
    BY <1>2
  <2>2. PICK all : all = Append(SubSeq(map, 1, own - 1) \o SubSeq(map, own + 1, Len(map)), map[own])
    OBVIOUS
  <2>3. TouchedOk(all, map, ip)
    BY <2>1, <2>2, TouchedOld
  <2>4. Touched(map, ip) = SubSeq(all, IF Len(all) > MapSize THEN Len(all) - MapSize + 1 ELSE 1, Len(all))
    BY <1>2, <2>1, <2>2 DEF Touched
  <2> QED
    BY <2>3, <2>4, CapKeeps
<1> QED
  BY <1>1, <1>2

\* The limits and periods.
LEMMA KindFacts ==
    /\ \A kind \in Kinds : Limit[kind] \in Nat \ {0} /\ Period[kind] \in Nat \ {0}
    /\ Costs \subseteq [Kinds -> Nat] /\ Mine \in Ips
    /\ \A k \in 1 .. Len(KindOrder) : KindOrder[k] \in Kinds
    /\ Len(KindOrder) \in Nat \ {0}
    /\ \A kind \in Kinds : \E k \in 1 .. Len(KindOrder) : KindOrder[k] = kind
<1>1. KindOrder \in Seq(Kinds) /\ KindOrder # << >>
  BY WriteAdmissionAssumption
<1>2. DOMAIN KindOrder = 1 .. Len(KindOrder) /\ Len(KindOrder) \in Nat \ {0}
  BY <1>1, LenProperties, EmptySeq
<1>3. \A kind \in Kinds : \E k \in 1 .. Len(KindOrder) : KindOrder[k] = kind
  BY <1>2 DEF Kinds
<1>4. \A k \in 1 .. Len(KindOrder) : KindOrder[k] \in Kinds
  BY <1>2 DEF Kinds
<1> QED
  BY <1>2, <1>3, <1>4, WriteAdmissionAssumption

\* consumeFixedWindowRateLimit: what is counted adds to the window, or starts the next.
LEMMA ConsumedFacts ==
    ASSUME now \in Nat, NEW kind \in Kinds, NEW e \in Counters, e.start <= now, NEW cost \in Nat,
           NEW c, c = Consumed(kind, e, cost)
    PROVE  /\ c \in Counters /\ c.ip = e.ip /\ c.seen = now
           /\ now >= e.start + Period[kind] => c.start = now /\ c.count = cost
           /\ now < e.start + Period[kind] => c.start = e.start /\ c.count = e.count + cost
<1>1. Period[kind] \in Nat /\ e.start \in Nat /\ e.count \in Nat /\ e.ip \in Ips
  BY KindFacts DEF Counters
<1>2. CASE now >= e.start + Period[kind]
  <2>1. c = [ip |-> e.ip, start |-> now, count |-> 0 + cost, seen |-> now]
    BY <1>2 DEF Consumed, Entry
  <2> QED
    BY <1>1, <1>2, <2>1 DEF Counters
<1>3. CASE ~(now >= e.start + Period[kind])
  <2>1. c = [e EXCEPT !.count = e.count + cost, !.seen = now]
    BY <1>3 DEF Consumed
  <2>2. e.count + cost \in Nat
    BY <1>1
  <2> QED
    BY <1>1, <1>3, <2>1, <2>2 DEF Counters
<1> QED
  BY <1>2, <1>3

\* A window that is long over counts like none.
LEMMA StaleCountsAnew ==
    ASSUME now \in Nat, NEW kind \in Kinds, NEW e \in Counters, NEW cost \in Nat,
           e.start <= e.seen, IsStale(kind, e)
    PROVE  Consumed(kind, e, cost) = Consumed(kind, Entry(e.ip, now), cost)
<1>1. Period[kind] \in Nat \ {0} /\ e.start \in Nat /\ e.seen \in Nat
  BY KindFacts DEF Counters
<1>2. now >= e.start + Period[kind]
  <2>1. now >= e.seen + 2 * Period[kind]
    BY DEF IsStale
  <2> QED
    BY <1>1, <2>1
<1>3. Entry(e.ip, now).start = now
  BY DEF Entry
<1>4. ~(now >= now + Period[kind])
  BY <1>1
<1>5. Consumed(kind, e, cost) = [Entry(e.ip, now) EXCEPT !.count = @ + cost, !.seen = now]
  BY <1>2 DEF Consumed
<1>6. Consumed(kind, Entry(e.ip, now), cost)
        = [Entry(e.ip, now) EXCEPT !.count = @ + cost, !.seen = now]
  BY <1>3, <1>4 DEF Consumed
<1> QED
  BY <1>5, <1>6

\* enforceIpRateLimit: the entry of the address, or a new one, counted; the others are
\* from the table.
CountedOk(s, kind, map, ip, cost) ==
    /\ MapOk(s) /\ Len(s) > 0 /\ Newest(s).ip = ip
    /\ \A j \in DOMAIN map : \/ EntryOf(s, map[j].ip) # {}
                             \/ IsStale(kind, map[j])
                             \/ Displaced(kind, map, s, map[j].ip)
    /\ EntryOf(map, ip) = {} => Newest(s) = Consumed(kind, Entry(ip, now), cost)
    /\ \A k \in EntryOf(map, ip) : Newest(s) = Consumed(kind, map[k], cost)
    /\ \A k \in DOMAIN s : k = Len(s) \/ \E j \in DOMAIN map : s[k] = map[j]

\* So it is.
LEMMA CountedFacts ==
    ASSUME now \in Nat, NEW kind \in Kinds, NEW map, MapOk(map), NEW ip \in Ips, NEW cost \in Nat
    PROVE  CountedOk(Counted(kind, map, ip, cost), kind, map, ip, cost)
<1>1. PICK n \in Nat : n = Len(map) /\ DOMAIN map = 1 .. n /\ map \in Seq(Counters)
  BY LenProperties DEF MapOk
<1>2. PICK a \in 1 .. n + 1 : /\ Pruned(kind, map) = SubSeq(map, a, n)
                              /\ \A k \in 1 .. a - 1 : IsStale(kind, map[k])
  BY <1>1, PrunedFacts
<1>3. PICK p : p = Pruned(kind, map)
  OBVIOUS
<1>4. Suffix(p, map, n, a)
  BY <1>1, <1>2, <1>3, SuffixPicks
<1>5. MapOk(p)
  BY <1>4, PicksOk DEF Suffix
<1>6. PICK t : t = Touched(p, ip)
  OBVIOUS
<1>7. TouchedOk(t, p, ip)
  BY <1>5, <1>6, TouchedFacts
<1>8. PICK l \in Nat : l = Len(t) /\ l > 0 /\ DOMAIN t = 1 .. l /\ t \in Seq(Counters)
  BY <1>7, LenProperties DEF TouchedOk, MapOk
<1>9. PICK e \in Counters : e = t[l]
  BY <1>8, ElementOfSeq
<1>10. e.start <= e.seen /\ e.seen <= now /\ l \in DOMAIN t
  BY <1>7, <1>8, <1>9 DEF TouchedOk, MapOk
<1>11. e.start <= now
  BY <1>10 DEF Counters
<1>12. PICK c : c = Consumed(kind, e, cost)
  OBVIOUS
<1>13. /\ c \in Counters /\ c.ip = e.ip /\ c.seen = now /\ c.start <= c.seen
  <2>1. /\ c \in Counters /\ c.ip = e.ip /\ c.seen = now
        /\ now >= e.start + Period[kind] => c.start = now
        /\ now < e.start + Period[kind] => c.start = e.start
    BY <1>11, <1>12, ConsumedFacts
  <2>2. e.start \in Nat /\ Period[kind] \in Nat
    BY KindFacts DEF Counters
  <2> QED
    BY <1>11, <2>1, <2>2
<1>14. PICK s : s = [t EXCEPT ![l] = c]
  OBVIOUS
<1>15. Counted(kind, map, ip, cost) = s
  BY <1>3, <1>6, <1>8, <1>9, <1>12, <1>14 DEF Counted
<1>16. /\ s \in Seq(Counters) /\ Len(s) = l
       /\ \A k \in 1 .. l : s[k] = IF k = l THEN c ELSE t[k]
  BY <1>8, <1>13, <1>14, ExceptSeq
<1>17. DOMAIN s = 1 .. l
  BY <1>16, LenProperties
<1>18. Newest(s) = c
  BY <1>8, <1>16 DEF Newest
<1>19. MapOk(s)
  <2>1. \A k \in DOMAIN s : s[k].start <= s[k].seen /\ s[k].seen <= now
    <3> SUFFICES ASSUME NEW k \in DOMAIN s
                 PROVE  s[k].start <= s[k].seen /\ s[k].seen <= now
      OBVIOUS
    <3>1. CASE k = l
      BY <1>13, <1>16, <1>17, <3>1
    <3>2. CASE k # l
      BY <1>7, <1>8, <1>16, <1>17, <3>2 DEF TouchedOk, MapOk
    <3> QED
      BY <3>1, <3>2
  <2>2. \A k \in DOMAIN s : k \in DOMAIN t /\ s[k].ip = t[k].ip
    BY <1>8, <1>9, <1>13, <1>16, <1>17
  <2>3. \A j, k \in DOMAIN s : s[j].ip = s[k].ip => j = k
    BY <1>7, <2>2 DEF TouchedOk, MapOk
  <2> QED
    BY <1>16, <2>1, <2>3 DEF MapOk
<1>20. \A k \in DOMAIN p : k + a - 1 \in DOMAIN map /\ p[k] = map[k + a - 1]
  <2>1. Picks(p, map, From(p, a))
    BY <1>4 DEF Suffix
  <2>2. \A k \in DOMAIN p : From(p, a)[k] = k + a - 1
    BY DEF From
  <2> QED
    BY <2>1, <2>2 DEF Picks
<1>21. \A k \in DOMAIN s : k = Len(s) \/ \E j \in DOMAIN map : s[k] = map[j]
  <2> SUFFICES ASSUME NEW k \in DOMAIN s, k # l
               PROVE  \E j \in DOMAIN map : s[k] = map[j]
    BY <1>16
  <2>1. k \in DOMAIN t /\ s[k] = t[k]
    BY <1>8, <1>16, <1>17
  <2>2. PICK j \in DOMAIN p : t[k] = p[j]
    BY <1>7, <1>8, <2>1 DEF TouchedOk
  <2> QED
    BY <1>20, <2>1, <2>2
<1>24. ASSUME NEW j \in DOMAIN map
       PROVE  \/ EntryOf(s, map[j].ip) # {} \/ IsStale(kind, map[j])
              \/ Displaced(kind, map, s, map[j].ip)
  <2>1. j \in 1 .. n
    BY <1>1
  <2>2. CASE j \in 1 .. a - 1
    BY <1>2, <2>2
  <2>3. CASE j \in a .. n
    <3>1. j + 1 - a \in DOMAIN p /\ p[j + 1 - a] = map[j]
      BY <1>4, <2>3 DEF Suffix
    <3>2. EntryOf(Pruned(kind, map), map[j].ip) # {}
      BY <1>3, <3>1 DEF EntryOf
    <3>3. CASE Len(t) = MapSize
      <4>1. Len(s) = MapSize
        BY <1>8, <1>16, <3>3
      <4> QED
        BY <3>2, <4>1 DEF Displaced
    <3>4. CASE \A i \in DOMAIN p : \E k \in DOMAIN t : t[k].ip = p[i].ip
      <4>1. PICK k \in DOMAIN t : t[k].ip = map[j].ip
        BY <3>1, <3>4
      <4>2. k \in DOMAIN s /\ s[k].ip = t[k].ip
        BY <1>8, <1>9, <1>13, <1>16, <1>17, <4>1
      <4>3. k \in EntryOf(s, map[j].ip)
        BY <4>1, <4>2 DEF EntryOf
      <4> QED
        BY <4>3
    <3> QED
      BY <1>7, <3>3, <3>4 DEF TouchedOk, KeepsOrFull
  <2> QED
    BY <2>1, <2>2, <2>3
<1>22. CASE EntryOf(p, ip) = {}
  <2>1. e = Entry(ip, now)
    BY <1>7, <1>8, <1>9, <1>22 DEF TouchedOk
  <2>2. c.ip = ip
    BY <1>13, <2>1 DEF Entry
  <2>3. ASSUME NEW k \in EntryOf(map, ip)
        PROVE  c = Consumed(kind, map[k], cost)
    <3>1. k \in 1 .. n /\ map[k].ip = ip
      BY <1>1 DEF EntryOf
    <3>2. k \in 1 .. a - 1
      <4> SUFFICES ASSUME k \in a .. n PROVE FALSE
        BY <3>1
      <4>1. k + 1 - a \in DOMAIN p /\ p[k + 1 - a] = map[k]
        BY <1>4 DEF Suffix
      <4> QED
        BY <1>22, <3>1, <4>1 DEF EntryOf
    <3>3. IsStale(kind, map[k])
      BY <1>2, <3>2
    <3>4. map[k] \in Counters /\ map[k].start <= map[k].seen
      BY <1>1, <3>1, ElementOfSeq DEF MapOk
    <3>5. Consumed(kind, map[k], cost) = Consumed(kind, Entry(map[k].ip, now), cost)
      BY <3>3, <3>4, StaleCountsAnew
    <3> QED
      BY <1>12, <2>1, <3>1, <3>5
  <2>4. CountedOk(s, kind, map, ip, cost)
    BY <1>8, <1>12, <1>16, <1>18, <1>19, <1>21, <1>24, <2>1, <2>2, <2>3 DEF CountedOk
  <2> QED
    BY <1>15, <2>4
<1>23. CASE EntryOf(p, ip) # {}
  <2>1. PICK j \in DOMAIN p : p[j].ip = ip
    BY <1>23 DEF EntryOf
  <2>2. e = p[j]
    BY <1>7, <1>8, <1>9, <2>1 DEF TouchedOk, EntryOf
  <2>3. j + a - 1 \in DOMAIN map /\ e = map[j + a - 1] /\ e.ip = ip
    BY <1>20, <2>1, <2>2
  <2>4. \A k \in EntryOf(map, ip) : map[k] = e
    BY <2>3 DEF EntryOf, MapOk
  <2>5. EntryOf(map, ip) # {}
    BY <2>3 DEF EntryOf
  <2>6. CountedOk(s, kind, map, ip, cost)
    BY <1>8, <1>12, <1>13, <1>16, <1>18, <1>19, <1>21, <1>24, <2>3, <2>4, <2>5 DEF CountedOk
  <2> QED
    BY <1>15, <2>6
<1> QED
  BY <1>22, <1>23

\* Some number among numbers is the least.
LEMMA LeastOf ==
    ASSUME NEW S, S \subseteq Nat, S # {}
    PROVE  \E k \in S : \A j \in S : k <= j
<1> DEFINE R == OpToRel(<, Nat)
<1>1. IsWellFoundedOn(R, Nat)
  BY NatLessThanWellFounded
<1>2. PICK k \in S : \A j \in S : ~(<<j, k>> \in R)
  <2> HIDE DEF R
  <2> QED
    BY <1>1, WFMin, Zenon
<1>3. \A j \in S : ~(j < k)
  BY <1>2 DEF OpToRel
<1>4. \A j \in S : j \in Nat /\ k \in Nat
  OBVIOUS
<1> QED
  BY <1>3, <1>4

\* The tables of all kinds.
MapsOk == maps \in [Kinds -> Seq(Counters)] /\ \A kind \in Kinds : MapOk(maps[kind])

\* What enforcing limits does: kinds are counted or left alone; if nothing is exceeded
\* when all are enforced, all that cost something are counted within their limits; what is
\* exceeded was counted.
EnforcedOk(e, ip, cost, n) ==
    /\ e.maps \in [Kinds -> Seq(Counters)]
    /\ \A kind \in Kinds :
          \/ e.maps[kind] = maps[kind]
          \/ cost[kind] > 0 /\ CountedOk(e.maps[kind], kind, maps[kind], ip, cost[kind])
    /\ e.exceeded = {} /\ n = Len(KindOrder) =>
          \A kind \in Kinds : cost[kind] > 0 =>
             /\ CountedOk(e.maps[kind], kind, maps[kind], ip, cost[kind])
             /\ Newest(e.maps[kind]).count <= Limit[kind]
    /\ \A kind \in e.exceeded :
          /\ kind \in Kinds /\ cost[kind] > 0
          /\ CountedOk(e.maps[kind], kind, maps[kind], ip, cost[kind])
          /\ Newest(e.maps[kind]).count > Limit[kind]

\* So it is.
LEMMA EnforcedFacts ==
    ASSUME now \in Nat, MapsOk, NEW ip \in Ips, NEW cost \in [Kinds -> Nat],
           NEW n \in 1 .. Len(KindOrder)
    PROVE  EnforcedOk(Enforced(ip, cost, n), ip, cost, n)
<1> DEFINE counted == [kind \in Kinds |-> Counted(kind, maps[kind], ip, cost[kind])]
           over == {k \in 1 .. n : /\ cost[KindOrder[k]] > 0
                                   /\ Newest(counted[KindOrder[k]]).count > Limit[KindOrder[k]]}
           reached == {k \in 1 .. n : \A j \in over : k <= j}
           ms == [kind \in Kinds |->
                    IF cost[kind] > 0 /\ \E k \in reached : KindOrder[k] = kind
                    THEN counted[kind] ELSE maps[kind]]
           exceeded == {KindOrder[k] : k \in over \cap reached}
<1>1. PICK e : e = Enforced(ip, cost, n)
  OBVIOUS
<1>2. e.maps = ms /\ e.exceeded = exceeded
  BY <1>1 DEF Enforced
<1>3. \A kind \in Kinds : CountedOk(counted[kind], kind, maps[kind], ip, cost[kind])
  BY CountedFacts DEF MapsOk
<1>4. \A kind \in Kinds : counted[kind] \in Seq(Counters) /\ Newest(counted[kind]).count \in Nat
  <2> HIDE DEF counted
  <2> SUFFICES ASSUME NEW kind \in Kinds
               PROVE  counted[kind] \in Seq(Counters) /\ Newest(counted[kind]).count \in Nat
    OBVIOUS
  <2>1. counted[kind] \in Seq(Counters) /\ Len(counted[kind]) > 0
    BY <1>3 DEF CountedOk, MapOk
  <2>2. Len(counted[kind]) \in 1 .. Len(counted[kind])
    BY <2>1, LenProperties
  <2>3. Newest(counted[kind]) \in Counters
    BY <2>1, <2>2, ElementOfSeq DEF Newest
  <2> QED
    BY <2>1, <2>3 DEF Counters
<1> HIDE DEF counted
<1>5. \A k \in 1 .. n : k \in Nat /\ KindOrder[k] \in Kinds
  BY KindFacts
<1>6. ms \in [Kinds -> Seq(Counters)]
  BY <1>4 DEF MapsOk
<1>7. \A kind \in Kinds : \/ ms[kind] = maps[kind]
                          \/ cost[kind] > 0 /\ ms[kind] = counted[kind]
  OBVIOUS
<1>8. ASSUME exceeded = {}, n = Len(KindOrder), NEW kind \in Kinds, cost[kind] > 0
      PROVE  ms[kind] = counted[kind] /\ Newest(counted[kind]).count <= Limit[kind]
  <2>1. over \cap reached = {}
    <3> HIDE DEF over, reached
    <3>1. \A k \in over \cap reached : KindOrder[k] \in exceeded
      OBVIOUS
    <3> HIDE DEF exceeded
    <3> QED
      BY <1>8, <3>1
  <2>2. over = {}
    <3> SUFFICES ASSUME over # {} PROVE FALSE
      OBVIOUS
    <3>1. over \subseteq Nat /\ over \subseteq 1 .. n
      OBVIOUS
    <3> HIDE DEF over
    <3>2. PICK k \in over : \A j \in over : k <= j
      BY <3>1, LeastOf
    <3>3. k \in reached
      BY <3>1, <3>2
    <3> QED
      BY <2>1, <3>3
  <2>3. PICK k \in 1 .. n : KindOrder[k] = kind
    BY <1>8, KindFacts
  <2>4. k \notin over
    BY <2>2
  <2>5. ~(Newest(counted[kind]).count > Limit[kind])
    BY <1>8, <2>3, <2>4
  <2>6. k \in reached
    <3> HIDE DEF over
    <3> QED
      BY <2>2
  <2>7. ms[kind] = counted[kind]
    <3> HIDE DEF reached
    <3> QED
      BY <1>8, <2>3, <2>6
  <2>8. Newest(counted[kind]).count \in Nat /\ Limit[kind] \in Nat
    BY <1>4, KindFacts
  <2> QED
    BY <2>5, <2>7, <2>8
<1>9. ASSUME NEW kind \in exceeded
      PROVE  /\ kind \in Kinds /\ cost[kind] > 0 /\ ms[kind] = counted[kind]
             /\ Newest(counted[kind]).count > Limit[kind]
  <2>1. PICK k \in over \cap reached : KindOrder[k] = kind
    OBVIOUS
  <2>2. kind \in Kinds /\ cost[kind] > 0 /\ Newest(counted[kind]).count > Limit[kind]
    BY <1>5, <2>1
  <2>3. ms[kind] = counted[kind]
    <3> HIDE DEF reached, over
    <3> QED
      BY <2>1, <2>2
  <2> QED
    BY <2>2, <2>3
<1> HIDE DEF ms, exceeded
<1>10. \A kind \in Kinds : \/ ms[kind] = maps[kind]
                           \/ cost[kind] > 0 /\ CountedOk(ms[kind], kind, maps[kind], ip, cost[kind])
  BY <1>3, <1>7
<1>11. exceeded = {} /\ n = Len(KindOrder) =>
          \A kind \in Kinds : cost[kind] > 0 =>
             /\ CountedOk(ms[kind], kind, maps[kind], ip, cost[kind])
             /\ Newest(ms[kind]).count <= Limit[kind]
  BY <1>3, <1>8
<1>12. \A kind \in exceeded :
          /\ kind \in Kinds /\ cost[kind] > 0
          /\ CountedOk(ms[kind], kind, maps[kind], ip, cost[kind])
          /\ Newest(ms[kind]).count > Limit[kind]
  BY <1>3, <1>9
<1>13. EnforcedOk(e, ip, cost, n)
  BY <1>2, <1>6, <1>10, <1>11, <1>12 DEF EnforcedOk
<1> QED
  BY <1>1, <1>13

-----------------------------------------------------------------------------
(* The windows *)

\* What passed in the window of an entry, and less than a period before it.
SinceStart(f, e) == [t \in Times |-> IF t >= e.start THEN f[t] ELSE 0]
BeforeStart(kind, f, e) ==
    [t \in Times |-> IF t < e.start /\ t + Period[kind] > e.start THEN f[t] ELSE 0]

\* The window of an entry has let through no more than it counted and no more than the
\* limit, the windows before it no more than the limit in the period before it, and
\* nothing passes after the window is over.
WindowOk(kind, f, e) ==
    /\ f \in Amounts
    /\ \A t \in Times : t >= e.start + Period[kind] => f[t] = 0
    /\ Total(SinceStart(f, e)) <= e.count
    /\ Total(SinceStart(f, e)) <= Limit[kind]
    /\ Total(BeforeStart(kind, f, e)) <= Limit[kind]

\* Only what passed in the last period is remembered.
LastPeriod(kind, f) == \A t \in Times : t + Period[kind] <= now => f[t] = 0

WindowInv ==
    /\ now \in 1 .. MaxTime /\ MapsOk
    /\ passed \in [Kinds -> [Ips -> Amounts]]
    /\ \A kind \in Kinds, ip \in Ips :
          /\ EntryOf(maps[kind], ip) = {} => passed[kind][ip] = Nothing
          /\ \A k \in EntryOf(maps[kind], ip) : WindowOk(kind, passed[kind][ip], maps[kind][k])
          /\ LastPeriod(kind, passed[kind][ip])

\* The parts are amounts.
LEMMA PartsAreAmounts ==
    ASSUME NEW f \in Amounts, NEW e, NEW kind, NEW period, NEW time
    PROVE  /\ SinceStart(f, e) \in Amounts /\ BeforeStart(kind, f, e) \in Amounts
           /\ Recent(f, period, time) \in Amounts
BY DEF SinceStart, BeforeStart, Recent, Amounts

\* What is added is added at the present time.
LEMMA PlusFacts ==
    ASSUME now \in Times, NEW f \in Amounts, NEW c \in Nat
    PROVE  /\ Plus(f, c) \in Amounts
           /\ \A t \in Times : Plus(f, c)[t] = IF t = now THEN f[t] + c ELSE f[t]
BY DEF Plus, Amounts

\* Counting a write that is not let through keeps the window.
LEMMA CountKeepsWindow ==
    ASSUME now \in Times, NEW kind \in Kinds, NEW f, NEW e \in Counters, e.start <= now,
           WindowOk(kind, f, e), NEW cost \in Nat, NEW c, c = Consumed(kind, e, cost)
    PROVE  WindowOk(kind, f, c)
<1>1. /\ Period[kind] \in Nat \ {0} /\ Limit[kind] \in Nat \ {0} /\ e.start \in Nat
      /\ e.count \in Nat /\ now \in Nat /\ Times \subseteq Nat
  BY KindFacts, TimeFacts DEF Counters
<1>2. /\ now >= e.start + Period[kind] => c.start = now /\ c.count = cost
      /\ now < e.start + Period[kind] => c.start = e.start /\ c.count = e.count + cost
  BY <1>1, ConsumedFacts
<1>3. /\ f \in Amounts /\ \A t \in Times : t >= e.start + Period[kind] => f[t] = 0
      /\ Total(SinceStart(f, e)) <= e.count /\ Total(SinceStart(f, e)) <= Limit[kind]
      /\ Total(BeforeStart(kind, f, e)) <= Limit[kind]
  BY DEF WindowOk
<1>4. /\ SinceStart(f, e) \in Amounts /\ BeforeStart(kind, f, c) \in Amounts
      /\ Total(SinceStart(f, e)) \in Nat /\ Total(BeforeStart(kind, f, c)) \in Nat
  BY <1>3, PartsAreAmounts, TotalNat
<1>5. CASE now < e.start + Period[kind]
  <2>1. c.start = e.start /\ c.count = e.count + cost
    BY <1>2, <1>5
  <2>2. SinceStart(f, c) = SinceStart(f, e) /\ BeforeStart(kind, f, c) = BeforeStart(kind, f, e)
    BY <2>1 DEF SinceStart, BeforeStart
  <2>3. Total(SinceStart(f, e)) <= e.count + cost
    BY <1>1, <1>3, <1>4
  <2> QED
    BY <1>3, <2>1, <2>2, <2>3 DEF WindowOk
<1>6. CASE ~(now < e.start + Period[kind])
  <2>1. c.start = now /\ c.count = cost /\ now >= e.start + Period[kind]
    BY <1>1, <1>2, <1>6
  <2>2. \A t \in Times : t >= now => f[t] = 0
    BY <1>1, <1>3, <2>1
  <2>3. SinceStart(f, c) = Nothing
    BY <2>1, <2>2 DEF SinceStart, Nothing
  <2>4. \A t \in Times : BeforeStart(kind, f, c)[t] <= SinceStart(f, e)[t]
    <3> SUFFICES ASSUME NEW t \in Times
                 PROVE  BeforeStart(kind, f, c)[t] <= SinceStart(f, e)[t]
      OBVIOUS
    <3>1. f[t] \in Nat /\ t \in Nat
      BY <1>1, <1>3 DEF Amounts
    <3>2. BeforeStart(kind, f, c)[t] = IF t < now /\ t + Period[kind] > now THEN f[t] ELSE 0
      BY <2>1 DEF BeforeStart
    <3>3. SinceStart(f, e)[t] = IF t >= e.start THEN f[t] ELSE 0
      BY DEF SinceStart
    <3>4. t + Period[kind] > now => t >= e.start
      BY <1>1, <2>1, <3>1
    <3> QED
      BY <3>1, <3>2, <3>3, <3>4
  <2>5. Total(BeforeStart(kind, f, c)) <= Total(SinceStart(f, e))
    BY <1>4, <2>4, TotalLeq
  <2>6. Total(BeforeStart(kind, f, c)) <= Limit[kind]
    BY <1>1, <1>3, <1>4, <2>5
  <2>7. \A t \in Times : t >= now + Period[kind] => f[t] = 0
    BY <1>1, <2>2
  <2>8. Total(SinceStart(f, c)) <= cost /\ Total(SinceStart(f, c)) <= Limit[kind]
    BY <1>1, <2>3, TotalNothing
  <2> QED
    BY <1>3, <2>1, <2>6, <2>7, <2>8 DEF WindowOk
<1> QED
  BY <1>5, <1>6

\* A write that is let through adds as much as it was counted for.
LEMMA LetThroughKeepsWindow ==
    ASSUME now \in Times, NEW kind \in Kinds, NEW f, NEW e \in Counters, e.start <= now,
           WindowOk(kind, f, e), NEW cost \in Nat, NEW c, c = Consumed(kind, e, cost),
           c.count <= Limit[kind]
    PROVE  WindowOk(kind, Plus(f, cost), c)
<1> DEFINE g == Plus(f, cost)
<1>1. /\ Period[kind] \in Nat \ {0} /\ Limit[kind] \in Nat \ {0} /\ e.start \in Nat
      /\ e.count \in Nat /\ now \in Nat /\ Times \subseteq Nat
  BY KindFacts, TimeFacts DEF Counters
<1>2. /\ now >= e.start + Period[kind] => c.start = now /\ c.count = cost
      /\ now < e.start + Period[kind] => c.start = e.start /\ c.count = e.count + cost
  BY <1>1, ConsumedFacts
<1>3. /\ f \in Amounts /\ \A t \in Times : t >= e.start + Period[kind] => f[t] = 0
      /\ Total(SinceStart(f, e)) <= e.count
  BY DEF WindowOk
<1>4. WindowOk(kind, f, c)
  BY CountKeepsWindow
<1>5. g \in Amounts /\ \A t \in Times : g[t] = IF t = now THEN f[t] + cost ELSE f[t]
  BY <1>3, PlusFacts
<1> HIDE DEF g
<1>6. c.start <= now /\ now < c.start + Period[kind] /\ c.start \in Nat /\ c.count \in Nat
  BY <1>1, <1>2
<1>7. BeforeStart(kind, g, c) = BeforeStart(kind, f, c)
  <2>1. \A t \in Times : t < c.start => g[t] = f[t]
    BY <1>1, <1>5, <1>6
  <2> QED
    BY <2>1 DEF BeforeStart
<1>8. \A t \in Times : t >= c.start + Period[kind] => g[t] = 0
  <2>1. \A t \in Times : t >= c.start + Period[kind] => t # now
    BY <1>1, <1>6
  <2> QED
    BY <1>4, <1>5, <2>1 DEF WindowOk
<1>9. Total(SinceStart(g, c)) = Total(SinceStart(f, c)) + cost /\ Total(SinceStart(f, c)) \in Nat
  <2>1. \A t \in Times : SinceStart(g, c)[t] = SinceStart(f, c)[t] + At(now, cost)[t]
    <3> SUFFICES ASSUME NEW t \in Times
                 PROVE  SinceStart(g, c)[t] = SinceStart(f, c)[t] + At(now, cost)[t]
      OBVIOUS
    <3>1. f[t] \in Nat
      BY <1>3 DEF Amounts
    <3>2. /\ SinceStart(g, c)[t] = IF t >= c.start THEN g[t] ELSE 0
          /\ SinceStart(f, c)[t] = IF t >= c.start THEN f[t] ELSE 0
          /\ At(now, cost)[t] = IF t = now THEN cost ELSE 0
      BY DEF SinceStart, At
    <3> QED
      BY <1>1, <1>5, <1>6, <3>1, <3>2
  <2>2. /\ SinceStart(f, c) \in Amounts /\ SinceStart(g, c) \in Amounts
        /\ At(now, cost) \in Amounts /\ Total(At(now, cost)) = cost
    BY <1>3, <1>5, PartsAreAmounts, TotalAt
  <2> DEFINE a == SinceStart(f, c)
             b == SinceStart(g, c)
  <2>3. a \in Amounts /\ b \in Amounts /\ \A t \in Times : b[t] = a[t] + At(now, cost)[t]
    BY <2>1, <2>2
  <2> HIDE DEF a, b
  <2>4. Total(a) \in Nat /\ Total(b) = Total(a) + cost
    BY <2>2, <2>3, TotalSum
  <2> QED
    BY <2>4 DEF a, b
<1>10. Total(SinceStart(f, c)) + cost <= c.count
  <2>1. CASE now < e.start + Period[kind]
    <3>1. SinceStart(f, c) = SinceStart(f, e) /\ c.count = e.count + cost
      BY <1>2, <2>1 DEF SinceStart
    <3> QED
      BY <1>1, <1>3, <1>9, <3>1
  <2>2. CASE ~(now < e.start + Period[kind])
    <3>1. c.start = now /\ c.count = cost /\ now >= e.start + Period[kind]
      BY <1>1, <1>2, <2>2
    <3>2. \A t \in Times : t >= now => f[t] = 0
      BY <1>1, <1>3, <3>1
    <3>3. SinceStart(f, c) = Nothing
      BY <3>1, <3>2 DEF SinceStart, Nothing
    <3> QED
      BY <3>1, <3>3, TotalNothing
  <2> QED
    BY <2>1, <2>2
<1>11. Total(SinceStart(g, c)) <= c.count /\ Total(SinceStart(g, c)) <= Limit[kind]
  BY <1>1, <1>6, <1>9, <1>10
<1>12. Total(BeforeStart(kind, f, c)) <= Limit[kind]
  BY <1>4 DEF WindowOk
<1>13. WindowOk(kind, g, c)
  BY <1>5, <1>7, <1>8, <1>11, <1>12 DEF WindowOk
<1> QED
  BY <1>13 DEF g

\* A new entry has let nothing through.
LEMMA NewWindow ==
    ASSUME now \in Times, NEW kind \in Kinds, NEW ip \in Ips
    PROVE  /\ WindowOk(kind, Nothing, Entry(ip, now))
           /\ Entry(ip, now) \in Counters /\ Entry(ip, now).start = now
<1>1. now \in Nat /\ Limit[kind] \in Nat
  BY TimeFacts, KindFacts
<1>2. Entry(ip, now) \in Counters /\ Entry(ip, now).start = now /\ Entry(ip, now).count = 0
  BY <1>1 DEF Entry, Counters
<1>3. \A t \in Times : Nothing[t] = 0
  BY DEF Nothing
<1>4. SinceStart(Nothing, Entry(ip, now)) = Nothing
      /\ BeforeStart(kind, Nothing, Entry(ip, now)) = Nothing
  BY <1>3 DEF SinceStart, BeforeStart, Nothing
<1>5. 0 <= 0 /\ 0 <= Limit[kind]
  BY <1>1
<1> QED
  BY <1>2, <1>3, <1>4, <1>5, TotalNothing DEF WindowOk

\* What is forgotten only makes less.
LEMMA LessKeepsWindow ==
    ASSUME NEW kind \in Kinds, NEW f, NEW g \in Amounts, NEW e \in Counters,
           WindowOk(kind, f, e), \A t \in Times : g[t] <= f[t]
    PROVE  WindowOk(kind, g, e)
<1>1. f \in Amounts /\ \A t \in Times : f[t] \in Nat /\ g[t] \in Nat
  BY DEF WindowOk, Amounts
<1>2. /\ SinceStart(f, e) \in Amounts /\ SinceStart(g, e) \in Amounts
      /\ BeforeStart(kind, f, e) \in Amounts /\ BeforeStart(kind, g, e) \in Amounts
  BY <1>1, PartsAreAmounts
<1>3. /\ \A t \in Times : SinceStart(g, e)[t] <= SinceStart(f, e)[t]
      /\ \A t \in Times : BeforeStart(kind, g, e)[t] <= BeforeStart(kind, f, e)[t]
  BY <1>1 DEF SinceStart, BeforeStart
<1>4. /\ Total(SinceStart(g, e)) <= Total(SinceStart(f, e))
      /\ Total(BeforeStart(kind, g, e)) <= Total(BeforeStart(kind, f, e))
  BY <1>2, <1>3, TotalLeq
<1>5. /\ Total(SinceStart(g, e)) \in Nat /\ Total(SinceStart(f, e)) \in Nat
      /\ Total(BeforeStart(kind, g, e)) \in Nat /\ Total(BeforeStart(kind, f, e)) \in Nat
      /\ e.count \in Nat /\ Limit[kind] \in Nat
  BY <1>2, TotalNat, KindFacts DEF Counters
<1>6. /\ Total(SinceStart(f, e)) <= e.count /\ Total(SinceStart(f, e)) <= Limit[kind]
      /\ Total(BeforeStart(kind, f, e)) <= Limit[kind]
  BY DEF WindowOk
<1>7. /\ Total(SinceStart(g, e)) <= e.count /\ Total(SinceStart(g, e)) <= Limit[kind]
      /\ Total(BeforeStart(kind, g, e)) <= Limit[kind]
  BY <1>4, <1>5, <1>6
<1>8. \A t \in Times : t >= e.start + Period[kind] => g[t] = 0
  <2> SUFFICES ASSUME NEW t \in Times, t >= e.start + Period[kind] PROVE g[t] = 0
    OBVIOUS
  <2>1. f[t] = 0
    BY DEF WindowOk
  <2> QED
    BY <1>1, <2>1
<1> QED
  BY <1>7, <1>8 DEF WindowOk

\* In no period does more pass than a window and the windows before it let through.
LEMMA TwoWindows == WindowInv => AtMostTwoWindows
<1> SUFFICES ASSUME WindowInv, NEW ip \in Ips, NEW kind \in Kinds
             PROVE  Total(Recent(passed[kind][ip], Period[kind], now)) <= 2 * Limit[kind]
  BY DEF AtMostTwoWindows
<1> DEFINE f == passed[kind][ip]
           recent == Recent(f, Period[kind], now)
<1>1. /\ Period[kind] \in Nat \ {0} /\ Limit[kind] \in Nat \ {0} /\ now \in Nat
      /\ Times \subseteq Nat /\ f \in Amounts
  BY KindFacts, TimeFacts DEF WindowInv
<1>2. \A t \in Times : recent[t] = IF t + Period[kind] > now THEN f[t] ELSE 0
  BY DEF Recent
<1>3. recent \in Amounts
  BY <1>1, PartsAreAmounts
<1>4. Total(recent) \in Nat
  BY <1>3, TotalNat
<1>5. CASE EntryOf(maps[kind], ip) = {}
  <2>1. f = Nothing
    BY <1>5 DEF WindowInv
  <2>2. recent = Nothing
    BY <2>1 DEF Recent, Nothing
  <2> QED
    BY <1>1, <2>2, TotalNothing
<1>6. CASE EntryOf(maps[kind], ip) # {}
  <2>1. PICK k \in EntryOf(maps[kind], ip) : WindowOk(kind, f, maps[kind][k])
    BY <1>6 DEF WindowInv
  <2>2. MapOk(maps[kind]) /\ k \in DOMAIN maps[kind]
    BY <2>1 DEF WindowInv, MapsOk, EntryOf
  <2>3. PICK e \in Counters : e = maps[kind][k]
    BY <2>2, ElementOfSeq, LenProperties DEF MapOk
  <2>4. e.start \in Nat /\ e.start <= now
    <3>1. e.start <= e.seen /\ e.seen <= now /\ e.start \in Nat /\ e.seen \in Nat
      BY <2>2, <2>3 DEF MapOk, Counters
    <3> QED
      BY <1>1, <3>1
  <2>5. /\ SinceStart(f, e) \in Amounts /\ BeforeStart(kind, f, e) \in Amounts
        /\ Total(SinceStart(f, e)) \in Nat /\ Total(BeforeStart(kind, f, e)) \in Nat
    BY <1>1, PartsAreAmounts, TotalNat
  <2>6. Total(SinceStart(f, e)) <= Limit[kind] /\ Total(BeforeStart(kind, f, e)) <= Limit[kind]
    BY <2>1, <2>3 DEF WindowOk
  <2>7. \A t \in Times : recent[t] <= BeforeStart(kind, f, e)[t] + SinceStart(f, e)[t]
    <3> SUFFICES ASSUME NEW t \in Times
                 PROVE  recent[t] <= BeforeStart(kind, f, e)[t] + SinceStart(f, e)[t]
      OBVIOUS
    <3>1. f[t] \in Nat /\ t \in Nat
      BY <1>1 DEF Amounts
    <3>2. /\ SinceStart(f, e)[t] = IF t >= e.start THEN f[t] ELSE 0
          /\ BeforeStart(kind, f, e)[t]
               = IF t < e.start /\ t + Period[kind] > e.start THEN f[t] ELSE 0
      BY DEF SinceStart, BeforeStart
    <3>3. recent[t] = IF t + Period[kind] > now THEN f[t] ELSE 0
      BY <1>2
    <3> HIDE DEF recent, f
    <3> QED
      BY <1>1, <2>4, <3>1, <3>2, <3>3
  <2> HIDE DEF recent, f
  <2>8. Total(recent) <= Total(BeforeStart(kind, f, e)) + Total(SinceStart(f, e))
    BY <1>3, <2>5, <2>7, TotalCovered
  <2>9. Total(recent) <= 2 * Limit[kind]
    BY <1>1, <1>4, <2>5, <2>6, <2>8
  <2> QED
    BY <2>9 DEF f, recent
<1> QED
  BY <1>5, <1>6

\* What an address did is long ago when its entry is pruned.
LEMMA StaleIsForgotten ==
    ASSUME WindowInv, NEW kind \in Kinds, NEW ip \in Ips, NEW k \in EntryOf(maps[kind], ip),
           IsStale(kind, maps[kind][k])
    PROVE  passed[kind][ip] = Nothing
<1> DEFINE f == passed[kind][ip]
<1>1. MapOk(maps[kind]) /\ k \in DOMAIN maps[kind]
  BY DEF WindowInv, MapsOk, EntryOf
<1>2. PICK e \in Counters : e = maps[kind][k]
  BY <1>1, ElementOfSeq, LenProperties DEF MapOk
<1>3. e.start \in Nat /\ e.seen \in Nat /\ e.start <= e.seen
  BY <1>1, <1>2 DEF MapOk, Counters
<1>4. now \in Nat /\ Period[kind] \in Nat /\ Times \subseteq Nat
  BY KindFacts, TimeFacts DEF WindowInv
<1>5. now >= e.seen + 2 * Period[kind]
  BY <1>2 DEF IsStale
<1>6. WindowOk(kind, f, e) /\ LastPeriod(kind, f)
  BY <1>2 DEF WindowInv
<1> HIDE DEF f
<1>7. \A t \in Times : f[t] = 0
  <2> SUFFICES ASSUME NEW t \in Times PROVE f[t] = 0
    OBVIOUS
  <2>1. t \in Nat
    BY <1>4
  <2>2. CASE t + Period[kind] <= now
    BY <1>6, <2>2 DEF LastPeriod
  <2>3. CASE ~(t + Period[kind] <= now)
    <3>1. t >= e.start + Period[kind]
      BY <1>3, <1>4, <1>5, <2>1, <2>3
    <3> QED
      BY <1>6, <3>1 DEF WindowOk
  <2> QED
    BY <2>2, <2>3
<1>8. f \in [Times -> Nat]
  BY <1>6 DEF WindowOk, Amounts
<1> QED
  BY <1>7, <1>8 DEF f, Nothing

\* enforceIpRateLimit keeps the windows, whatever is let through.
LEMMA EnforceKeepsWindows ==
    ASSUME WindowInv, NEW ip \in Ips, NEW cost \in [Kinds -> Nat], NEW n,
           NEW e, EnforcedOk(e, ip, cost, n), NEW through \in BOOLEAN,
           through => e.exceeded = {} /\ n = Len(KindOrder),
           now' = now, maps' = e.maps, passed' = Remember(e.maps, ip, cost, through)
    PROVE  WindowInv'
<1>1. /\ now \in 1 .. MaxTime /\ now \in Times /\ now \in Nat /\ MapsOk
      /\ passed \in [Kinds -> [Ips -> Amounts]]
  BY TimeFacts DEF WindowInv
<1>2. \A kind \in Kinds : MapOk(maps[kind]) /\ cost[kind] \in Nat
  BY <1>1 DEF MapsOk
<1>3. \A kind \in Kinds :
        \/ maps'[kind] = maps[kind]
        \/ cost[kind] > 0 /\ CountedOk(maps'[kind], kind, maps[kind], ip, cost[kind])
  BY DEF EnforcedOk
<1>4. maps' \in [Kinds -> Seq(Counters)] /\ \A kind \in Kinds : MapOk(maps'[kind])
  BY <1>2, <1>3 DEF EnforcedOk, CountedOk
<1>5. MapsOk'
  BY <1>4 DEF MapsOk, MapOk
<1>6. \A kind \in Kinds, other \in Ips :
        passed'[kind][other] = IF Displaced(kind, maps[kind], maps'[kind], other) THEN Nothing
                               ELSE IF through /\ other = ip THEN Plus(passed[kind][ip], cost[kind])
                               ELSE passed[kind][other]
  BY DEF Remember
<1>7. \A kind \in Kinds, other \in Ips :
        passed[kind][other] \in Amounts /\ Plus(passed[kind][other], cost[kind]) \in Amounts
  BY <1>1, <1>2, PlusFacts
<1>8. passed' \in [Kinds -> [Ips -> Amounts]]
  BY <1>7, TotalNothing DEF Remember
<1>9. ASSUME NEW kind \in Kinds, NEW other \in Ips, NEW k \in EntryOf(maps'[kind], other)
      PROVE  WindowOk(kind, passed'[kind][other], maps'[kind][k])
  <2> DEFINE f == passed[kind][other]
             c == cost[kind]
             map == maps[kind]
             s == maps'[kind]
  <2>1. k \in DOMAIN s /\ s[k].ip = other
    BY <1>9 DEF EntryOf
  <2>2. passed'[kind][other] = IF through /\ other = ip THEN Plus(f, c) ELSE f
    BY <1>6, <1>9 DEF Displaced
  <2>3. \A j \in DOMAIN map : map[j].ip = other => WindowOk(kind, f, map[j])
    BY DEF WindowInv, EntryOf
  <2>4. EntryOf(map, other) = {} => f = Nothing
    BY DEF WindowInv
  <2>5. \A j \in DOMAIN map : map[j] \in Counters /\ map[j].start <= now
    <3> SUFFICES ASSUME NEW j \in DOMAIN map PROVE map[j] \in Counters /\ map[j].start <= now
      OBVIOUS
    <3>1. map[j] \in Counters /\ map[j].start <= map[j].seen /\ map[j].seen <= now
      BY <1>2, ElementOfSeq, LenProperties DEF MapOk
    <3> QED
      BY <1>1, <3>1 DEF Counters
  <2>6. f \in Amounts /\ c \in Nat /\ Plus(f, c) \in Amounts
    BY <1>2, <1>7
  <2> HIDE DEF f, c, map, s
  <2>7. CASE s = map /\ ~(c > 0)
    <3>1. WindowOk(kind, f, map[k])
      BY <2>1, <2>3, <2>7
    <3>2. c = 0
      BY <2>6, <2>7
    <3>3. \A t \in Times : f[t] + 0 = f[t]
      BY <2>6 DEF Amounts
    <3>4. \A t \in Times : Plus(f, c)[t] = f[t]
      BY <1>1, <2>6, <3>2, <3>3, PlusFacts
    <3>5. Plus(f, c) = f
      BY <2>6, <3>4 DEF Amounts
    <3> QED
      BY <2>2, <2>7, <3>1, <3>5 DEF s
  <2>8. CASE s = map /\ ~through
    BY <2>1, <2>2, <2>3, <2>8 DEF s
  <2>9. CASE c > 0 /\ CountedOk(s, kind, map, ip, c)
    <3>1. MapOk(s) /\ Len(s) \in DOMAIN s
      <4>1. s \in Seq(Counters) /\ Len(s) > 0
        BY <2>9 DEF CountedOk, MapOk
      <4>2. Len(s) \in Nat /\ DOMAIN s = 1 .. Len(s)
        BY <4>1, LenProperties
      <4> QED
        BY <2>9, <4>1, <4>2 DEF CountedOk
    <3>2. CASE k = Len(s)
      <4>1. other = ip /\ s[k] = Newest(s)
        BY <2>1, <2>9, <3>2 DEF CountedOk, Newest
      <4>2. PICK old \in Counters : /\ old.start <= now /\ WindowOk(kind, f, old)
                                   /\ s[k] = Consumed(kind, old, c)
        <5>1. CASE EntryOf(map, ip) = {}
          <6>1. s[k] = Consumed(kind, Entry(ip, now), c)
            BY <2>9, <4>1, <5>1 DEF CountedOk
          <6>2. f = Nothing
            BY <2>4, <4>1, <5>1
          <6>3. now <= now
            BY <1>1
          <6> QED
            BY <1>1, <6>1, <6>2, <6>3, NewWindow
        <5>2. CASE EntryOf(map, ip) # {}
          <6>1. PICK j \in DOMAIN map : map[j].ip = ip /\ j \in EntryOf(map, ip)
            BY <5>2 DEF EntryOf
          <6>2. s[k] = Consumed(kind, map[j], c)
            BY <2>9, <4>1, <6>1 DEF CountedOk
          <6> QED
            BY <2>3, <2>5, <4>1, <6>1, <6>2
        <5> QED
          BY <5>1, <5>2
      <4>3. CASE ~through
        <5>1. WindowOk(kind, f, s[k])
          BY <1>1, <2>6, <4>2, CountKeepsWindow
        <5> QED
          BY <2>2, <4>3, <5>1 DEF s
      <4>4. CASE through
        <5>1. s[k].count <= Limit[kind]
          BY <2>9, <4>1, <4>4 DEF EnforcedOk, s, c
        <5>2. WindowOk(kind, Plus(f, c), s[k])
          BY <1>1, <2>6, <4>2, <5>1, LetThroughKeepsWindow
        <5> QED
          BY <2>2, <4>1, <4>4, <5>2 DEF s
      <4> QED
        BY <4>3, <4>4
    <3>3. CASE k # Len(s)
      <4>1. PICK j \in DOMAIN map : s[k] = map[j]
        BY <2>1, <2>9, <3>3 DEF CountedOk
      <4>2. other # ip
        BY <2>1, <2>9, <3>1, <3>3 DEF CountedOk, MapOk, Newest
      <4>3. WindowOk(kind, f, s[k])
        BY <2>1, <2>3, <4>1
      <4> QED
        BY <2>2, <4>2, <4>3 DEF s
    <3> QED
      BY <3>2, <3>3
  <2>10. through /\ c > 0 => CountedOk(s, kind, map, ip, c)
    BY DEF EnforcedOk, s, c, map
  <2>11. s = map \/ (c > 0 /\ CountedOk(s, kind, map, ip, c))
    BY <1>3 DEF s, c, map
  <2> QED
    BY <2>7, <2>8, <2>9, <2>10, <2>11
<1>10. ASSUME NEW kind \in Kinds, NEW other \in Ips, EntryOf(maps'[kind], other) = {}
       PROVE  passed'[kind][other] = Nothing
  <2> DEFINE f == passed[kind][other]
             c == cost[kind]
             map == maps[kind]
             s == maps'[kind]
  <2>1. CASE Displaced(kind, map, s, other)
    BY <1>6, <2>1
  <2>2. CASE ~Displaced(kind, map, s, other)
    <3>1. passed'[kind][other] = IF through /\ other = ip THEN Plus(f, c) ELSE f
      BY <1>6, <2>2
    <3>2. f = Nothing
      <4>1. CASE EntryOf(map, other) = {}
        BY <4>1 DEF WindowInv
      <4>2. CASE EntryOf(map, other) # {}
        <5>1. PICK j \in DOMAIN map : map[j].ip = other /\ j \in EntryOf(map, other)
          BY <4>2 DEF EntryOf
        <5>2. s # map /\ CountedOk(s, kind, map, ip, c)
          BY <1>3, <1>10, <4>2
        <5>3. IsStale(kind, map[j])
          BY <1>10, <2>2, <5>1, <5>2 DEF CountedOk
        <5> QED
          BY <5>1, <5>3, StaleIsForgotten
      <4> QED
        BY <4>1, <4>2
    <3>3. through /\ other = ip => c = 0
      <4> SUFFICES ASSUME through, other = ip, c # 0 PROVE FALSE
        OBVIOUS
      <4>1. CountedOk(s, kind, map, ip, c)
        BY <1>2 DEF EnforcedOk
      <4>2. s \in Seq(Counters) /\ Len(s) > 0 /\ s[Len(s)].ip = ip
        BY <4>1 DEF CountedOk, MapOk, Newest
      <4>3. Len(s) \in DOMAIN s
        BY <4>2, LenProperties
      <4> QED
        BY <1>10, <4>2, <4>3 DEF EntryOf
    <3>4. Plus(Nothing, 0) = Nothing
      <4>1. \A t \in Times : Nothing[t] = 0
        BY DEF Nothing
      <4> QED
        BY <4>1 DEF Plus, Nothing
    <3> QED
      BY <3>1, <3>2, <3>3, <3>4
  <2> QED
    BY <2>1, <2>2
<1>11. now' \in 1 .. MaxTime
  BY <1>1
<1>12. \A kind \in Kinds, other \in Ips : \A k \in EntryOf(maps'[kind], other) :
          WindowOk(kind, passed'[kind][other], maps'[kind][k])
  BY <1>9
<1>13. ASSUME NEW kind \in Kinds, NEW other \in Ips
       PROVE  LastPeriod(kind, passed'[kind][other])
  <2> DEFINE f == passed[kind][other]
             g == passed'[kind][other]
  <2>1. LastPeriod(kind, f) /\ f \in Amounts /\ f \in [Times -> Nat]
    BY <1>7 DEF WindowInv, Amounts
  <2>2. g = Nothing \/ g = f \/ g = Plus(f, cost[kind])
    BY <1>6
  <2>3. Period[kind] \in Nat \ {0}
    BY KindFacts
  <2> HIDE DEF f, g
  <2> SUFFICES ASSUME NEW t \in Times, t + Period[kind] <= now PROVE g[t] = 0
    BY DEF LastPeriod, g
  <2>4. t # now
    BY <1>1, <2>3
  <2>5. f[t] = 0 /\ Nothing[t] = 0
    BY <2>1 DEF LastPeriod, Nothing
  <2>6. Plus(f, cost[kind])[t] = f[t]
    BY <1>1, <1>2, <2>1, <2>4, PlusFacts
  <2> QED
    BY <2>2, <2>5, <2>6
<1>14. \A kind \in Kinds, other \in Ips : LastPeriod(kind, passed[kind][other])'
  BY <1>13 DEF LastPeriod
<1> QED
  BY <1>5, <1>8, <1>10, <1>11, <1>12, <1>14 DEF WindowInv

\* Somebody else writes.
LEMMA OtherWritesKeepsWindows ==
    ASSUME WindowInv, NEW ip \in Ips, NEW cost \in Costs, OtherWrites(ip, cost)
    PROVE  WindowInv'
<1>1. PICK e : e = Enforced(ip, cost, Len(KindOrder))
  OBVIOUS
<1>2. now' = now /\ maps' = e.maps /\ passed' = Remember(e.maps, ip, cost, e.exceeded = {})
  BY <1>1 DEF OtherWrites
<1>3. cost \in [Kinds -> Nat] /\ Len(KindOrder) \in 1 .. Len(KindOrder) /\ now \in Nat /\ MapsOk
  BY KindFacts, TimeFacts DEF WindowInv
<1>4. EnforcedOk(e, ip, cost, Len(KindOrder))
  BY <1>1, <1>3, EnforcedFacts
<1>5. PICK through \in BOOLEAN : through = (e.exceeded = {})
  OBVIOUS
<1> QED
  BY <1>2, <1>3, <1>4, <1>5, EnforceKeepsWindows

\* The page's own write arrives.
LEMMA ReceiveKeepsWindows ==
    ASSUME WindowInv, IInv, Receive
    PROVE  WindowInv'
<1>1. PICK unverified \in BOOLEAN : unverified = (Protected /\ verified <= now)
  OBVIOUS
<1>2. PICK n : n = IF unverified THEN 1 ELSE Len(KindOrder)
  OBVIOUS
<1>3. PICK e : e = Enforced(Mine, Head(up).cost, n)
  OBVIOUS
<1>4. /\ now' = now /\ maps' = e.maps /\ up # << >>
      /\ passed' = Remember(e.maps, Mine, Head(up).cost, e.exceeded = {} /\ ~unverified)
  BY <1>1, <1>2, <1>3 DEF Receive
<1>5. Head(up).cost \in Costs
  <2>1. up \in Seq(Messages)
    BY DEF IInv, TypeInv
  <2>2. Head(up) \in Messages
    BY <1>4, <2>1, HeadTailProperties
  <2> QED
    BY <2>2 DEF Messages
<1>6. /\ Head(up).cost \in [Kinds -> Nat] /\ Mine \in Ips /\ n \in 1 .. Len(KindOrder)
      /\ now \in Nat /\ MapsOk
  BY <1>2, <1>5, KindFacts, TimeFacts DEF WindowInv
<1>7. EnforcedOk(e, Mine, Head(up).cost, n)
  BY <1>3, <1>6, EnforcedFacts
<1>8. PICK through \in BOOLEAN : through = (e.exceeded = {} /\ ~unverified)
  OBVIOUS
<1>9. through => e.exceeded = {} /\ n = Len(KindOrder)
  BY <1>2, <1>8
<1>10. passed' = Remember(e.maps, Mine, Head(up).cost, through)
  BY <1>4, <1>8
<1> QED
  BY <1>4, <1>6, <1>7, <1>9, <1>10, EnforceKeepsWindows

\* Time passes.
LEMMA TickKeepsWindows ==
    ASSUME WindowInv, Tick
    PROVE  WindowInv'
<1>1. /\ now < MaxTime /\ now' = now + 1 /\ maps' = maps
      /\ passed' = [kind \in Kinds |-> [ip \in Ips |->
                      Recent(passed[kind][ip], Period[kind], now + 1)]]
  BY DEF Tick
<1>2. /\ now \in 1 .. MaxTime /\ MapsOk /\ MaxTime \in Nat
      /\ passed \in [Kinds -> [Ips -> Amounts]]
  BY TimeFacts DEF WindowInv
<1>3. now' \in 1 .. MaxTime
  BY <1>1, <1>2
<1>4. MapsOk'
  <2> SUFFICES ASSUME NEW kind \in Kinds PROVE MapOk(maps[kind])'
    BY <1>1, <1>2 DEF MapsOk
  <2>1. maps[kind] \in Seq(Counters) /\ MapOk(maps[kind])
    BY <1>2 DEF MapsOk
  <2>2. \A k \in DOMAIN maps[kind] : maps[kind][k].seen \in Nat
    <3> SUFFICES ASSUME NEW k \in DOMAIN maps[kind] PROVE maps[kind][k].seen \in Nat
      OBVIOUS
    <3>1. maps[kind][k] \in Counters
      BY <2>1, ElementOfSeq, LenProperties
    <3> QED
      BY <3>1 DEF Counters
  <2>3. \A k \in DOMAIN maps[kind] : maps[kind][k].seen <= now + 1
    <3> SUFFICES ASSUME NEW k \in DOMAIN maps[kind] PROVE maps[kind][k].seen <= now + 1
      OBVIOUS
    <3>1. maps[kind][k].seen \in Nat /\ maps[kind][k].seen <= now /\ now \in Nat
      BY <1>2, <2>1, <2>2 DEF MapOk
    <3> QED
      BY <3>1
  <2> QED
    BY <1>1, <2>1, <2>3 DEF MapOk
<1>5. \A kind \in Kinds, ip \in Ips :
         /\ passed'[kind][ip] = Recent(passed[kind][ip], Period[kind], now + 1)
         /\ passed'[kind][ip] \in Amounts
  <2> SUFFICES ASSUME NEW kind \in Kinds, NEW ip \in Ips
               PROVE  /\ passed'[kind][ip] = Recent(passed[kind][ip], Period[kind], now + 1)
                      /\ passed'[kind][ip] \in Amounts
    OBVIOUS
  <2>1. passed'[kind][ip] = Recent(passed[kind][ip], Period[kind], now + 1)
    BY <1>1
  <2>2. passed[kind][ip] \in Amounts
    BY <1>2
  <2> QED
    BY <2>1, <2>2, PartsAreAmounts
<1>6. passed' \in [Kinds -> [Ips -> Amounts]]
  <2>1. \A kind \in Kinds, ip \in Ips : Recent(passed[kind][ip], Period[kind], now + 1) \in Amounts
    BY <1>5
  <2> QED
    BY <1>1, <2>1
<1>7. ASSUME NEW kind \in Kinds, NEW ip \in Ips, EntryOf(maps[kind], ip) = {}
      PROVE  passed'[kind][ip] = Nothing
  <2>1. passed[kind][ip] = Nothing
    BY <1>7 DEF WindowInv
  <2> QED
    BY <1>5, <2>1 DEF Recent, Nothing
<1>8. ASSUME NEW kind \in Kinds, NEW ip \in Ips, NEW k \in EntryOf(maps[kind], ip)
      PROVE  WindowOk(kind, passed'[kind][ip], maps[kind][k])
  <2>1. WindowOk(kind, passed[kind][ip], maps[kind][k])
    BY <1>8 DEF WindowInv
  <2>2. \A t \in Times : passed'[kind][ip][t] <= passed[kind][ip][t]
    <3>1. \A t \in Times : passed[kind][ip][t] \in Nat
      BY <1>2 DEF Amounts
    <3> DEFINE f == passed[kind][ip]
    <3>2. \A t \in Times : Recent(f, Period[kind], now + 1)[t] = f[t]
                          \/ Recent(f, Period[kind], now + 1)[t] = 0
      BY DEF Recent
    <3>3. passed'[kind][ip] = Recent(f, Period[kind], now + 1)
      BY <1>5
    <3> HIDE DEF f
    <3>4. \A t \in Times : passed'[kind][ip][t] = f[t] \/ passed'[kind][ip][t] = 0
      BY <3>2, <3>3
    <3>5. \A t \in Times : f[t] \in Nat
      BY <3>1 DEF f
    <3>6. \A t \in Times : passed'[kind][ip][t] <= f[t]
      BY <3>4, <3>5
    <3> QED
      BY <3>6 DEF f
  <2>3. maps[kind][k] \in Counters
    <3>1. maps[kind] \in Seq(Counters) /\ k \in DOMAIN maps[kind]
      BY <1>2, <1>8 DEF MapsOk, EntryOf
    <3> QED
      BY <3>1, ElementOfSeq, LenProperties
  <2> QED
    BY <1>5, <2>1, <2>2, <2>3, LessKeepsWindow
<1>9. ASSUME NEW kind \in Kinds, NEW ip \in Ips
      PROVE  LastPeriod(kind, passed[kind][ip])'
  <2>1. passed'[kind][ip] = Recent(passed[kind][ip], Period[kind], now + 1)
    BY <1>5
  <2>2. \A t \in Times : t + Period[kind] <= now + 1 => passed'[kind][ip][t] = 0
    <3> SUFFICES ASSUME NEW t \in Times, t + Period[kind] <= now + 1
                 PROVE  Recent(passed[kind][ip], Period[kind], now + 1)[t] = 0
      BY <2>1
    <3>1. t \in Nat /\ Period[kind] \in Nat /\ now \in Nat
      BY <1>2, KindFacts, TimeFacts
    <3>2. ~(t + Period[kind] > now + 1)
      BY <3>1
    <3> QED
      BY <3>2 DEF Recent
  <2> QED
    BY <1>1, <2>2 DEF LastPeriod
<1> QED
  BY <1>1, <1>3, <1>4, <1>6, <1>7, <1>8, <1>9 DEF WindowInv

\* Nothing else touches the windows.
LEMMA WindowsStay ==
    ASSUME WindowInv, UNCHANGED <<now, maps, passed>>
    PROVE  WindowInv'
BY DEF WindowInv, MapsOk, MapOk, LastPeriod

\* No window is open at first.
LEMMA InitWindows ==
    ASSUME Init
    PROVE  WindowInv
<1>1. /\ now = 1 /\ maps = [kind \in Kinds |-> << >>]
      /\ passed = [kind \in Kinds |-> [ip \in Ips |-> Nothing]]
  BY DEF Init
<1>2. << >> \in Seq(Counters) /\ DOMAIN << >> = {}
  BY EmptySeq
<1>3. now \in 1 .. MaxTime
  BY <1>1, TimeFacts
<1>4. \A kind \in Kinds : maps[kind] = << >> /\ MapOk(maps[kind])
  BY <1>1, <1>2 DEF MapOk
<1>5. MapsOk
  BY <1>1, <1>2, <1>4 DEF MapsOk
<1>6. \A kind \in Kinds, ip \in Ips :
         EntryOf(maps[kind], ip) = {} /\ passed[kind][ip] = Nothing
  BY <1>1, <1>2 DEF EntryOf
<1>7. passed \in [Kinds -> [Ips -> Amounts]]
  BY <1>1, TotalNothing
<1>8. \A kind \in Kinds, ip \in Ips : LastPeriod(kind, passed[kind][ip])
  BY <1>6 DEF LastPeriod, Nothing
<1> QED
  BY <1>3, <1>5, <1>6, <1>7, <1>8, Zenon DEF WindowInv

\* Each step keeps the windows.
LEMMA WindowsInductive ==
    ASSUME WindowInv, IInv, [Next]_vars
    PROVE  WindowInv'
<1>1. CASE UNCHANGED vars
  BY <1>1, WindowsStay DEF vars
<1>2. CASE \E ip \in Ips, cost \in Costs : OtherWrites(ip, cost)
  BY <1>2, OtherWritesKeepsWindows
<1>3. CASE \E cost \in Costs : DrawAndSend(cost)
  BY <1>3, WindowsStay DEF DrawAndSend
<1>4. ASSUME NEW s \in submits,
             \/ \E accepted \in BOOLEAN : Verify(s, accepted)
             \/ Acknowledged(s) \/ SubmitTimesOut(s)
      PROVE  WindowInv'
  BY <1>4, WindowsStay DEF Verify, Acknowledged, SubmitTimesOut
<1>5. CASE Emit
  BY <1>5, WindowsStay DEF Emit
<1>6. CASE Cut
  BY <1>6, WindowsStay DEF Cut
<1>7. CASE Reconnect \/ Refresh
  BY <1>7, WindowsStay DEF Reconnect, Refresh
<1>8. CASE Solved \/ ChallengeFails
  BY <1>8, WindowsStay DEF Solved, ChallengeFails
<1> QED
  BY <1>1, <1>2, <1>3, <1>4, <1>5, <1>6, <1>7, <1>8, ReceiveKeepsWindows, TickKeepsWindows
     DEF Next

\* In no interval of a period does an address get through more than twice its limit
\* (consumeFixedWindowRateLimit, enforceIpRateLimit): a window counts all that it lets
\* through, and two windows are a period apart.
THEOREM LimitsHold == Spec => []AtMostTwoWindows
<1>1. IInv /\ WindowInv /\ [Next]_vars => WindowInv'
  BY WindowsInductive
<1> QED
  BY <1>1, Invariance, InitWindows, TwoWindows, PTL DEF Spec

-----------------------------------------------------------------------------
(* The pace of the page *)

\* What is under way after the first n messages, by the time it was sent.
WaitOk(f, q) ==
    /\ f \in [0 .. Len(q) -> [Kinds -> Amounts]]
    /\ f[Len(q)] = [kind \in Kinds |-> Nothing]
    /\ \A n \in 1 .. Len(q), kind \in Kinds, t \in Times :
          f[n - 1][kind][t] = f[n][kind][t] + (IF t = q[n].at THEN q[n].cost[kind] ELSE 0)
    /\ \A n \in 0 .. Len(q), kind \in Kinds, t \in Times :
          f[n][kind][t] # 0 => \E k \in n + 1 .. Len(q) : q[k].at = t

\* What was sent early enough to be counted in a window, and later.
SentFor(u, start, delay) == [t \in Times |-> IF t + delay >= start THEN u[t] ELSE 0]

\* What waits was sent; no paced interval has more than the limit; and an open window
\* has counted no more than what was sent for it and does not wait.
PaceOk(kind, p, u, map, time, delay) ==
    /\ p \in Amounts /\ u \in Amounts
    /\ \A t \in Times : p[t] <= u[t] /\ (p[t] # 0 => time <= t + delay)
    /\ Total(Recent(u, Period[kind] + Safety, time)) <= Limit[kind]
    /\ \A k \in EntryOf(map, Mine) : time < map[k].start + Period[kind] =>
          map[k].count + Total(p) <= Total(SentFor(u, map[k].start, delay))

\* The page is alone and its messages are in time.
Gentle ==
    /\ left.alone /\ left.jitter <= Safety
    /\ \A cost \in Costs, kind \in Kinds : cost[kind] <= Limit[kind]

PaceInv ==
    /\ page.usage \in [Kinds -> Amounts]
    /\ Gentle => /\ ~limited
                 /\ \E f : /\ WaitOk(f, up)
                           /\ \A kind \in Kinds : PaceOk(kind, f[0][kind], page.usage[kind],
                                                         maps[kind], now, left.jitter)

\* What is sent for a window is an amount.
LEMMA SentIsAmount ==
    ASSUME NEW u \in Amounts, NEW start, NEW delay
    PROVE  SentFor(u, start, delay) \in Amounts
BY DEF SentFor, Amounts

\* The entries of a table.
LEMMA EntryFacts ==
    ASSUME NEW map, MapOk(map), NEW ip, NEW k \in EntryOf(map, ip), now \in Nat
    PROVE  /\ map[k] \in Counters /\ map[k].start \in Nat /\ map[k].count \in Nat
           /\ map[k].start <= now /\ k \in DOMAIN map /\ map[k].ip = ip
<1>1. k \in DOMAIN map /\ map[k].ip = ip
  BY DEF EntryOf
<1>2. map[k] \in Counters /\ map[k].start <= map[k].seen /\ map[k].seen <= now
  BY <1>1, ElementOfSeq, LenProperties DEF MapOk
<1>3. map[k].start \in Nat /\ map[k].count \in Nat /\ map[k].seen \in Nat
  BY <1>2 DEF Counters
<1> QED
  BY <1>1, <1>2, <1>3

\* What waits can still arrive in a window that starts now.
LEMMA WaitingIsSent ==
    ASSUME NEW kind \in Kinds, NEW p, NEW u, NEW map, NEW time, NEW delay,
           PaceOk(kind, p, u, map, time, delay)
    PROVE  Total(p) <= Total(SentFor(u, time, delay)) /\ Total(p) \in Nat
<1>1. p \in Amounts /\ u \in Amounts /\ SentFor(u, time, delay) \in Amounts
  BY SentIsAmount DEF PaceOk
<1>2. \A t \in Times : p[t] <= SentFor(u, time, delay)[t]
  <2> SUFFICES ASSUME NEW t \in Times PROVE p[t] <= SentFor(u, time, delay)[t]
    OBVIOUS
  <2>1. p[t] \in Nat /\ u[t] \in Nat
    BY <1>1 DEF Amounts
  <2>2. p[t] <= u[t] /\ (p[t] # 0 => time <= t + delay)
    BY DEF PaceOk
  <2>3. SentFor(u, time, delay)[t] = IF t + delay >= time THEN u[t] ELSE 0
    BY DEF SentFor
  <2>4. CASE p[t] # 0
    <3>1. time <= t + delay
      BY <2>2, <2>4
    <3>2. SentFor(u, time, delay)[t] = u[t]
      BY <2>3, <3>1
    <3> QED
      BY <2>2, <3>2
  <2>5. CASE p[t] = 0
    <3>1. SentFor(u, time, delay)[t] \in Nat
      BY <1>1 DEF Amounts
    <3> QED
      BY <2>5, <3>1
  <2> QED
    BY <2>4, <2>5
<1> QED
  BY <1>1, <1>2, TotalLeq, TotalNat

\* What is sent for an open window was sent in one paced interval.
LEMMA OpenWindowIsPaced ==
    ASSUME NEW kind \in Kinds, NEW u \in Amounts, NEW time \in Nat, NEW delay \in Nat,
           NEW start \in Nat, time < start + Period[kind], delay <= Safety
    PROVE  Total(SentFor(u, start, delay)) <= Total(Recent(u, Period[kind] + Safety, time))
<1>1. Period[kind] \in Nat /\ Safety \in Nat /\ Times \subseteq Nat
  BY KindFacts, TimeFacts, WriteAdmissionAssumption
<1>2. SentFor(u, start, delay) \in Amounts /\ Recent(u, Period[kind] + Safety, time) \in Amounts
  BY SentIsAmount, PartsAreAmounts
<1>3. \A t \in Times : SentFor(u, start, delay)[t] <= Recent(u, Period[kind] + Safety, time)[t]
  <2> SUFFICES ASSUME NEW t \in Times
               PROVE  SentFor(u, start, delay)[t] <= Recent(u, Period[kind] + Safety, time)[t]
    OBVIOUS
  <2>1. u[t] \in Nat /\ t \in Nat
    BY <1>1 DEF Amounts
  <2>2. SentFor(u, start, delay)[t] = IF t + delay >= start THEN u[t] ELSE 0
    BY DEF SentFor
  <2>3. Recent(u, Period[kind] + Safety, time)[t]
          = IF t + (Period[kind] + Safety) > time THEN u[t] ELSE 0
    BY DEF Recent
  <2>4. t + delay >= start => t + (Period[kind] + Safety) > time
    BY <1>1, <2>1
  <2> QED
    BY <2>1, <2>2, <2>3, <2>4
<1> QED
  BY <1>2, <1>3, TotalLeq

\* A write that arrives moves from what waits to what is counted.
LEMMA ArrivalKeepsPace ==
    ASSUME now \in Times, now \in Nat, NEW kind \in Kinds, NEW p, NEW q, NEW u,
           NEW map, MapOk(map), NEW s, MapOk(s), NEW delay \in Nat, NEW c \in Nat,
           PaceOk(kind, p, u, map, now, delay), q \in Amounts,
           NEW h \in Times, \A t \in Times : p[t] = q[t] + (IF t = h THEN c ELSE 0),
           s = map \/ CountedOk(s, kind, map, Mine, c)
    PROVE  PaceOk(kind, q, u, s, now, delay)
<1>1. /\ p \in Amounts /\ u \in Amounts
      /\ Total(Recent(u, Period[kind] + Safety, now)) <= Limit[kind]
      /\ \A t \in Times : p[t] \in Nat /\ q[t] \in Nat /\ u[t] \in Nat
  BY DEF PaceOk, Amounts
<1>2. Total(p) = Total(q) + c /\ Total(q) \in Nat
  <2>1. At(h, c) \in Amounts /\ Total(At(h, c)) = c
    BY TotalAt
  <2>2. \A t \in Times : p[t] = q[t] + At(h, c)[t]
    BY DEF At
  <2> QED
    BY <1>1, <2>1, <2>2, TotalSum
<1>3. \A t \in Times : q[t] <= u[t] /\ (q[t] # 0 => now <= t + delay)
  <2> SUFFICES ASSUME NEW t \in Times PROVE q[t] <= u[t] /\ (q[t] # 0 => now <= t + delay)
    OBVIOUS
  <2>1. p[t] <= u[t] /\ (p[t] # 0 => now <= t + delay)
    BY DEF PaceOk
  <2>2. q[t] <= p[t]
    <3>1. p[t] \in Nat /\ q[t] \in Nat
      BY <1>1
    <3>2. CASE t = h
      <4>1. p[t] = q[t] + c
        BY <3>2
      <4> QED
        BY <3>1, <4>1
    <3>3. CASE t # h
      <4>1. p[t] = q[t] + 0
        BY <3>3
      <4> QED
        BY <3>1, <4>1
    <3> QED
      BY <3>2, <3>3
  <2>3. q[t] <= u[t]
    BY <1>1, <2>1, <2>2
  <2>4. q[t] # 0 => p[t] # 0
    <3>1. p[t] \in Nat /\ q[t] \in Nat
      BY <1>1
    <3> QED
      BY <2>2, <3>1
  <2> QED
    BY <2>1, <2>3, <2>4
<1>4. \A k \in EntryOf(map, Mine) : now < map[k].start + Period[kind] =>
        map[k].count + Total(p) <= Total(SentFor(u, map[k].start, delay))
  BY DEF PaceOk
<1>5. ASSUME NEW k \in EntryOf(s, Mine), now < s[k].start + Period[kind]
      PROVE  s[k].count + Total(q) <= Total(SentFor(u, s[k].start, delay))
  <2>1. CASE s = map
    <3>1. k \in EntryOf(map, Mine) /\ s[k] = map[k]
      BY <1>5, <2>1
    <3>2. map[k].count + Total(p) <= Total(SentFor(u, map[k].start, delay))
      BY <1>4, <1>5, <3>1
    <3>3. map[k].count \in Nat
      BY <3>1, EntryFacts
    <3>4. Total(SentFor(u, map[k].start, delay)) \in Nat
      BY <1>1, SentIsAmount, TotalNat
    <3> QED
      BY <1>2, <3>1, <3>2, <3>3, <3>4
  <2>2. CASE CountedOk(s, kind, map, Mine, c)
    <3>1. k = Len(s) /\ s[k] = Newest(s)
      <4>1. s \in Seq(Counters) /\ Len(s) > 0 /\ Newest(s).ip = Mine
        BY <2>2 DEF CountedOk, MapOk
      <4>2. Len(s) \in DOMAIN s
        BY <4>1, LenProperties
      <4>3. k \in DOMAIN s /\ s[k].ip = Mine
        BY <1>5 DEF EntryOf
      <4>4. k = Len(s)
        BY <4>1, <4>2, <4>3 DEF MapOk, Newest
      <4> QED
        BY <4>4 DEF Newest
    <3>2. CASE s[k].start = now /\ s[k].count = c
      <4>1. Total(p) <= Total(SentFor(u, now, delay))
        BY WaitingIsSent
      <4>2. Total(SentFor(u, now, delay)) \in Nat
        BY <1>1, SentIsAmount, TotalNat
      <4> QED
        BY <1>2, <3>2, <4>1, <4>2
    <3>3. CASE EntryOf(map, Mine) = {}
      <4>1. s[k] = Consumed(kind, Entry(Mine, now), c)
        BY <2>2, <3>1, <3>3 DEF CountedOk
      <4>2. /\ Entry(Mine, now) \in Counters
            /\ Entry(Mine, now).start = now /\ Entry(Mine, now).count = 0
        BY KindFacts DEF Entry, Counters
      <4>6. PICK e \in Counters : e = Entry(Mine, now) /\ e.start = now /\ e.count = 0
        BY <4>2
      <4>3. now < e.start + Period[kind] /\ e.start <= now
        BY <4>6, KindFacts
      <4>4. s[k].start = e.start /\ s[k].count = e.count + c
        BY <4>1, <4>6, <4>3, ConsumedFacts
      <4>5. s[k].start = now /\ s[k].count = c
        BY <4>6, <4>4
      <4> QED
        BY <3>2, <4>5
    <3>4. CASE EntryOf(map, Mine) # {}
      <4>1. PICK j \in EntryOf(map, Mine) : s[k] = Consumed(kind, map[j], c)
        BY <2>2, <3>1, <3>4 DEF CountedOk
      <4>2. PICK e \in Counters : e = map[j] /\ e.start <= now /\ e.start \in Nat /\ e.count \in Nat
        BY <4>1, EntryFacts
      <4>3. CASE now >= e.start + Period[kind]
        <5>1. s[k].start = now /\ s[k].count = c
          BY <4>1, <4>2, <4>3, ConsumedFacts
        <5> QED
          BY <3>2, <5>1
      <4>4. CASE ~(now >= e.start + Period[kind])
        <5>1. now < e.start + Period[kind]
          BY <4>2, <4>4, KindFacts
        <5>2. s[k].start = e.start /\ s[k].count = e.count + c
          BY <4>1, <4>2, <5>1, ConsumedFacts
        <5>3. e.count + Total(p) <= Total(SentFor(u, e.start, delay))
          BY <1>4, <4>2, <5>1
        <5>4. Total(SentFor(u, e.start, delay)) \in Nat
          BY <1>1, SentIsAmount, TotalNat
        <5> QED
          BY <1>2, <4>2, <5>2, <5>3, <5>4
      <4> QED
        BY <4>3, <4>4
    <3> QED
      BY <3>3, <3>4
  <2> QED
    BY <2>1, <2>2
<1> QED
  BY <1>1, <1>3, <1>5 DEF PaceOk

\* A paced page does not exceed a limit when it is counted.
LEMMA PacedIsWithin ==
    ASSUME now \in Times, now \in Nat, NEW kind \in Kinds, NEW q, NEW u, NEW map, MapOk(map),
           NEW s, NEW delay \in Nat, NEW c \in Nat, delay <= Safety,
           PaceOk(kind, q, u, s, now, delay), CountedOk(s, kind, map, Mine, c)
    PROVE  ~(Newest(s).count > Limit[kind])
<1>1. MapOk(s) /\ Len(s) \in EntryOf(s, Mine) /\ s[Len(s)] = Newest(s)
  <2>1. s \in Seq(Counters) /\ Len(s) > 0 /\ Newest(s).ip = Mine /\ MapOk(s)
    BY DEF CountedOk, MapOk
  <2>2. Len(s) \in DOMAIN s
    BY <2>1, LenProperties
  <2> QED
    BY <2>1, <2>2 DEF EntryOf, Newest
<1>2. PICK e \in Counters : e = Newest(s) /\ e.start \in Nat /\ e.count \in Nat
  BY <1>1, EntryFacts
<1>3. PICK old \in Counters : old.start <= now /\ e = Consumed(kind, old, c) /\ old.start \in Nat
  <2>1. CASE EntryOf(map, Mine) = {}
    <3>1. Entry(Mine, now) \in Counters /\ Entry(Mine, now).start = now
      BY KindFacts DEF Entry, Counters
    <3> QED
      BY <1>2, <2>1, <3>1 DEF CountedOk
  <2>2. CASE EntryOf(map, Mine) # {}
    <3>1. PICK j \in EntryOf(map, Mine) : e = Consumed(kind, map[j], c)
      BY <1>2, <2>2 DEF CountedOk
    <3> QED
      BY <3>1, EntryFacts
  <2> QED
    BY <2>1, <2>2
<1>4. Period[kind] \in Nat \ {0} /\ Limit[kind] \in Nat
  BY KindFacts
<1>5. now < e.start + Period[kind]
  <2>1. CASE now >= old.start + Period[kind]
    <3>1. e.start = now
      BY <1>3, <2>1, ConsumedFacts
    <3> QED
      BY <1>4, <3>1
  <2>2. CASE ~(now >= old.start + Period[kind])
    <3>1. now < old.start + Period[kind]
      BY <1>3, <1>4, <2>2
    <3>2. e.start = old.start
      BY <1>3, <3>1, ConsumedFacts
    <3> QED
      BY <3>1, <3>2
  <2> QED
    BY <2>1, <2>2
<1>6. e.count + Total(q) <= Total(SentFor(u, e.start, delay))
  BY <1>1, <1>2, <1>5 DEF PaceOk
<1>7. u \in Amounts /\ Total(q) \in Nat /\ Total(Recent(u, Period[kind] + Safety, now)) <= Limit[kind]
  BY TotalNat DEF PaceOk
<1>8. Total(SentFor(u, e.start, delay)) <= Total(Recent(u, Period[kind] + Safety, now))
  BY <1>2, <1>5, <1>7, OpenWindowIsPaced
<1>9. /\ Total(SentFor(u, e.start, delay)) \in Nat
      /\ Total(Recent(u, Period[kind] + Safety, now)) \in Nat
  BY <1>7, SentIsAmount, PartsAreAmounts, TotalNat
<1>10. e.count <= Limit[kind]
  BY <1>2, <1>4, <1>6, <1>7, <1>8, <1>9
<1> QED
  BY <1>2, <1>4, <1>10

\* Whoever else writes counts for another entry.
LEMMA OthersKeepPace ==
    ASSUME NEW kind \in Kinds, NEW p, NEW u, NEW map, MapOk(map), NEW s, NEW delay, NEW c,
           NEW ip, ip # Mine, NEW time,
           PaceOk(kind, p, u, map, time, delay), s = map \/ CountedOk(s, kind, map, ip, c)
    PROVE  PaceOk(kind, p, u, s, time, delay)
<1>1. CASE s = map
  BY <1>1
<1>2. CASE CountedOk(s, kind, map, ip, c)
  <2>1. ASSUME NEW k \in EntryOf(s, Mine)
        PROVE  \E j \in EntryOf(map, Mine) : s[k] = map[j]
    <3>1. k \in DOMAIN s /\ s[k].ip = Mine
      BY <2>1 DEF EntryOf
    <3>2. k # Len(s)
      BY <1>2, <3>1 DEF CountedOk, Newest
    <3>3. PICK j \in DOMAIN map : s[k] = map[j]
      BY <1>2, <3>1, <3>2 DEF CountedOk
    <3> QED
      BY <3>1, <3>3 DEF EntryOf
  <2>2. \A k \in EntryOf(s, Mine) : time < s[k].start + Period[kind] =>
          s[k].count + Total(p) <= Total(SentFor(u, s[k].start, delay))
    <3> SUFFICES ASSUME NEW k \in EntryOf(s, Mine), time < s[k].start + Period[kind]
                 PROVE  s[k].count + Total(p) <= Total(SentFor(u, s[k].start, delay))
      OBVIOUS
    <3>1. PICK j \in EntryOf(map, Mine) : s[k] = map[j]
      BY <2>1
    <3>2. time < map[j].start + Period[kind]
      BY <3>1
    <3>3. map[j].count + Total(p) <= Total(SentFor(u, map[j].start, delay))
      BY <3>2 DEF PaceOk
    <3> QED
      BY <3>1, <3>3
  <2> QED
    BY <2>2 DEF PaceOk
<1> QED
  BY <1>1, <1>2

\* What is sent now waits, and counts for the page and for a window that is open.
LEMMA SendingKeepsPace ==
    ASSUME now \in Times, now \in Nat, NEW kind \in Kinds, NEW p, NEW u, NEW map, MapOk(map),
           NEW delay \in Nat, delay <= Safety, NEW c \in Nat,
           PaceOk(kind, p, u, map, now, delay),
           c > 0 => Total(Recent(u, Period[kind] + Safety, now)) + c <= Limit[kind],
           NEW v, v = Plus(Recent(u, Period[kind] + Safety, now), c),
           NEW q \in Amounts, \A t \in Times : q[t] = p[t] + At(now, c)[t]
    PROVE  PaceOk(kind, q, v, map, now, delay)
<1> DEFINE span == Period[kind] + Safety
           r == Recent(u, span, now)
<1>1. /\ Period[kind] \in Nat \ {0} /\ Safety \in Nat /\ span \in Nat /\ span > Safety
      /\ Limit[kind] \in Nat /\ Times \subseteq Nat
  <2>1. Period[kind] \in Nat \ {0} /\ Limit[kind] \in Nat
    BY KindFacts
  <2>2. Safety \in Nat
    BY WriteAdmissionAssumption
  <2>3. span \in Nat /\ span > Safety
    BY <2>1, <2>2
  <2> QED
    BY <2>1, <2>2, <2>3, TimeFacts
<1>2. /\ p \in Amounts /\ u \in Amounts /\ r \in Amounts
      /\ At(now, c) \in Amounts /\ Total(At(now, c)) = c
  <2>1. p \in Amounts /\ u \in Amounts
    BY DEF PaceOk
  <2>2. r \in Amounts
    BY <2>1, PartsAreAmounts
  <2> QED
    BY <2>1, <2>2, TotalAt
<1>3. v \in Amounts /\ \A t \in Times : v[t] = IF t = now THEN r[t] + c ELSE r[t]
  <2> HIDE DEF r
  <2>1. v = Plus(r, c)
    BY DEF r
  <2> QED
    BY <1>2, <2>1, PlusFacts
<1>4. ASSUME NEW t \in Times
      PROVE  /\ p[t] \in Nat /\ u[t] \in Nat /\ t \in Nat /\ v[t] \in Nat /\ r[t] \in Nat
             /\ p[t] <= u[t] /\ (p[t] # 0 => now <= t + delay)
             /\ r[t] = IF t + span > now THEN u[t] ELSE 0
             /\ At(now, c)[t] = IF t = now THEN c ELSE 0
             /\ v[t] = r[t] + At(now, c)[t]
             /\ q[t] = p[t] + At(now, c)[t]
  <2>1. p[t] \in Nat /\ u[t] \in Nat /\ v[t] \in Nat /\ r[t] \in Nat /\ t \in Nat
    BY <1>1, <1>2, <1>3 DEF Amounts
  <2>2. p[t] <= u[t] /\ (p[t] # 0 => now <= t + delay)
    BY DEF PaceOk
  <2>3. r[t] = IF t + span > now THEN u[t] ELSE 0
    BY DEF Recent
  <2>4. At(now, c)[t] = IF t = now THEN c ELSE 0
    BY DEF At
  <2> HIDE DEF r
  <2>5. v[t] = IF t = now THEN r[t] + c ELSE r[t]
    BY <1>3
  <2>6. r[t] + 0 = r[t]
    BY <2>1
  <2>7. v[t] = r[t] + At(now, c)[t]
    BY <2>4, <2>5, <2>6
  <2> QED
    BY <2>1, <2>2, <2>3, <2>4, <2>7
<1> HIDE DEF r, span
<1>5. \A t \in Times : q[t] <= v[t] /\ (q[t] # 0 => now <= t + delay)
  <2> SUFFICES ASSUME NEW t \in Times PROVE q[t] <= v[t] /\ (q[t] # 0 => now <= t + delay)
    OBVIOUS
  <2>1. PICK a \in Nat : a = At(now, c)[t] /\ (a # 0 => t = now)
    BY <1>4
  <2>2. p[t] <= r[t]
    <3>1. CASE p[t] = 0
      BY <1>4, <3>1
    <3>2. CASE p[t] # 0
      <4>1. now <= t + delay
        BY <1>4, <3>2
      <4>2. t + span > now
        <5>1. t \in Nat /\ p[t] \in Nat
          BY <1>4
        <5>2. delay < span
          BY <1>1 DEF span
        <5> QED
          BY <1>1, <4>1, <5>1, <5>2
      <4>3. r[t] = u[t]
        BY <1>4, <4>2
      <4> QED
        BY <1>4, <4>3
    <3> QED
      BY <3>1, <3>2
  <2>3. q[t] = p[t] + a /\ v[t] = r[t] + a
    BY <1>4, <2>1
  <2>4. p[t] \in Nat /\ r[t] \in Nat /\ t \in Nat
    BY <1>4
  <2>5. q[t] <= v[t]
    BY <2>1, <2>2, <2>3, <2>4
  <2>6. ASSUME q[t] # 0 PROVE now <= t + delay
    <3>1. p[t] # 0 \/ a # 0
      BY <2>1, <2>3, <2>4, <2>6
    <3>2. CASE p[t] # 0
      BY <1>4, <3>2
    <3>3. CASE a # 0
      BY <2>1, <2>4, <3>3
    <3> QED
      BY <3>1, <3>2, <3>3
  <2> QED
    BY <2>5, <2>6
<1>6. Total(Recent(v, span, now)) <= Limit[kind]
  <2>1. Recent(v, span, now) \in Amounts
    BY <1>3, PartsAreAmounts
  <2>2. ASSUME NEW t \in Times PROVE Recent(v, span, now)[t] = r[t] + At(now, c)[t]
    <3>1. Recent(v, span, now)[t] = IF t + span > now THEN v[t] ELSE 0
      BY DEF Recent
    <3>2. CASE t + span > now
      BY <1>4, <3>1, <3>2
    <3>3. CASE ~(t + span > now)
      <4>1. t # now
        BY <1>1, <1>4, <3>3
      <4>2. r[t] = 0 /\ At(now, c)[t] = 0
        BY <1>4, <3>3, <4>1
      <4> QED
        BY <3>1, <3>3, <4>2
    <3> QED
      BY <3>2, <3>3
  <2>3. Total(Recent(v, span, now)) = Total(r) + c /\ Total(r) \in Nat
    BY <1>2, <2>1, <2>2, TotalSum
  <2>4. Total(r) <= Limit[kind]
    BY DEF PaceOk, r, span
  <2>5. c > 0 => Total(r) + c <= Limit[kind]
    BY DEF r, span
  <2> QED
    BY <1>1, <2>3, <2>4, <2>5
<1>7. Total(q) = Total(p) + c /\ Total(p) \in Nat
  BY <1>2, <1>4, TotalSum
<1>8. ASSUME NEW k \in EntryOf(map, Mine), now < map[k].start + Period[kind]
      PROVE  map[k].count + Total(q) <= Total(SentFor(v, map[k].start, delay))
  <2>1. PICK e : e = map[k] /\ e.start \in Nat /\ e.count \in Nat /\ e.start <= now
    BY EntryFacts
  <2>2. now < e.start + Period[kind]
    BY <1>8, <2>1
  <2>3. SentFor(u, e.start, delay) \in Amounts /\ SentFor(v, e.start, delay) \in Amounts
    BY <1>2, <1>3, SentIsAmount
  <2>4. ASSUME NEW t \in Times
        PROVE  SentFor(v, e.start, delay)[t] = SentFor(u, e.start, delay)[t] + At(now, c)[t]
    <3>1. /\ SentFor(v, e.start, delay)[t] = IF t + delay >= e.start THEN v[t] ELSE 0
          /\ SentFor(u, e.start, delay)[t] = IF t + delay >= e.start THEN u[t] ELSE 0
      BY DEF SentFor
    <3>2. CASE t + delay >= e.start
      <4>1. t + span > now
        <5>1. t \in Nat
          BY <1>4
        <5> QED
          BY <1>1, <2>1, <2>2, <3>2, <5>1 DEF span
      <4> QED
        BY <1>4, <3>1, <3>2, <4>1
    <3>3. CASE ~(t + delay >= e.start)
      <4>1. t # now
        BY <1>4, <2>1, <3>3
      <4> QED
        BY <1>4, <3>1, <3>3, <4>1
    <3> QED
      BY <3>2, <3>3
  <2>5. /\ Total(SentFor(v, e.start, delay)) = Total(SentFor(u, e.start, delay)) + c
        /\ Total(SentFor(u, e.start, delay)) \in Nat
    <3> DEFINE a == SentFor(u, e.start, delay)
               b == SentFor(v, e.start, delay)
    <3>1. a \in Amounts /\ b \in Amounts /\ \A t \in Times : b[t] = a[t] + At(now, c)[t]
      BY <2>3, <2>4
    <3> HIDE DEF a, b
    <3>2. Total(a) \in Nat /\ Total(b) = Total(a) + c
      BY <1>2, <3>1, TotalSum
    <3> QED
      BY <3>2 DEF a, b
  <2>6. e.count + Total(p) <= Total(SentFor(u, e.start, delay))
    BY <2>1, <2>2 DEF PaceOk
  <2>7. e.count + Total(q) <= Total(SentFor(v, e.start, delay))
    BY <1>7, <2>1, <2>5, <2>6
  <2> QED
    BY <2>1, <2>7
<1> QED
  BY <1>3, <1>5, <1>6, <1>8 DEF PaceOk, span

\* Time passes, as long as no message gets too late.
LEMMA TimeKeepsPace ==
    ASSUME now \in Nat, NEW kind \in Kinds, NEW p, NEW u, NEW map, MapOk(map), NEW delay \in Nat,
           PaceOk(kind, p, u, map, now, delay),
           \A t \in Times : p[t] # 0 => now < t + delay
    PROVE  PaceOk(kind, p, u, map, now + 1, delay)
<1>1. /\ p \in Amounts /\ u \in Amounts
      /\ Total(Recent(u, Period[kind] + Safety, now)) <= Limit[kind]
  BY DEF PaceOk
<1>2. Period[kind] \in Nat /\ Safety \in Nat /\ Times \subseteq Nat /\ Limit[kind] \in Nat
  BY KindFacts, TimeFacts, WriteAdmissionAssumption
<1> DEFINE span == Period[kind] + Safety
<1>3. \A t \in Times : p[t] <= u[t] /\ (p[t] # 0 => now + 1 <= t + delay)
  <2> SUFFICES ASSUME NEW t \in Times PROVE p[t] <= u[t] /\ (p[t] # 0 => now + 1 <= t + delay)
    OBVIOUS
  <2>1. p[t] <= u[t]
    BY DEF PaceOk
  <2>2. t \in Nat
    BY <1>2
  <2> QED
    BY <2>1, <2>2
<1>4. Total(Recent(u, span, now + 1)) <= Limit[kind]
  <2>1. Recent(u, span, now) \in Amounts /\ Recent(u, span, now + 1) \in Amounts
    BY <1>1, PartsAreAmounts
  <2>2. ASSUME NEW t \in Times PROVE Recent(u, span, now + 1)[t] <= Recent(u, span, now)[t]
    <3>1. /\ Recent(u, span, now)[t] = IF t + span > now THEN u[t] ELSE 0
          /\ Recent(u, span, now + 1)[t] = IF t + span > now + 1 THEN u[t] ELSE 0
      BY DEF Recent
    <3>2. t \in Nat /\ u[t] \in Nat /\ span \in Nat
      BY <1>1, <1>2 DEF Amounts
    <3> HIDE DEF span
    <3>3. t + span > now + 1 => t + span > now
      BY <3>2
    <3> QED
      BY <3>1, <3>2, <3>3
  <2>3. Total(Recent(u, span, now + 1)) <= Total(Recent(u, span, now))
    BY <2>1, <2>2, TotalLeq
  <2>4. Total(Recent(u, span, now + 1)) \in Nat /\ Total(Recent(u, span, now)) \in Nat
    BY <2>1, TotalNat
  <2> QED
    BY <1>1, <1>2, <2>3, <2>4
<1>5. ASSUME NEW k \in EntryOf(map, Mine), now + 1 < map[k].start + Period[kind]
      PROVE  map[k].count + Total(p) <= Total(SentFor(u, map[k].start, delay))
  <2>1. map[k].start \in Nat
    BY EntryFacts
  <2>2. now < map[k].start + Period[kind]
    BY <1>2, <1>5, <2>1
  <2> QED
    BY <2>2 DEF PaceOk
<1> QED
  BY <1>1, <1>3, <1>4, <1>5 DEF PaceOk

\* Nothing waits on a connection that is gone.
LEMMA LosingKeepsPace ==
    ASSUME now \in Nat, NEW kind \in Kinds, NEW p, NEW u, NEW map, MapOk(map), NEW delay \in Nat,
           PaceOk(kind, p, u, map, now, delay)
    PROVE  PaceOk(kind, Nothing, u, map, now, delay)
<1>1. p \in Amounts /\ u \in Amounts /\ Total(p) \in Nat
  BY TotalNat DEF PaceOk
<1>2. Nothing \in Amounts /\ Total(Nothing) = 0 /\ \A t \in Times : Nothing[t] = 0
  BY TotalNothing DEF Nothing
<1>3. \A t \in Times : Nothing[t] <= u[t] /\ (Nothing[t] # 0 => now <= t + delay)
  <2>1. \A t \in Times : u[t] \in Nat
    BY <1>1 DEF Amounts
  <2>2. \A t \in Times : 0 <= u[t]
    BY <2>1
  <2> QED
    BY <1>2, <2>2
<1>4. ASSUME NEW k \in EntryOf(map, Mine), now < map[k].start + Period[kind]
      PROVE  map[k].count + Total(Nothing) <= Total(SentFor(u, map[k].start, delay))
  <2>1. map[k].count + Total(p) <= Total(SentFor(u, map[k].start, delay))
    BY <1>4 DEF PaceOk
  <2>2. map[k].count \in Nat /\ Total(SentFor(u, map[k].start, delay)) \in Nat
    BY <1>1, EntryFacts, SentIsAmount, TotalNat
  <2> QED
    BY <1>1, <1>2, <2>1, <2>2
<1> QED
  BY <1>1, <1>2, <1>3, <1>4 DEF PaceOk

\* What waits before, compared to what waits after a message.
Adds(g, f, at, cost) ==
    \A kind \in Kinds, t \in Times : g[0][kind][t] = f[0][kind][t] + At(at, cost[kind])[t]

\* A message is sent: it waits after all others.
LEMMA WaitAfterSending ==
    ASSUME NEW f, NEW q \in Seq(Messages), WaitOk(f, q), NEW w \in Messages, w.at \in Times,
           Costs \subseteq [Kinds -> Nat]
    PROVE  \E g : WaitOk(g, Append(q, w)) /\ Adds(g, f, w.at, w.cost)
<1>1. PICK n \in Nat : n = Len(q)
  BY LenProperties
<1>2. PICK s : s = Append(q, w)
  OBVIOUS
<1>3. /\ Len(s) = n + 1 /\ s[n + 1] = w /\ \A k \in 1 .. n : s[k] = q[k]
  BY <1>1, <1>2, AppendProperties
<1>4. w.cost \in [Kinds -> Nat]
  BY DEF Messages
<1>5. /\ f \in [0 .. n -> [Kinds -> Amounts]]
      /\ f[n] = [kind \in Kinds |-> Nothing]
      /\ \A m \in 1 .. n, kind \in Kinds, t \in Times :
            f[m - 1][kind][t] = f[m][kind][t] + (IF t = q[m].at THEN q[m].cost[kind] ELSE 0)
      /\ \A m \in 0 .. n, kind \in Kinds, t \in Times :
            f[m][kind][t] # 0 => \E k \in m + 1 .. n : q[k].at = t
  BY <1>1 DEF WaitOk
<1> DEFINE a(kind) == At(w.at, w.cost[kind])
           more(m) == [kind \in Kinds |-> [t \in Times |-> f[m][kind][t] + a(kind)[t]]]
           none == [kind \in Kinds |-> Nothing]
           g == [m \in 0 .. n + 1 |-> IF m = n + 1 THEN none ELSE more(m)]
<1>6. \A kind \in Kinds : a(kind) \in Amounts
  BY <1>4, TotalAt
<1>7. \A m \in 0 .. n : more(m) \in [Kinds -> Amounts]
  <2> SUFFICES ASSUME NEW m \in 0 .. n, NEW kind \in Kinds, NEW t \in Times
               PROVE  f[m][kind][t] + a(kind)[t] \in Nat
    BY DEF Amounts
  <2>1. f[m][kind] \in Amounts
    BY <1>5
  <2> HIDE DEF a
  <2>2. f[m][kind][t] \in Nat /\ a(kind)[t] \in Nat
    BY <1>6, <2>1 DEF Amounts
  <2> QED
    BY <2>2
<1>8. none \in [Kinds -> Amounts] /\ \A kind \in Kinds, t \in Times : none[kind][t] = 0
  BY TotalNothing DEF Nothing
<1>9. \A m \in 0 .. n, kind \in Kinds, t \in Times : more(m)[kind][t] = f[m][kind][t] + a(kind)[t]
  OBVIOUS
<1>10. \A kind \in Kinds, t \in Times : a(kind)[t] = IF t = w.at THEN w.cost[kind] ELSE 0
  BY DEF At
<1> HIDE DEF none, more, a
<1>11. /\ g \in [0 .. n + 1 -> [Kinds -> Amounts]] /\ g[n + 1] = none
       /\ \A m \in 0 .. n : g[m] = more(m)
  <2>1. \A m \in 0 .. n + 1 : m = n + 1 \/ m \in 0 .. n
    OBVIOUS
  <2>2. n + 1 \in 0 .. n + 1 /\ \A m \in 0 .. n : m \in 0 .. n + 1 /\ m # n + 1
    OBVIOUS
  <2> QED
    BY <1>7, <1>8, <2>1, <2>2
<1> HIDE DEF g
<1>12. ASSUME NEW m \in 1 .. n + 1, NEW kind \in Kinds, NEW t \in Times
       PROVE  g[m - 1][kind][t] = g[m][kind][t] + (IF t = s[m].at THEN s[m].cost[kind] ELSE 0)
  <2>1. CASE m = n + 1
    <3>1. g[m - 1][kind][t] = f[n][kind][t] + a(kind)[t]
      BY <1>9, <1>11, <2>1
    <3>2. f[n][kind][t] = 0
      BY <1>5 DEF Nothing
    <3>3. g[m][kind][t] = 0
      BY <1>8, <1>11, <2>1
    <3>4. a(kind)[t] = IF t = s[m].at THEN s[m].cost[kind] ELSE 0
      BY <1>3, <1>10, <2>1
    <3> QED
      BY <3>1, <3>2, <3>3, <3>4
  <2>2. CASE m \in 1 .. n
    <3>1. m - 1 \in 0 .. n /\ m \in 0 .. n
      BY <2>2
    <3>2. /\ g[m - 1][kind][t] = f[m - 1][kind][t] + a(kind)[t]
          /\ g[m][kind][t] = f[m][kind][t] + a(kind)[t]
      BY <1>9, <1>11, <3>1
    <3>3. f[m - 1][kind][t] = f[m][kind][t] + (IF t = s[m].at THEN s[m].cost[kind] ELSE 0)
      BY <1>3, <1>5, <2>2
    <3>4. f[m - 1][kind][t] \in Nat /\ f[m][kind][t] \in Nat /\ a(kind)[t] \in Nat
      <4>1. f[m - 1][kind] \in Amounts /\ f[m][kind] \in Amounts
        BY <1>5, <3>1
      <4> QED
        BY <1>6, <4>1 DEF Amounts
    <3>5. PICK d : d = IF t = s[m].at THEN s[m].cost[kind] ELSE 0
      OBVIOUS
    <3>6. d \in Nat
      <4>1. q[m] \in Messages
        BY <1>1, <2>2, ElementOfSeq
      <4>2. q[m].cost \in [Kinds -> Nat]
        BY <4>1 DEF Messages
      <4> QED
        BY <1>3, <2>2, <3>5, <4>2
    <3>7. f[m - 1][kind][t] = f[m][kind][t] + d
      BY <3>3, <3>5
    <3>8. g[m - 1][kind][t] = g[m][kind][t] + d
      BY <3>2, <3>4, <3>6, <3>7
    <3> QED
      BY <3>5, <3>8
  <2> QED
    BY <2>1, <2>2
<1>13. ASSUME NEW m \in 0 .. n + 1, NEW kind \in Kinds, NEW t \in Times, g[m][kind][t] # 0
       PROVE  \E k \in m + 1 .. n + 1 : s[k].at = t
  <2>1. m # n + 1
    BY <1>8, <1>11, <1>13
  <2>2. m \in 0 .. n /\ n + 1 \in m + 1 .. n + 1
    BY <2>1
  <2>3. g[m][kind][t] = f[m][kind][t] + a(kind)[t]
    BY <1>9, <1>11, <2>2
  <2>4. f[m][kind][t] # 0 \/ a(kind)[t] # 0
    BY <1>13, <2>3
  <2>5. CASE f[m][kind][t] # 0
    <3>1. PICK k \in m + 1 .. n : q[k].at = t
      BY <1>5, <2>2, <2>5
    <3>2. k \in m + 1 .. n + 1 /\ k \in 1 .. n
      BY <2>2
    <3> QED
      BY <1>3, <3>1, <3>2
  <2>6. CASE a(kind)[t] # 0
    <3>1. t = w.at
      BY <1>10, <2>6
    <3> QED
      BY <1>3, <2>2, <3>1
  <2> QED
    BY <2>4, <2>5, <2>6
<1>14. WaitOk(g, s)
  <2>1. g[n + 1] = [kind \in Kinds |-> Nothing]
    BY <1>11 DEF none
  <2> QED
    BY <1>3, <1>11, <1>12, <1>13, <2>1 DEF WaitOk
<1>15. \A kind \in Kinds, t \in Times : g[0][kind][t] = f[0][kind][t] + a(kind)[t]
  <2>1. 0 \in 0 .. n
    OBVIOUS
  <2> QED
    BY <1>9, <1>11, <2>1
<1> QED
  BY <1>2, <1>14, <1>15 DEF a, Adds

\* The first message arrives: it waits no more.
LEMMA WaitAfterArrival ==
    ASSUME NEW f, NEW q \in Seq(Messages), q # << >>, WaitOk(f, q)
    PROVE  \E g : WaitOk(g, Tail(q)) /\ Adds(f, g, Head(q).at, Head(q).cost)
<1>1. PICK n \in Nat : n + 1 = Len(q)
  <2>1. Len(q) \in Nat /\ Len(q) # 0
    BY EmptySeq, LenProperties
  <2>2. Len(q) - 1 \in Nat
    BY <2>1
  <2> QED
    BY <2>1, <2>2
<1>2. PICK s : s = Tail(q)
  OBVIOUS
<1>3. Len(s) = n /\ Head(q) = q[1] /\ \A k \in 1 .. n : s[k] = q[k + 1]
  BY <1>1, <1>2, HeadTailProperties
<1>4. /\ f \in [0 .. n + 1 -> [Kinds -> Amounts]]
      /\ f[n + 1] = [kind \in Kinds |-> Nothing]
      /\ \A m \in 1 .. n + 1, kind \in Kinds, t \in Times :
            f[m - 1][kind][t] = f[m][kind][t] + (IF t = q[m].at THEN q[m].cost[kind] ELSE 0)
      /\ \A m \in 0 .. n + 1, kind \in Kinds, t \in Times :
            f[m][kind][t] # 0 => \E k \in m + 1 .. n + 1 : q[k].at = t
  BY <1>1 DEF WaitOk
<1> DEFINE g == [m \in 0 .. n |-> f[m + 1]]
<1>5. /\ g \in [0 .. n -> [Kinds -> Amounts]] /\ g[n] = [kind \in Kinds |-> Nothing]
      /\ \A m \in 0 .. n : g[m] = f[m + 1]
  <2>1. \A m \in 0 .. n : m + 1 \in 0 .. n + 1
    OBVIOUS
  <2>2. n \in 0 .. n
    OBVIOUS
  <2> QED
    BY <1>4, <2>1, <2>2
<1> HIDE DEF g
<1>6. ASSUME NEW m \in 1 .. n, NEW kind \in Kinds, NEW t \in Times
      PROVE  g[m - 1][kind][t] = g[m][kind][t] + (IF t = s[m].at THEN s[m].cost[kind] ELSE 0)
  <2>1. m - 1 \in 0 .. n /\ m \in 0 .. n /\ m - 1 + 1 = m /\ m + 1 \in 1 .. n + 1 /\ m + 1 - 1 = m
    OBVIOUS
  <2>2. g[m - 1] = f[m] /\ g[m] = f[m + 1] /\ s[m] = q[m + 1]
    BY <1>3, <1>5, <2>1
  <2>3. f[m + 1 - 1][kind][t]
          = f[m + 1][kind][t] + (IF t = q[m + 1].at THEN q[m + 1].cost[kind] ELSE 0)
    BY <1>4, <2>1
  <2> QED
    BY <2>1, <2>2, <2>3
<1>7. ASSUME NEW m \in 0 .. n, NEW kind \in Kinds, NEW t \in Times, g[m][kind][t] # 0
      PROVE  \E k \in m + 1 .. n : s[k].at = t
  <2>1. m + 1 \in 0 .. n + 1 /\ f[m + 1][kind][t] # 0
    BY <1>5, <1>7
  <2>2. PICK k \in m + 1 + 1 .. n + 1 : q[k].at = t
    BY <1>4, <2>1
  <2>3. k - 1 \in m + 1 .. n /\ k - 1 \in 1 .. n /\ k - 1 + 1 = k
    OBVIOUS
  <2>4. s[k - 1] = q[k]
    BY <1>3, <2>3
  <2> QED
    BY <2>2, <2>3, <2>4
<1>8. WaitOk(g, s)
  BY <1>3, <1>5, <1>6, <1>7 DEF WaitOk
<1>9. \A kind \in Kinds, t \in Times :
        f[0][kind][t] = g[0][kind][t] + (IF t = Head(q).at THEN Head(q).cost[kind] ELSE 0)
  <2>1. 0 \in 0 .. n /\ 1 \in 1 .. n + 1 /\ g[0] = f[1]
    BY <1>5
  <2> QED
    BY <1>3, <1>4, <2>1
<1>10. Adds(f, g, Head(q).at, Head(q).cost)
  <2>1. \A kind \in Kinds, t \in Times :
          At(Head(q).at, Head(q).cost[kind])[t] = IF t = Head(q).at THEN Head(q).cost[kind] ELSE 0
    BY DEF At
  <2> QED
    BY <1>9, <2>1 DEF Adds
<1> QED
  BY <1>2, <1>8, <1>10

\* Nothing waits.
LEMMA WaitForNothing ==
    \E f : WaitOk(f, << >>) /\ \A kind \in Kinds : f[0][kind] = Nothing
<1> DEFINE none == [kind \in Kinds |-> Nothing]
           f == [m \in 0 .. 0 |-> none]
<1>1. none \in [Kinds -> Amounts] /\ \A kind \in Kinds, t \in Times : none[kind][t] = 0
  BY TotalNothing DEF Nothing
<1> HIDE DEF none
<1>2. f \in [0 .. 0 -> [Kinds -> Amounts]] /\ \A m \in 0 .. 0 : f[m] = none
  BY <1>1
<1>3. Len(<< >>) = 0 /\ 0 \in 0 .. 0 /\ 1 .. 0 = {}
  BY EmptySeq
<1> HIDE DEF f
<1>4. WaitOk(f, << >>)
  <2>1. f[0] = [kind \in Kinds |-> Nothing]
    BY <1>2, <1>3 DEF none
  <2>2. \A m \in 0 .. 0, kind \in Kinds, t \in Times : f[m][kind][t] = 0
    BY <1>1, <1>2
  <2> QED
    BY <1>2, <1>3, <2>1, <2>2 DEF WaitOk
<1>5. \A kind \in Kinds : f[0][kind] = Nothing
  BY <1>2, <1>3 DEF none
<1> QED
  BY <1>4, <1>5

\* The scenario stays as gentle as it is.
LEMMA GentleStays ==
    ASSUME left \in Budgets,
           UNCHANGED left \/ \E what \in {"own", "others", "cuts", "fails"} : Spend(what)
    PROVE  left'.alone = left.alone /\ left'.jitter = left.jitter /\ Gentle' = Gentle
<1>1. left'.alone = left.alone /\ left'.jitter = left.jitter
  <2>1. ASSUME NEW what \in {"own", "others", "cuts", "fails"}, Spend(what)
        PROVE  left'.alone = left.alone /\ left'.jitter = left.jitter
    <3>1. PICK n : n = left[what] - 1
      OBVIOUS
    <3>2. left' = [left EXCEPT ![what] = n]
      BY <2>1, <3>1 DEF Spend
    <3> QED
      BY <3>2 DEF Budgets
  <2> QED
    BY <2>1
<1> QED
  BY <1>1 DEF Gentle

\* What the invariant says of each kind.
LEMMA PaceFacts ==
    ASSUME PaceInv, WindowInv, IInv
    PROVE  /\ now \in Times /\ now \in Nat /\ left.jitter \in Nat /\ left \in Budgets
           /\ page.usage \in [Kinds -> Amounts] /\ up \in Seq(Messages)
           /\ \A kind \in Kinds : MapOk(maps[kind])
BY TimeFacts DEF PaceInv, WindowInv, MapsOk, IInv, TypeInv, Budgets

\* A step that neither sends nor counts.
LEMMA PaceStays ==
    ASSUME PaceInv, WindowInv, IInv, UNCHANGED <<now, up, maps, limited>>,
           page'.usage = page.usage,
           UNCHANGED left \/ \E what \in {"own", "others", "cuts", "fails"} : Spend(what)
    PROVE  PaceInv'
<1>1. left'.jitter = left.jitter /\ Gentle' = Gentle
  BY GentleStays, PaceFacts
<1> QED
  BY <1>1 DEF PaceInv

\* emitBufferedWrite: what is sent fits the budget.
LEMMA EmitKeepsPace ==
    ASSUME PaceInv, WindowInv, IInv, Emit
    PROVE  PaceInv'
<1>1. /\ UNCHANGED <<now, maps, limited, left>> /\ page.queue # << >>
      /\ WithinBudget(Head(page.queue))
  BY DEF Emit, MayEmit
<1>2. PICK cost : cost = Head(page.queue)
  OBVIOUS
<1>3. cost \in Costs /\ cost \in [Kinds -> Nat]
  <2>1. page.queue \in Seq(Costs)
    BY DEF IInv, TypeInv, PageOk
  <2> QED
    BY <1>1, <1>2, <2>1, HeadTailProperties, KindFacts
<1>4. PICK w \in Messages : w.at = now /\ w.cost = cost /\ up' = Append(up, w)
  <2>1. PICK v \in BOOLEAN : v = Validated
    <3>1. Validated \in BOOLEAN
      BY DEF Validated
    <3> QED
      BY <3>1
  <2>2. [cost |-> cost, at |-> now, valid |-> v] \in Messages
    BY <1>3, PaceFacts DEF Messages
  <2> QED
    BY <1>2, <2>1, <2>2 DEF Emit
<1>5. page'.usage = [kind \in Kinds |->
                       Plus(Recent(page.usage[kind], Paced(kind), now), cost[kind])]
  <2>1. PICK usage : usage = [kind \in Kinds |->
                                Plus(Recent(page.usage[kind], Paced(kind), now), cost[kind])]
    OBVIOUS
  <2>2. page' = [page EXCEPT !.queue = Tail(@), !.usage = usage]
    BY <1>2, <2>1 DEF Emit
  <2>3. {"queue", "usage"} \subseteq DOMAIN page
    BY DEF IInv, TypeInv, PageOk
  <2> QED
    BY <2>1, <2>2, <2>3
<1>6. ASSUME NEW kind \in Kinds
      PROVE  /\ page'.usage[kind]
                  = Plus(Recent(page.usage[kind], Period[kind] + Safety, now), cost[kind])
             /\ page'.usage[kind] \in Amounts
  <2>1. Recent(page.usage[kind], Period[kind] + Safety, now) \in Amounts
    BY PaceFacts, PartsAreAmounts
  <2> QED
    BY <1>3, <1>5, <2>1, PaceFacts, PlusFacts DEF Paced
<1>7. page'.usage \in [Kinds -> Amounts]
  <2>1. \A kind \in Kinds :
          Plus(Recent(page.usage[kind], Paced(kind), now), cost[kind]) \in Amounts
    BY <1>5, <1>6
  <2> QED
    BY <1>5, <2>1
<1>8. Gentle' = Gentle
  BY <1>1 DEF Gentle
<1>9. ASSUME Gentle
      PROVE  \E f : /\ WaitOk(f, up')
                    /\ \A kind \in Kinds : PaceOk(kind, f[0][kind], page'.usage[kind],
                                                  maps[kind], now, left.jitter)
  <2>1. PICK f : /\ WaitOk(f, up)
                 /\ \A kind \in Kinds : PaceOk(kind, f[0][kind], page.usage[kind],
                                               maps[kind], now, left.jitter)
    BY <1>9 DEF PaceInv
  <2>2. PICK g : WaitOk(g, Append(up, w)) /\ Adds(g, f, w.at, w.cost)
    <3>1. WaitOk(f, up) /\ up \in Seq(Messages) /\ w.at \in Times
      BY <1>4, <2>1, PaceFacts
    <3> QED
      BY <3>1, KindFacts, WaitAfterSending
  <2>3. ASSUME NEW kind \in Kinds
        PROVE  PaceOk(kind, g[0][kind], page'.usage[kind], maps[kind], now, left.jitter)
    <3>1. PICK c \in Nat : c = cost[kind]
      BY <1>3
    <3>2. g[0][kind] \in Amounts
      <4>1. PICK n \in Nat : n = Len(Append(up, w))
        BY PaceFacts, AppendProperties, LenProperties
      <4>2. g \in [0 .. n -> [Kinds -> Amounts]]
        BY <2>2, <4>1 DEF WaitOk
      <4> QED
        BY <4>2
    <3>3. c > 0 => Total(Recent(page.usage[kind], Period[kind] + Safety, now)) + c <= Limit[kind]
      <4>1. SUFFICES ASSUME c > 0
                     PROVE  Total(Recent(page.usage[kind], Period[kind] + Safety, now)) + c
                              <= Limit[kind]
        OBVIOUS
      <4>2. cost[kind] <= Limit[kind]
        BY <1>3, <1>9 DEF Gentle
      <4>3. cost[kind] > Limit[kind] \/ Used(kind) + cost[kind] <= Limit[kind]
        BY <1>1, <1>2, <3>1, <4>1 DEF WithinBudget
      <4>4. c \in Nat /\ Limit[kind] \in Nat
        BY KindFacts
      <4>5. Used(kind) + c <= Limit[kind]
        BY <3>1, <4>2, <4>3, <4>4
      <4> QED
        BY <4>5 DEF Used, Paced
    <3>4. \A t \in Times : g[0][kind][t] = f[0][kind][t] + At(now, c)[t]
      BY <1>4, <2>2, <3>1 DEF Adds
    <3>5. left.jitter <= Safety
      BY <1>9 DEF Gentle
    <3>6. page'.usage[kind] = Plus(Recent(page.usage[kind], Period[kind] + Safety, now), c)
      BY <1>6, <3>1
    <3>7. PaceOk(kind, f[0][kind], page.usage[kind], maps[kind], now, left.jitter)
      BY <2>1
    <3> QED
      BY <3>2, <3>3, <3>4, <3>5, <3>6, <3>7, PaceFacts, SendingKeepsPace
  <2> QED
    BY <1>4, <2>2, <2>3
<1>10. Gentle => ~limited
  BY DEF PaceInv
<1> QED
  BY <1>1, <1>7, <1>8, <1>9, <1>10 DEF PaceInv

\* handleBroadcastWriteMessage: the page's write does not exceed a limit.
LEMMA ReceiveKeepsPace ==
    ASSUME PaceInv, WindowInv, IInv, Receive
    PROVE  PaceInv'
<1>1. PICK unverified \in BOOLEAN : unverified = (Protected /\ verified <= now)
  OBVIOUS
<1>2. PICK n : n = IF unverified THEN 1 ELSE Len(KindOrder)
  OBVIOUS
<1>3. PICK cost : cost = Head(up).cost
  OBVIOUS
<1>4. PICK e : e = Enforced(Mine, cost, n)
  OBVIOUS
<1>5. /\ up # << >> /\ maps' = e.maps /\ UNCHANGED <<now, left>>
      /\ \/ /\ e.exceeded # {}
            /\ \E until : page' = [page EXCEPT !.paused = until, !.checks = << >>,
                                      !.queue = [k \in DOMAIN up |-> up[k].cost] \o @]
         \/ /\ e.exceeded = {} /\ up' = Tail(up) /\ UNCHANGED <<page, limited>>
  BY <1>1, <1>2, <1>3, <1>4 DEF Receive
<1>6. Head(up) \in Messages /\ cost \in [Kinds -> Nat] /\ Head(up).at \in Times
  <2>1. Head(up) \in Messages /\ Head(up) = up[1] /\ 1 \in DOMAIN up
    <3>1. up \in Seq(Messages) /\ up # << >>
      BY <1>5, PaceFacts
    <3>2. Len(up) \in Nat \ {0} /\ DOMAIN up = 1 .. Len(up)
      BY <3>1, EmptySeq, LenProperties
    <3>3. Head(up) \in Messages
      BY <3>1, HeadTailProperties
    <3>4. Head(up) = up[1]
      BY <3>1
    <3> QED
      BY <3>2, <3>3, <3>4
  <2>2. cost \in [Kinds -> Nat] /\ Head(up).at \in Nat
    BY <1>3, <2>1, KindFacts DEF Messages
  <2>3. Head(up).at <= now
    BY <2>1 DEF IInv, DelayInv
  <2>4. now \in Nat /\ now <= MaxTime /\ MaxTime \in Nat
    BY PaceFacts, TimeFacts DEF Times
  <2>5. Head(up).at \in Times
    BY <2>2, <2>3, <2>4 DEF Times
  <2> QED
    BY <2>1, <2>2, <2>5
<1>7. EnforcedOk(e, Mine, cost, n)
  <2>1. n \in 1 .. Len(KindOrder) /\ Mine \in Ips /\ MapsOk
    BY <1>2, KindFacts DEF WindowInv
  <2> QED
    BY <1>4, <1>6, <2>1, PaceFacts, EnforcedFacts
<1>8. page'.usage = page.usage
  <2>1. {"usage", "paused", "checks", "queue"} \subseteq DOMAIN page
    BY DEF IInv, TypeInv, PageOk
  <2>2. ASSUME NEW until, NEW queue,
               page' = [page EXCEPT !.paused = until, !.checks = << >>, !.queue = queue]
        PROVE  page'.usage = page.usage
    BY <2>1, <2>2
  <2> QED
    BY <1>5, <2>2
<1>9. Gentle' = Gentle
  BY <1>5 DEF Gentle
<1>10. ASSUME Gentle
       PROVE  /\ e.exceeded = {}
              /\ \E f : /\ WaitOk(f, Tail(up))
                        /\ \A kind \in Kinds : PaceOk(kind, f[0][kind], page.usage[kind],
                                                      maps'[kind], now, left.jitter)
  <2>1. PICK f : /\ WaitOk(f, up)
                 /\ \A kind \in Kinds : PaceOk(kind, f[0][kind], page.usage[kind],
                                               maps[kind], now, left.jitter)
    BY <1>10 DEF PaceInv
  <2>2. PICK g : WaitOk(g, Tail(up)) /\ Adds(f, g, Head(up).at, Head(up).cost)
    <3>1. WaitOk(f, up) /\ up \in Seq(Messages) /\ up # << >>
      BY <1>5, <2>1, PaceFacts
    <3> QED
      BY <3>1, WaitAfterArrival
  <2>3. ASSUME NEW kind \in Kinds
        PROVE  PaceOk(kind, g[0][kind], page.usage[kind], maps'[kind], now, left.jitter)
    <3>1. PICK c \in Nat : c = cost[kind]
      BY <1>6
    <3>2. g[0][kind] \in Amounts
      <4>1. PICK m \in Nat : m = Len(Tail(up))
        BY <1>5, PaceFacts, HeadTailProperties, LenProperties
      <4>2. g \in [0 .. m -> [Kinds -> Amounts]]
        BY <2>2, <4>1 DEF WaitOk
      <4> QED
        BY <4>2
    <3>3. MapOk(maps[kind])
      BY PaceFacts
    <3>4. maps'[kind] = maps[kind] \/ CountedOk(maps'[kind], kind, maps[kind], Mine, c)
      BY <1>5, <1>7, <3>1 DEF EnforcedOk
    <3>5. MapOk(maps'[kind])
      BY <3>3, <3>4 DEF CountedOk
    <3>6. PICK h \in Times : h = Head(up).at
      BY <1>6
    <3>7. \A t \in Times : f[0][kind][t] = g[0][kind][t] + (IF t = h THEN c ELSE 0)
      BY <1>3, <2>2, <3>1, <3>6 DEF Adds, At
    <3>8. PaceOk(kind, f[0][kind], page.usage[kind], maps[kind], now, left.jitter)
      BY <2>1
    <3> QED
      BY <3>2, <3>3, <3>4, <3>5, <3>7, <3>8, PaceFacts, ArrivalKeepsPace
  <2>4. ASSUME NEW kind \in e.exceeded
        PROVE  FALSE
    <3>1. /\ kind \in Kinds /\ CountedOk(maps'[kind], kind, maps[kind], Mine, cost[kind])
          /\ Newest(maps'[kind]).count > Limit[kind]
      BY <1>5, <1>7 DEF EnforcedOk
    <3>2. PICK c \in Nat : c = cost[kind]
      BY <1>6, <3>1
    <3>3. left.jitter <= Safety /\ MapOk(maps[kind])
      BY <1>10, <3>1, PaceFacts DEF Gentle
    <3>4. PaceOk(kind, g[0][kind], page.usage[kind], maps'[kind], now, left.jitter)
      BY <2>3, <3>1
    <3>5. ~(Newest(maps'[kind]).count > Limit[kind])
      BY <3>1, <3>2, <3>3, <3>4, PaceFacts, PacedIsWithin
    <3> QED
      BY <3>1, <3>5
  <2> QED
    BY <2>2, <2>3, <2>4
<1>11. Gentle => ~limited
  BY DEF PaceInv
<1>12. page.usage \in [Kinds -> Amounts]
  BY PaceFacts
<1>13. ASSUME Gentle PROVE ~limited' /\ up' = Tail(up)
  <2>1. e.exceeded = {} /\ ~limited
    BY <1>10, <1>11, <1>13
  <2>2. up' = Tail(up) /\ limited' = limited
    BY <1>5, <2>1
  <2> QED
    BY <2>1, <2>2, Zenon
<1>14. ASSUME Gentle
       PROVE  \E f : /\ WaitOk(f, up')
                     /\ \A kind \in Kinds : PaceOk(kind, f[0][kind], page'.usage[kind],
                                                   maps'[kind], now', left'.jitter)
  BY <1>5, <1>8, <1>10, <1>13, <1>14
<1> QED
  BY <1>8, <1>9, <1>12, <1>13, <1>14 DEF PaceInv

\* The connection breaks, and with it all that waits.
LEMMA CutKeepsPace ==
    ASSUME PaceInv, WindowInv, IInv, Cut
    PROVE  PaceInv'
<1>1. UNCHANGED <<now, maps, limited>> /\ up' = << >> /\ Spend("cuts")
  BY DEF Cut
<1>2. page'.usage = page.usage
  <2>1. PICK queue : page' = [page EXCEPT !.checks = << >>, !.queue = queue]
    BY DEF Cut
  <2>2. {"usage", "checks", "queue"} \subseteq DOMAIN page
    BY DEF IInv, TypeInv, PageOk
  <2> QED
    BY <2>1, <2>2
<1>3. left'.jitter = left.jitter /\ Gentle' = Gentle
  BY <1>1, GentleStays, PaceFacts
<1>4. ASSUME Gentle
      PROVE  \E f : /\ WaitOk(f, << >>)
                    /\ \A kind \in Kinds : PaceOk(kind, f[0][kind], page.usage[kind],
                                                  maps[kind], now, left.jitter)
  <2>1. PICK f : \A kind \in Kinds : PaceOk(kind, f[0][kind], page.usage[kind],
                                            maps[kind], now, left.jitter)
    BY <1>4 DEF PaceInv
  <2>2. PICK g : WaitOk(g, << >>) /\ \A kind \in Kinds : g[0][kind] = Nothing
    BY WaitForNothing
  <2>3. \A kind \in Kinds : PaceOk(kind, g[0][kind], page.usage[kind],
                                   maps[kind], now, left.jitter)
    BY <2>1, <2>2, PaceFacts, LosingKeepsPace
  <2> QED
    BY <2>2, <2>3
<1> QED
  BY <1>1, <1>2, <1>3, <1>4 DEF PaceInv

\* Somebody else writes, from another address.
LEMMA OtherWritesKeepsPace ==
    ASSUME PaceInv, WindowInv, IInv, NEW ip \in Ips, NEW cost \in Costs, OtherWrites(ip, cost)
    PROVE  PaceInv'
<1>1. PICK e : e = Enforced(ip, cost, Len(KindOrder))
  OBVIOUS
<1>2. /\ UNCHANGED <<now, page, up, limited>> /\ maps' = e.maps /\ Spend("others")
      /\ left.alone => ip # Mine
  BY <1>1 DEF OtherWrites
<1>3. EnforcedOk(e, ip, cost, Len(KindOrder))
  <2>1. cost \in [Kinds -> Nat] /\ Len(KindOrder) \in 1 .. Len(KindOrder) /\ MapsOk
    BY KindFacts DEF WindowInv
  <2> QED
    BY <1>1, <2>1, PaceFacts, EnforcedFacts
<1>4. left'.jitter = left.jitter /\ Gentle' = Gentle
  BY <1>2, GentleStays, PaceFacts
<1>5. ASSUME Gentle
      PROVE  \E f : /\ WaitOk(f, up)
                    /\ \A kind \in Kinds : PaceOk(kind, f[0][kind], page.usage[kind],
                                                  maps'[kind], now, left.jitter)
  <2>1. PICK f : /\ WaitOk(f, up)
                 /\ \A kind \in Kinds : PaceOk(kind, f[0][kind], page.usage[kind],
                                               maps[kind], now, left.jitter)
    BY <1>5 DEF PaceInv
  <2>2. ip # Mine
    BY <1>2, <1>5 DEF Gentle
  <2>3. ASSUME NEW kind \in Kinds
        PROVE  PaceOk(kind, f[0][kind], page.usage[kind], maps'[kind], now, left.jitter)
    <3>1. PaceOk(kind, f[0][kind], page.usage[kind], maps[kind], now, left.jitter)
      BY <2>1
    <3>2. maps'[kind] = maps[kind] \/ CountedOk(maps'[kind], kind, maps[kind], ip, cost[kind])
      BY <1>2, <1>3 DEF EnforcedOk
    <3> QED
      BY <2>2, <3>1, <3>2, PaceFacts, OthersKeepPace
  <2> QED
    BY <2>1, <2>3
<1> QED
  BY <1>2, <1>4, <1>5 DEF PaceInv

\* Time passes only while no message is as late as it can be.
LEMMA TickKeepsPace ==
    ASSUME PaceInv, WindowInv, IInv, Tick
    PROVE  PaceInv'
<1>1. /\ UNCHANGED <<page, up, maps, limited, left>> /\ now' = now + 1
      /\ \A k \in DOMAIN up : now < up[k].at + left.jitter
  BY DEF Tick
<1>2. Gentle' = Gentle
  BY <1>1 DEF Gentle
<1>3. ASSUME Gentle
      PROVE  \E f : /\ WaitOk(f, up)
                    /\ \A kind \in Kinds : PaceOk(kind, f[0][kind], page.usage[kind],
                                                  maps[kind], now + 1, left.jitter)
  <2>1. PICK f : /\ WaitOk(f, up)
                 /\ \A kind \in Kinds : PaceOk(kind, f[0][kind], page.usage[kind],
                                               maps[kind], now, left.jitter)
    BY <1>3 DEF PaceInv
  <2>2. ASSUME NEW kind \in Kinds, NEW t \in Times, f[0][kind][t] # 0
        PROVE  now < t + left.jitter
    <3>1. PICK n \in Nat : n = Len(up) /\ DOMAIN up = 1 .. n
      BY PaceFacts, LenProperties
    <3>2. 0 \in 0 .. n
      OBVIOUS
    <3>3. PICK k \in 0 + 1 .. n : up[k].at = t
      BY <2>1, <2>2, <3>1, <3>2 DEF WaitOk
    <3>4. k \in DOMAIN up
      BY <3>1, <3>3
    <3> QED
      BY <1>1, <3>3, <3>4
  <2>3. ASSUME NEW kind \in Kinds
        PROVE  PaceOk(kind, f[0][kind], page.usage[kind], maps[kind], now + 1, left.jitter)
    <3>1. PaceOk(kind, f[0][kind], page.usage[kind], maps[kind], now, left.jitter)
      BY <2>1
    <3> QED
      BY <2>2, <3>1, PaceFacts, TimeKeepsPace
  <2> QED
    BY <2>1, <2>3
<1> QED
  BY <1>1, <1>2, <1>3 DEF PaceInv

\* Nothing else sends or counts.
LEMMA ElsewhereKeepsPace ==
    ASSUME PaceInv, WindowInv, IInv,
           \/ \E cost \in Costs : DrawAndSend(cost)
           \/ Reconnect \/ Refresh \/ Solved \/ ChallengeFails
           \/ \E s \in submits :
                 \/ \E accepted \in BOOLEAN : Verify(s, accepted)
                 \/ Acknowledged(s) \/ SubmitTimesOut(s)
    PROVE  PaceInv'
<1>1. page.usage = page.usage /\ {"queue", "valid", "checks", "paused", "usage", "pending",
                                  "widget", "timer"} \subseteq DOMAIN page
  BY DEF IInv, TypeInv, PageOk
<1>2. Unvalidated(page).usage = page.usage
      /\ "usage" \in DOMAIN Unvalidated(page) /\ "widget" \in DOMAIN Unvalidated(page)
  <2>1. PICK timer : Unvalidated(page)
                       = [page EXCEPT !.pending = FALSE, !.valid = 0, !.timer = timer]
    BY DEF Unvalidated
  <2> QED
    BY <1>1, <2>1
<1>3. ASSUME NEW cost \in Costs, DrawAndSend(cost) PROVE PaceInv'
  <2>1. UNCHANGED <<now, up, maps, limited>> /\ Spend("own")
    BY <1>3 DEF DrawAndSend
  <2>2. page'.usage = page.usage
    <3>1. CASE Protected /\ ~Validated
      <4>1. PICK checks, widget, pending, timer :
              page' = [page EXCEPT !.checks = checks, !.widget = widget,
                                   !.pending = pending, !.timer = timer]
        BY <1>3, <3>1 DEF DrawAndSend
      <4> QED
        BY <1>1, <4>1
    <3>2. CASE ~(Protected /\ ~Validated)
      <4>1. PICK queue : page' = [page EXCEPT !.queue = queue]
        BY <1>3, <3>2 DEF DrawAndSend
      <4> QED
        BY <1>1, <4>1
    <3> QED
      BY <3>1, <3>2
  <2> QED
    BY <2>1, <2>2, PaceStays
<1>4. CASE Reconnect
  <2>1. UNCHANGED <<now, up, maps, limited, left>>
    BY <1>4 DEF Reconnect
  <2>2. PICK queue : page' = [page EXCEPT !.valid = 0, !.widget = Protected, !.queue = queue]
    BY <1>4 DEF Reconnect
  <2>3. page'.usage = page.usage
    BY <1>1, <2>2
  <2> QED
    BY <2>1, <2>3, PaceStays
<1>5. CASE Refresh
  <2>1. UNCHANGED <<now, up, maps, limited, left>>
    BY <1>5 DEF Refresh
  <2>2. PICK widget : page' = [page EXCEPT !.timer = 0, !.pending = TRUE, !.widget = widget]
    BY <1>5 DEF Refresh
  <2>3. page'.usage = page.usage
    BY <1>1, <2>2
  <2> QED
    BY <2>1, <2>3, PaceStays
<1>6. CASE Solved
  <2>1. UNCHANGED <<now, up, maps, limited, left>>
    BY <1>6 DEF Solved
  <2>2. page'.usage = page.usage
    <3>1. CASE online
      <4>1. page' = [page EXCEPT !.widget = FALSE]
        BY <1>6, <3>1 DEF Solved
      <4> QED
        BY <1>1, <4>1
    <3>2. CASE ~online
      <4>1. PICK timer : page' = [page EXCEPT !.widget = FALSE, !.pending = FALSE,
                                              !.timer = timer]
        BY <1>6, <3>2 DEF Solved
      <4> QED
        BY <1>1, <4>1
    <3> QED
      BY <3>1, <3>2
  <2> QED
    BY <2>1, <2>2, PaceStays
<1>7. CASE ChallengeFails
  <2>1. UNCHANGED <<now, up, maps, limited>> /\ Spend("fails")
    BY <1>7 DEF ChallengeFails
  <2>2. PICK p : p = Unvalidated(page)
    OBVIOUS
  <2>3. page' = [p EXCEPT !.widget = FALSE]
    BY <1>7, <2>2 DEF ChallengeFails
  <2>4. page'.usage = page.usage
    BY <1>2, <2>2, <2>3
  <2> QED
    BY <2>1, <2>4, PaceStays
<1>8. ASSUME NEW s \in submits, NEW accepted \in BOOLEAN, Verify(s, accepted) PROVE PaceInv'
  <2>1. UNCHANGED <<now, page, up, maps, limited>> /\ (UNCHANGED left \/ Spend("fails"))
    BY <1>8 DEF Verify
  <2> QED
    BY <2>1, PaceStays
<1>9. ASSUME NEW s \in submits, Acknowledged(s) PROVE PaceInv'
  <2>1. UNCHANGED <<now, up, maps, limited, left>>
    BY <1>9 DEF Acknowledged
  <2>2. page'.usage = page.usage
    <3>1. CASE s.phase = "no"
      BY <1>2, <1>9, <3>1 DEF Acknowledged
    <3>2. CASE s.phase # "no"
      <4>1. PICK timer, queue :
              page' = [page EXCEPT !.pending = FALSE, !.valid = ValidUntil, !.timer = timer,
                                   !.checks = << >>, !.queue = queue]
        BY <1>9, <3>2 DEF Acknowledged
      <4> QED
        BY <1>1, <4>1
    <3> QED
      BY <3>1, <3>2
  <2> QED
    BY <2>1, <2>2, PaceStays
<1>10. ASSUME NEW s \in submits, SubmitTimesOut(s) PROVE PaceInv'
  <2>1. UNCHANGED <<now, up, maps, limited, left>> /\ page' = Unvalidated(page)
    BY <1>10 DEF SubmitTimesOut
  <2> QED
    BY <1>2, <2>1, PaceStays
<1> QED
  BY <1>3, <1>4, <1>5, <1>6, <1>7, <1>8, <1>9, <1>10

\* Nothing is sent at first.
LEMMA InitPace ==
    ASSUME Init
    PROVE  PaceInv
<1>1. /\ page.usage = [kind \in Kinds |-> Nothing] /\ ~limited /\ up = << >>
      /\ maps = [kind \in Kinds |-> << >>]
  BY DEF Init
<1>2. page.usage \in [Kinds -> Amounts]
  BY <1>1, TotalNothing
<1>3. PICK f : WaitOk(f, << >>) /\ \A kind \in Kinds : f[0][kind] = Nothing
  BY WaitForNothing
<1>4. ASSUME NEW kind \in Kinds
      PROVE  PaceOk(kind, f[0][kind], page.usage[kind], maps[kind], now, left.jitter)
  <2>1. f[0][kind] = Nothing /\ page.usage[kind] = Nothing /\ maps[kind] = << >>
    BY <1>1, <1>3
  <2>2. EntryOf(<< >>, Mine) = {}
    BY EmptySeq DEF EntryOf
  <2>3. Recent(Nothing, Period[kind] + Safety, now) = Nothing
    BY DEF Recent, Nothing
  <2>4. Nothing \in Amounts /\ Total(Nothing) = 0 /\ \A t \in Times : Nothing[t] = 0
    BY TotalNothing DEF Nothing
  <2>5. 0 <= Limit[kind]
    BY KindFacts
  <2>6. PaceOk(kind, Nothing, Nothing, << >>, now, left.jitter)
    BY <2>2, <2>3, <2>4, <2>5 DEF PaceOk
  <2> QED
    BY <2>1, <2>6
<1> QED
  BY <1>1, <1>2, <1>3, <1>4 DEF PaceInv

\* Each step keeps the pace.
LEMMA PaceInductive ==
    ASSUME PaceInv, WindowInv, IInv, [Next]_vars
    PROVE  PaceInv'
<1>1. CASE UNCHANGED vars
  BY <1>1, PaceStays DEF vars
<1>2. CASE Next
  BY <1>2, OtherWritesKeepsPace, EmitKeepsPace, ReceiveKeepsPace, CutKeepsPace, TickKeepsPace,
     ElsewhereKeepsPace DEF Next
<1> QED
  BY <1>1, <1>2

\* A page that is alone on its address and whose messages are in time is never cut off for
\* writing too fast (getRateLimitHistoryWaitMs, consumeFixedWindowRateLimit): no interval
\* of a period and the safety margin holds more than the limit, and what a window counts
\* was sent in such an interval.
THEOREM PacedNeverLimited == Spec => []PacedPageNeverLimited
<1>1. IInv /\ WindowInv /\ PaceInv /\ [Next]_vars => PaceInv'
  BY PaceInductive
<1>2. IInv /\ WindowInv /\ [Next]_vars => WindowInv'
  BY WindowsInductive
<1>3. PaceInv => PacedPageNeverLimited
  BY DEF PaceInv, Gentle, PacedPageNeverLimited
<1> QED
  BY <1>1, <1>2, <1>3, Invariance, InitWindows, InitPace, PTL DEF Spec
=============================================================================
