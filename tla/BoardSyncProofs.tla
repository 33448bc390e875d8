-------------------------- MODULE BoardSyncProofs --------------------------
(***************************************************************************)
(* Proofs about BoardSync, for every bound on writes, failures, restarts   *)
(* and mutations that are kept from the page.                              *)
(*                                                                         *)
(* NeverWrong says nothing of what is under way, of a page without a       *)
(* socket, or of activations that a resynchronization has left behind.  The *)
(* inductive invariant follows a mutation from the server to the drawing:  *)
(* what is under way is true and in order, nothing is left of an earlier   *)
(* connection when the next one starts, and a page that is about to        *)
(* connect shows a beginning of the stored board.                          *)
(*                                                                         *)
(* The last section proves of the other part of a page that is proved      *)
(* about, ToolRegistry, that tools keep to the rights and to one finger.    *)
(***************************************************************************)
EXTENDS BoardSync, ToolRegistry, TLAPS, SequenceTheorems

Messages ==
    [kind : {"batch"}, from : Nat, seq : Nat, children : Seq(Writes)]
    \cup [kind : {"live"}, seq : Nat \ {0}, mutation : Writes]

Phases == {"none", "connecting", "open", "refused", "cut", "failed", "dead"}

Activations == [gen : Nat, left : Seq(Writes), batch : BOOLEAN,
                tool : {"ready", "pending", "forgotten"}]

PageStates ==
    [view : Seq(Writes), seq : Nat, awaiting : BOOLEAN, refresh : BOOLEAN,
     generation : Nat, starting : {"no", "fetching", "fetched", "connecting"},
     body : Seq(Writes), timer : BOOLEAN, queue : Seq(Messages),
     failed : BOOLEAN, stray : Seq(Writes), drains : SUBSET Activations]

TypeInv ==
    /\ hist \in Seq(Writes) /\ disk \in Seq(Writes) /\ floor \in Nat
    /\ link \in [phase : Phases, base : Nat, chan : Seq(Messages)]
    /\ page \in PageStates
    /\ unheard \in BOOLEAN
    /\ written \in Nat /\ drops \in Nat /\ restarts \in Nat /\ missed \in Nat

\* s is what board t has after its first n mutations.
Follows(s, n, t) == n + Len(s) <= Len(t) /\ \A i \in 1 .. Len(s) : s[i] = t[n + i]
Begins(s, t) == Follows(s, 0, t)

\* The parts of the page and of the socket.
View == page.view
Stray == page.stray
Place == page.seq
Failed == page.failed
Now == Left(page)
Phase == link.phase
Chan == link.chan
Base == link.base

\* The stored board is a beginning of the history, which the bound covers.
ServerInv ==
    Begins(disk, hist) /\ Len(hist) <= written /\ written <= MaxWrites

\* One activation is current; the others have been told to forget.
DrainInv ==
    /\ \A d \in page.drains :
          /\ d.left # << >>
          /\ d.gen <= page.generation
          /\ d.tool = "forgotten" <=> d.gen < page.generation
    /\ \A d, e \in page.drains : Current(d) /\ Current(e) => d = e

\* Without a socket that was joined, nothing is left to apply.
QuietInv ==
    Phase \notin {"open", "cut"} => Pipe = << >> /\ Stray = << >> /\ Now = << >>

\* What the page shows is the stored board, or was.
Based ==
    Begins(View, disk) /\ Place = Len(View) /\ ~Failed

\* A page that connects without fetching a baseline has just fetched one.
StartInv ==
    /\ page.starting # "no" => Phase = "none"
    /\ page.starting \in {"fetching", "fetched"} => page.refresh
    /\ page.starting = "fetched" => Begins(page.body, disk)
    /\ \/ page.starting = "connecting"
       \/ Phase = "none" /\ page.starting = "no" /\ ~page.refresh
       \/ Phase = "connecting"
       => Based
    /\ Phase = "connecting" => Base = Place

\* Where the page is.
PlaceInv ==
    /\ Len(View) = Place \/ (Failed /\ Stray = << >> /\ Len(View) = Place + 1)
    /\ Stray # << >> => Failed /\ Len(Stray) = 1
    /\ Len(View) + Len(Stray) <= written
    /\ Now # << >> => ~Failed
    /\ Reached <= written

\* What is queued and under way comes in order, after what is being applied.
OrderInv ==
    /\ \A k \in 1 .. Len(Pipe) :
          /\ From(Pipe[k]) + Len(Adds(Pipe[k])) = To(Pipe[k])
          /\ To(Pipe[k]) <= written
          /\ Reached <= From(Pipe[k])
          /\ Failed => Place < From(Pipe[k])
    /\ \A j, k \in 1 .. Len(Pipe) : j < k => To(Pipe[j]) <= From(Pipe[k])

\* While the socket is joined, all of it is what the history says.
TrueInv ==
    Phase = "open" =>
        /\ \A k \in 1 .. Len(Pipe) : Follows(Adds(Pipe[k]), From(Pipe[k]), hist)
        /\ Begins(View, hist) /\ Follows(Stray, Len(View), hist)
        /\ Follows(Now, Place, hist)
        /\ Failed => Place < Len(hist)

\* ... and, if nothing was kept from the page, all there is.
WholeInv ==
    Phase = "open" /\ missed = 0 /\ ~Failed =>
        /\ \A k \in 1 .. Len(Pipe) :
              From(Pipe[k]) = IF k = 1 THEN Reached ELSE To(Pipe[k - 1])
        /\ Len(hist) = IF Pipe = << >> THEN Reached ELSE To(Pipe[Len(Pipe)])

IInv ==
    /\ TypeInv /\ ServerInv /\ DrainInv /\ QuietInv /\ StartInv /\ PlaceInv
    /\ OrderInv /\ TrueInv /\ WholeInv

-----------------------------------------------------------------------------
(* Sequences and messages *)

LEMMA MessageFacts ==
    ASSUME NEW m \in Messages
    PROVE  /\ From(m) \in Nat /\ To(m) \in Nat
           /\ Adds(m) \in Seq(Writes) /\ Len(Adds(m)) \in Nat
           /\ m.kind = "live" => m.mutation \in Writes /\ From(m) = To(m) - 1
                                 /\ Adds(m) = <<m.mutation>> /\ To(m) > 0
           /\ m.kind # "live" => m.kind = "batch" /\ From(m) = m.from
                                 /\ Adds(m) = m.children
<1>1. CASE m \in [kind : {"batch"}, from : Nat, seq : Nat, children : Seq(Writes)]
  BY <1>1 DEF From, To, Adds
<1>2. CASE m \in [kind : {"live"}, seq : Nat \ {0}, mutation : Writes]
  <2>1. m.kind = "live" /\ m.mutation \in Writes /\ m.seq \in Nat \ {0}
    BY <1>2
  <2>2. From(m) = To(m) - 1 /\ Adds(m) = <<m.mutation>> /\ To(m) \in Nat \ {0}
    BY <2>1 DEF From, To, Adds
  <2> QED
    BY <2>1, <2>2
<1> QED
  BY <1>1, <1>2 DEF Messages

LEMMA SeqFacts ==
    ASSUME NEW S, NEW s \in Seq(S)
    PROVE  /\ Len(s) \in Nat
           /\ \A i \in 1 .. Len(s) : s[i] \in S
           /\ s # << >> <=> Len(s) > 0
           /\ s # << >> => /\ Head(s) = s[1] /\ Head(s) \in S
                           /\ Tail(s) \in Seq(S) /\ Len(Tail(s)) = Len(s) - 1
                           /\ \A i \in 1 .. Len(Tail(s)) : Tail(s)[i] = s[i + 1]
BY LenProperties, EmptySeq, ElementOfSeq, HeadTailProperties

\* What the page hears comes in the order in which it was sent.
LEMMA PipeFacts ==
    ASSUME NEW S, NEW q \in Seq(S), NEW c \in Seq(S)
    PROVE  /\ q \o c \in Seq(S) /\ Len(q \o c) = Len(q) + Len(c)
           /\ \A i \in 1 .. Len(q) : (q \o c)[i] = q[i]
           /\ \A i \in 1 .. Len(c) : (q \o c)[Len(q) + i] = c[i]
           /\ q = << >> => q \o c = c
           /\ c = << >> => q \o c = q
           /\ c # << >> => Append(q, Head(c)) \o Tail(c) = q \o c
           /\ q # << >> => /\ Head(q) = (q \o c)[1] /\ q \o c # << >>
                           /\ Tail(q) \o c = Tail(q \o c)
           /\ \A m \in S : q \o Append(c, m) = Append(q \o c, m)
<1>1. /\ q \o c \in Seq(S) /\ Len(q \o c) = Len(q) + Len(c)
      /\ \A i \in 1 .. Len(q) + Len(c) :
            (q \o c)[i] = IF i <= Len(q) THEN q[i] ELSE c[i - Len(q)]
      /\ Len(q) \in Nat /\ Len(c) \in Nat
  BY ConcatProperties, LenProperties
<1>2. /\ \A i \in 1 .. Len(q) : (q \o c)[i] = q[i]
      /\ \A i \in 1 .. Len(c) : (q \o c)[Len(q) + i] = c[i]
  BY <1>1
<1>3. (q = << >> => q \o c = c) /\ (c = << >> => q \o c = q)
  BY ConcatEmptySeq
<1>4. ASSUME c # << >>
      PROVE  Append(q, Head(c)) \o Tail(c) = q \o c
  <2>1. Head(c) \in S /\ Tail(c) \in Seq(S) /\ <<Head(c)>> \in Seq(S)
    BY <1>4, SeqFacts
  <2>2. Append(q, Head(c)) = q \o <<Head(c)>>
    BY <2>1, AppendIsConcat
  <2>3. (q \o <<Head(c)>>) \o Tail(c) = q \o (<<Head(c)>> \o Tail(c))
    BY <2>1, ConcatAssociative
  <2>4. <<Head(c)>> \o Tail(c) = c
    <3>1. /\ <<Head(c)>> \o Tail(c) \in Seq(S)
          /\ Len(<<Head(c)>> \o Tail(c)) = 1 + Len(Tail(c))
          /\ \A i \in 1 .. 1 + Len(Tail(c)) : (<<Head(c)>> \o Tail(c))[i]
                = IF i <= 1 THEN <<Head(c)>>[i] ELSE Tail(c)[i - 1]
      BY <2>1, ConcatProperties
    <3>2. /\ Head(c) = c[1] /\ Len(Tail(c)) = Len(c) - 1 /\ Len(c) > 0
          /\ \A i \in 1 .. Len(Tail(c)) : Tail(c)[i] = c[i + 1]
      BY <1>4, SeqFacts
    <3>3. \A i \in 1 .. Len(c) : (<<Head(c)>> \o Tail(c))[i] = c[i]
      BY <1>1, <3>1, <3>2
    <3> QED
      BY <1>1, <3>1, <3>2, <3>3, SeqEqual
  <2> QED
    BY <2>2, <2>3, <2>4
<1>5. ASSUME q # << >>
      PROVE  /\ Head(q) = (q \o c)[1] /\ q \o c # << >>
             /\ Tail(q) \o c = Tail(q \o c)
  <2>1. /\ Head(q) = q[1] /\ Len(q) > 0
        /\ Tail(q) \in Seq(S) /\ Len(Tail(q)) = Len(q) - 1
        /\ \A i \in 1 .. Len(Tail(q)) : Tail(q)[i] = q[i + 1]
    BY <1>5, SeqFacts
  <2>2. Head(q) = (q \o c)[1] /\ q \o c # << >>
    BY <1>1, <2>1, EmptySeq
  <2>3. /\ Tail(q \o c) \in Seq(S) /\ Len(Tail(q \o c)) = Len(q) + Len(c) - 1
        /\ \A i \in 1 .. Len(Tail(q \o c)) : Tail(q \o c)[i] = (q \o c)[i + 1]
    BY <1>1, <2>2, HeadTailProperties
  <2>4. /\ Tail(q) \o c \in Seq(S) /\ Len(Tail(q) \o c) = Len(Tail(q)) + Len(c)
        /\ \A i \in 1 .. Len(Tail(q)) + Len(c) : (Tail(q) \o c)[i]
              = IF i <= Len(Tail(q)) THEN Tail(q)[i] ELSE c[i - Len(Tail(q))]
    BY <2>1, ConcatProperties
  <2>5. \A i \in 1 .. Len(q) + Len(c) - 1 : (Tail(q) \o c)[i] = Tail(q \o c)[i]
    <3> TAKE i \in 1 .. Len(q) + Len(c) - 1
    <3>1. Tail(q \o c)[i] = (q \o c)[i + 1]
      BY <1>1, <2>3
    <3>2. CASE i <= Len(q) - 1
      BY <1>1, <2>1, <2>4, <3>1, <3>2
    <3>3. CASE i > Len(q) - 1
      BY <1>1, <2>1, <2>4, <3>1, <3>3
    <3> QED
      BY <1>1, <3>2, <3>3
  <2> QED
    BY <1>1, <2>1, <2>2, <2>3, <2>4, <2>5, SeqEqual
<1>6. ASSUME NEW m \in S
      PROVE  q \o Append(c, m) = Append(q \o c, m)
  <2>1. <<m>> \in Seq(S)
    OBVIOUS
  <2>2. Append(c, m) = c \o <<m>> /\ Append(q \o c, m) = (q \o c) \o <<m>>
    BY <1>1, AppendIsConcat
  <2> QED
    BY <2>1, <2>2, ConcatAssociative
<1> QED
  BY <1>1, <1>2, <1>3, <1>4, <1>5, <1>6

\* A part of what was under way.
LEMMA CutFacts ==
    ASSUME NEW S, NEW q \in Seq(S), NEW c \in Seq(S), NEW n \in 0 .. Len(c)
    PROVE  /\ SubSeq(c, 1, n) \in Seq(S) /\ Len(SubSeq(c, 1, n)) = n
           /\ q \o SubSeq(c, 1, n) \in Seq(S)
           /\ Len(q \o SubSeq(c, 1, n)) <= Len(q \o c)
           /\ \A i \in 1 .. Len(q \o SubSeq(c, 1, n)) :
                 (q \o SubSeq(c, 1, n))[i] = (q \o c)[i]
<1>0. Len(q) \in Nat /\ Len(c) \in Nat
  BY LenProperties
<1>1. \A i \in 1 .. n : c[i] \in S
  BY <1>0, ElementOfSeq
<1>2. /\ SubSeq(c, 1, n) \in Seq(S) /\ Len(SubSeq(c, 1, n)) = n
      /\ \A i \in 1 .. n : SubSeq(c, 1, n)[i] = c[i]
  <2>1. /\ SubSeq(c, 1, n) \in Seq(S)
        /\ Len(SubSeq(c, 1, n)) = IF 1 <= n THEN n - 1 + 1 ELSE 0
        /\ \A i \in 1 .. n - 1 + 1 : SubSeq(c, 1, n)[i] = c[1 + i - 1]
    BY <1>0, <1>1, SubSeqProperties
  <2> QED
    BY <1>0, <2>1
<1>3. /\ q \o SubSeq(c, 1, n) \in Seq(S)
      /\ Len(q \o SubSeq(c, 1, n)) = Len(q) + n
      /\ \A i \in 1 .. Len(q) + n : (q \o SubSeq(c, 1, n))[i]
            = IF i <= Len(q) THEN q[i] ELSE SubSeq(c, 1, n)[i - Len(q)]
  BY <1>2, ConcatProperties
<1>4. /\ Len(q \o c) = Len(q) + Len(c)
      /\ \A i \in 1 .. Len(q) + Len(c) :
            (q \o c)[i] = IF i <= Len(q) THEN q[i] ELSE c[i - Len(q)]
  BY ConcatProperties
<1> QED
  BY <1>0, <1>2, <1>3, <1>4

LEMMA FollowsFacts ==
    ASSUME NEW S, NEW s \in Seq(S), NEW t \in Seq(S), NEW n \in Nat, Follows(s, n, t)
    PROVE  /\ \A x \in S : Follows(s, n, Append(t, x))
           /\ \A u \in Seq(S) : Begins(t, u) => Follows(s, n, u)
           /\ s # << >> => /\ Head(s) = t[n + 1] /\ n + 1 <= Len(t)
                           /\ Follows(Tail(s), n + 1, t)
<1>1. Len(s) \in Nat /\ Len(t) \in Nat
  BY LenProperties
<1>2. n + Len(s) <= Len(t) /\ \A i \in 1 .. Len(s) : s[i] = t[n + i]
  BY DEF Follows
<1>3. ASSUME NEW x \in S
      PROVE  Follows(s, n, Append(t, x))
  <2>1. /\ Len(Append(t, x)) = Len(t) + 1
        /\ \A i \in 1 .. Len(t) : Append(t, x)[i] = t[i]
    BY AppendProperties
  <2> QED
    BY <1>1, <1>2, <2>1 DEF Follows
<1>4. ASSUME NEW u \in Seq(S), Begins(t, u)
      PROVE  Follows(s, n, u)
  <2>1. Len(u) \in Nat /\ Len(t) <= Len(u) /\ \A i \in 1 .. Len(t) : t[i] = u[0 + i]
    BY <1>1, <1>4, LenProperties DEF Begins, Follows
  <2> QED
    BY <1>1, <1>2, <2>1 DEF Follows
<1>5. ASSUME s # << >>
      PROVE  /\ Head(s) = t[n + 1] /\ n + 1 <= Len(t)
             /\ Follows(Tail(s), n + 1, t)
  <2>1. PICK r : r = Tail(s)
    OBVIOUS
  <2>2. /\ Len(s) > 0 /\ Head(s) = s[1] /\ Len(r) = Len(s) - 1
        /\ \A i \in 1 .. Len(r) : r[i] = s[i + 1]
    BY <1>5, <2>1, SeqFacts
  <2>3. \A i \in 1 .. Len(r) : r[i] = t[(n + 1) + i]
    <3> TAKE i \in 1 .. Len(r)
    <3>1. i + 1 \in 1 .. Len(s) /\ n + (i + 1) = (n + 1) + i
      BY <1>1, <2>2
    <3> QED
      BY <1>2, <2>2, <3>1
  <2>4. n + 1 <= Len(t) /\ Head(s) = t[n + 1]
    BY <1>1, <1>2, <2>2
  <2>5. (n + 1) + Len(r) <= Len(t)
    BY <1>1, <1>2, <2>2
  <2>6. Follows(r, n + 1, t)
    BY <2>3, <2>5 DEF Follows
  <2> QED
    BY <2>1, <2>4, <2>6
<1> QED
  BY <1>3, <1>4, <1>5

LEMMA EmptyFollows ==
    ASSUME NEW S, NEW t \in Seq(S), NEW n \in 0 .. Len(t)
    PROVE  << >> \in Seq(S) /\ Len(<< >>) = 0 /\ Follows(<< >>, n, t)
BY EmptySeq, LenProperties DEF Follows

\* What TypeInv says of the parts.
LEMMA Typed ==
    ASSUME TypeInv
    PROVE  /\ Phase \in Phases /\ Base \in Nat /\ Chan \in Seq(Messages)
           /\ page.queue \in Seq(Messages) /\ Pipe = page.queue \o Chan
           /\ Pipe \in Seq(Messages) /\ Len(Pipe) \in Nat
           /\ \A k \in 1 .. Len(Pipe) :
                 /\ Pipe[k] \in Messages /\ To(Pipe[k]) \in Nat
                 /\ From(Pipe[k]) \in Nat /\ Len(Adds(Pipe[k])) \in Nat
                 /\ Adds(Pipe[k]) \in Seq(Writes)
           /\ hist \in Seq(Writes) /\ Len(hist) \in Nat
           /\ disk \in Seq(Writes) /\ Len(disk) \in Nat
           /\ View \in Seq(Writes) /\ Len(View) \in Nat
           /\ Stray \in Seq(Writes) /\ Len(Stray) \in Nat
           /\ Place \in Nat /\ Failed \in BOOLEAN
           /\ written \in Nat
<1>1. /\ link.phase \in Phases /\ link.base \in Nat
      /\ link.chan \in Seq(Messages) /\ page.queue \in Seq(Messages)
      /\ page.view \in Seq(Writes) /\ page.stray \in Seq(Writes)
      /\ page.seq \in Nat /\ page.failed \in BOOLEAN
      /\ hist \in Seq(Writes) /\ disk \in Seq(Writes) /\ written \in Nat
  BY DEF TypeInv, PageStates
<1>2. Pipe \in Seq(Messages)
  BY <1>1, ConcatProperties DEF Pipe
<1>3. Len(Pipe) \in Nat /\ \A k \in 1 .. Len(Pipe) : Pipe[k] \in Messages
  BY <1>2, SeqFacts
<1>4. \A m \in Messages : /\ To(m) \in Nat /\ From(m) \in Nat
                          /\ Len(Adds(m)) \in Nat /\ Adds(m) \in Seq(Writes)
  BY MessageFacts
<1>5. \A s \in Seq(Writes) : Len(s) \in Nat
  BY LenProperties
<1> QED
  BY <1>1, <1>2, <1>3, <1>4, <1>5
  DEF View, Stray, Place, Failed, Phase, Chan, Base, Pipe

\* What the page is applying is left of its one current activation.
NowInv ==
    /\ Now \in Seq(Writes) /\ Len(Now) \in Nat
    /\ Reached = Place + Len(Now) /\ Reached \in Nat
    /\ \A d \in page.drains : Current(d) => Now = d.left
    /\ Now = << >> <=> \A d \in page.drains : ~Current(d)

LEMMA NowFacts == TypeInv /\ DrainInv => NowInv
<1> SUFFICES ASSUME TypeInv, DrainInv
             PROVE  NowInv
  OBVIOUS
<1>1. \A d \in page.drains : d.left \in Seq(Writes) /\ d.left # << >>
  BY DEF TypeInv, PageStates, Activations, DrainInv
<1>2. CASE \A d \in page.drains : ~Current(d)
  <2>1. Now = << >>
    BY <1>2 DEF Now, Left, Current
  <2> QED
    BY <1>2, <2>1, EmptySeq, Typed DEF NowInv, Reached, Now, Place
<1>3. CASE ~\A d \in page.drains : ~Current(d)
  <2>1. PICK d \in page.drains : Current(d)
    BY <1>3
  <2>2. {c \in page.drains : c.gen = page.generation} = {d}
    BY <2>1 DEF DrainInv, Current
  <2>3. Now = d.left
    <3>1. (CHOOSE c \in {d} : TRUE) = d
      OBVIOUS
    <3>2. {d} # {}
      OBVIOUS
    <3> QED
      BY <2>2, <3>1, <3>2 DEF Now, Left
  <2>4. Now \in Seq(Writes) /\ Len(Now) \in Nat /\ Now # << >>
    BY <1>1, <2>1, <2>3, LenProperties
  <2>5. \A e \in page.drains : Current(e) => e = d
    BY <2>1 DEF DrainInv
  <2>6. Reached = Place + Len(Now) /\ Place \in Nat
    BY Typed DEF Reached, Now, Place
  <2> QED
    BY <2>1, <2>3, <2>4, <2>5, <2>6 DEF NowInv
<1> QED
  BY <1>2, <1>3

\* A joined page is nowhere ahead of the history.
LEMMA Reaches ==
    ASSUME TypeInv, DrainInv, PlaceInv, OrderInv, TrueInv, Phase = "open"
    PROVE  /\ Reached <= Len(hist)
           /\ Failed => Place < Len(hist)
           /\ \A k \in 1 .. Len(Pipe) : To(Pipe[k]) <= Len(hist)
BY NowFacts DEF NowInv, TrueInv, OrderInv, Follows

\* The page stays as it is.
PageSame ==
    /\ View' = View /\ Stray' = Stray /\ Place' = Place /\ Failed' = Failed
    /\ Now' = Now /\ Reached' = Reached

LEMMA SamePage ==
    ASSUME page' = page
    PROVE  PageSame
BY DEF PageSame, View, Stray, Place, Failed, Now, Reached

-----------------------------------------------------------------------------
(* The server *)

LEMMA WriteStep ==
    ASSUME IInv, NEW told \in BOOLEAN, Write(told)
    PROVE  IInv'
<1> DEFINE sent == Phase = "open" /\ told
<1>0. /\ TypeInv /\ ServerInv /\ DrainInv /\ QuietInv /\ StartInv /\ PlaceInv
      /\ OrderInv /\ TrueInv /\ WholeInv
  BY DEF IInv
<1>1. /\ disk' = disk /\ floor' = floor /\ page' = page
      /\ drops' = drops /\ restarts' = restarts
  BY DEF Write
<1>2. PageSame
  BY <1>1, SamePage
<1>3. written' = written + 1 /\ written \in Nat /\ written + 1 \in Writes
  <2>1. written \in Nat /\ MaxWrites \in Nat
    BY <1>0, BoardSyncAssumption DEF TypeInv
  <2>2. written' = written + 1 /\ written < MaxWrites
    BY DEF Write
  <2> QED
    BY <2>1, <2>2 DEF Writes
<1>4. /\ missed' \in Nat /\ unheard' \in BOOLEAN
      /\ ~told => Phase = "open" /\ missed' # 0
      /\ told => missed' = missed
  BY <1>0 DEF Write, TypeInv, Phase
<1>5. hist' = Append(hist, written + 1) /\ hist \in Seq(Writes) /\ Len(hist) \in Nat
  BY <1>0, <1>3, Typed DEF Write
<1>6. PICK h : h = hist'
  OBVIOUS
<1>7. /\ h \in Seq(Writes) /\ Len(h) = Len(hist) + 1
      /\ h[Len(hist) + 1] = written + 1
      /\ Begins(hist, h)
      /\ \A s \in Seq(Writes), n \in Nat : Follows(s, n, hist) => Follows(s, n, h)
  <2>1. /\ h \in Seq(Writes) /\ Len(h) = Len(hist) + 1
        /\ \A i \in 1 .. Len(hist) : h[i] = hist[i]
        /\ h[Len(hist) + 1] = written + 1
    BY <1>3, <1>5, <1>6, AppendProperties
  <2>2. Begins(hist, h)
    BY <1>5, <2>1 DEF Begins, Follows
  <2> QED
    BY <1>5, <2>1, <2>2, FollowsFacts
<1>8. PICK m : m = [kind |-> "live", seq |-> Len(hist) + 1, mutation |-> written + 1]
  OBVIOUS
<1>9. /\ m \in Messages /\ To(m) = Len(hist) + 1 /\ From(m) = Len(hist)
      /\ Len(Adds(m)) = 1 /\ Follows(Adds(m), From(m), h)
  <2>1. m \in Messages /\ To(m) = Len(hist) + 1 /\ From(m) = Len(hist)
    BY <1>3, <1>5, <1>8 DEF Messages, From, To
  <2>2. Adds(m) = <<written + 1>>
    BY <1>8 DEF Adds
  <2>3. Len(<<written + 1>>) = 1 /\ <<written + 1>>[1] = written + 1
    OBVIOUS
  <2>4. Follows(<<written + 1>>, Len(hist), h)
    BY <1>5, <1>7, <2>3 DEF Follows
  <2> QED
    BY <2>1, <2>2, <2>3, <2>4
<1>10. /\ link' \in [phase : Phases, base : Nat, chan : Seq(Messages)]
       /\ Phase' = Phase /\ Base' = Base
       /\ sent => Pipe' = Append(Pipe, m)
       /\ ~sent => Pipe' = Pipe
  <2>1. /\ link \in [phase : Phases, base : Nat, chan : Seq(Messages)]
        /\ page.queue \in Seq(Messages)
    BY <1>0 DEF TypeInv, PageStates
  <2>2. CASE sent
    <3>1. link' = [link EXCEPT !.chan = Append(@, m)]
      BY <1>3, <1>6, <1>7, <1>8, <2>2 DEF Write, Phase
    <3>2. Append(link.chan, m) \in Seq(Messages)
      BY <1>9, <2>1, AppendProperties
    <3>3. /\ link' \in [phase : Phases, base : Nat, chan : Seq(Messages)]
          /\ link'.phase = link.phase /\ link'.base = link.base
          /\ link'.chan = Append(link.chan, m)
      BY <2>1, <3>1, <3>2
    <3>4. link.chan \in Seq(Messages)
      BY <2>1
    <3>5. page.queue \o Append(link.chan, m) = Append(page.queue \o link.chan, m)
      <4>1. \A q, c \in Seq(Messages), x \in Messages :
               q \o Append(c, x) = Append(q \o c, x)
        BY PipeFacts
      <4> QED
        BY <1>9, <2>1, <3>4, <4>1
    <3> QED
      BY <1>1, <2>2, <3>3, <3>5 DEF Phase, Base, Pipe
  <2>3. CASE ~sent
    BY <1>1, <2>1, <2>3 DEF Write, Phase, Base, Pipe
  <2> QED
    BY <2>2, <2>3
<1>11. /\ Len(Pipe) \in Nat /\ Pipe \in Seq(Messages)
       /\ sent => /\ Pipe' # << >> /\ Len(Pipe') = Len(Pipe) + 1
                  /\ \A i \in 1 .. Len(Pipe) : Pipe'[i] = Pipe[i]
                  /\ Pipe'[Len(Pipe) + 1] = m
  <2>1. Len(Pipe) \in Nat /\ Pipe \in Seq(Messages)
    BY <1>0, Typed
  <2> QED
    BY <1>9, <1>10, <2>1, AppendProperties
<1>12. TypeInv'
  BY <1>0, <1>1, <1>3, <1>4, <1>6, <1>7, <1>10 DEF TypeInv
<1>13. ServerInv'
  <2>1. Begins(disk, hist) /\ disk \in Seq(Writes) /\ Len(hist) <= written
    BY <1>0 DEF ServerInv, TypeInv
  <2>2. Begins(disk, h)
    BY <1>7, <2>1 DEF Begins
  <2>3. written + 1 <= MaxWrites
    BY <1>3, BoardSyncAssumption DEF Writes
  <2> QED
    BY <1>1, <1>3, <1>5, <1>6, <1>7, <2>1, <2>2, <2>3 DEF ServerInv
<1>14. DrainInv'
  BY <1>0, <1>1 DEF DrainInv, Current
<1>15. QuietInv'
  BY <1>0, <1>2, <1>10 DEF QuietInv, PageSame
<1>16. StartInv'
  BY <1>0, <1>1, <1>2, <1>10 DEF StartInv, Based, PageSame
<1>17. PlaceInv'
  BY <1>0, <1>2, <1>3, Typed, NowFacts DEF NowInv, PlaceInv, PageSame
<1>18. OrderInv'
  <2>1. CASE ~sent
    BY <1>0, <1>2, <1>3, <1>10, <2>1, Typed DEF OrderInv, PageSame
  <2>2. CASE sent
    <3>1. /\ Reached <= Len(hist) /\ (Failed => Place < Len(hist))
          /\ \A k \in 1 .. Len(Pipe) : To(Pipe[k]) <= Len(hist) /\ To(Pipe[k]) \in Nat
      BY <1>0, <2>2, Reaches, Typed
    <3>2. Len(hist) <= written
      BY <1>0 DEF ServerInv
    <3>3. ASSUME NEW k \in 1 .. Len(Pipe')
          PROVE  /\ From(Pipe'[k]) + Len(Adds(Pipe'[k])) = To(Pipe'[k])
                 /\ To(Pipe'[k]) <= written + 1
                 /\ Reached <= From(Pipe'[k])
                 /\ Failed => Place < From(Pipe'[k])
      <4>1. CASE k = Len(Pipe) + 1
        <5>1. Pipe'[k] = m
          BY <1>11, <2>2, <4>1
        <5>2. To(m) <= written + 1
          BY <1>3, <1>5, <1>9, <3>2
        <5> QED
          BY <1>9, <3>1, <5>1, <5>2
      <4>2. CASE k \in 1 .. Len(Pipe)
        BY <1>0, <1>3, <1>11, <2>2, <3>1, <4>2 DEF OrderInv
      <4> QED
        BY <1>11, <2>2, <4>1, <4>2
    <3>4. ASSUME NEW j \in 1 .. Len(Pipe'), NEW k \in 1 .. Len(Pipe'), j < k
          PROVE  To(Pipe'[j]) <= From(Pipe'[k])
      <4>1. CASE k = Len(Pipe) + 1
        BY <1>9, <1>11, <2>2, <3>1, <3>4, <4>1
      <4>2. CASE k \in 1 .. Len(Pipe)
        BY <1>0, <1>11, <2>2, <3>4, <4>2 DEF OrderInv
      <4> QED
        BY <1>11, <2>2, <4>1, <4>2
    <3> QED
      BY <1>2, <1>3, <3>3, <3>4 DEF OrderInv, PageSame
  <2> QED
    BY <2>1, <2>2
<1>19. TrueInv'
  <2> SUFFICES ASSUME Phase = "open"
               PROVE  TrueInv'
    BY <1>10 DEF TrueInv
  <2>1. ASSUME NEW k \in 1 .. Len(Pipe')
        PROVE  Follows(Adds(Pipe'[k]), From(Pipe'[k]), h)
    <3>1. CASE k \in 1 .. Len(Pipe) /\ Pipe'[k] = Pipe[k]
      <4>1. Follows(Adds(Pipe[k]), From(Pipe[k]), hist)
        BY <1>0, <3>1 DEF TrueInv
      <4>2. Adds(Pipe[k]) \in Seq(Writes) /\ From(Pipe[k]) \in Nat
        BY <1>0, <3>1, Typed
      <4> QED
        BY <1>7, <3>1, <4>1, <4>2
    <3>2. CASE sent /\ k = Len(Pipe) + 1
      BY <1>9, <1>11, <3>2
    <3> QED
      BY <1>10, <1>11, <3>1, <3>2
  <2>2. Begins(View, h) /\ Follows(Stray, Len(View), h) /\ Follows(Now, Place, h)
    BY <1>0, <1>7, Typed, NowFacts DEF NowInv, TrueInv, Begins
  <2>3. Failed => Place < Len(h)
    BY <1>0, <1>5, <1>7, Typed DEF TrueInv
  <2> QED
    BY <1>2, <1>6, <2>1, <2>2, <2>3 DEF TrueInv, PageSame
<1>20. WholeInv'
  <2> SUFFICES ASSUME Phase = "open", missed' = 0, ~Failed
               PROVE  WholeInv'
    BY <1>2, <1>10 DEF WholeInv, PageSame
  <2>1. sent /\ missed = 0
    BY <1>4
  <2>2. /\ \A k \in 1 .. Len(Pipe) :
              From(Pipe[k]) = IF k = 1 THEN Reached ELSE To(Pipe[k - 1])
        /\ Len(hist) = IF Pipe = << >> THEN Reached ELSE To(Pipe[Len(Pipe)])
    BY <1>0, <2>1 DEF WholeInv
  <2>3. Pipe = << >> <=> Len(Pipe) = 0
    BY <1>11, SeqFacts
  <2>4. ASSUME NEW k \in 1 .. Len(Pipe')
        PROVE  From(Pipe'[k]) = IF k = 1 THEN Reached ELSE To(Pipe'[k - 1])
    <3>1. CASE k = Len(Pipe) + 1
      <4>1. From(Pipe'[k]) = Len(hist)
        BY <1>9, <1>11, <2>1, <3>1
      <4>2. k # 1 => Pipe'[k - 1] = Pipe[Len(Pipe)]
        BY <1>11, <2>1, <3>1
      <4> QED
        BY <1>11, <2>2, <2>3, <3>1, <4>1, <4>2
    <3>2. CASE k \in 1 .. Len(Pipe)
      <4>1. Pipe'[k] = Pipe[k] /\ (k # 1 => Pipe'[k - 1] = Pipe[k - 1])
        BY <1>11, <2>1, <3>2
      <4> QED
        BY <2>2, <3>2, <4>1
    <3> QED
      BY <1>11, <2>1, <3>1, <3>2
  <2>5. Pipe' # << >> /\ Len(h) = To(Pipe'[Len(Pipe')])
    BY <1>7, <1>9, <1>11, <2>1
  <2> QED
    BY <1>2, <1>6, <2>4, <2>5 DEF WholeInv, PageSame
<1> QED
  BY <1>12, <1>13, <1>14, <1>15, <1>16, <1>17, <1>18, <1>19, <1>20 DEF IInv

LEMMA SaveStep ==
    ASSUME IInv, NEW n \in 0 .. MaxWrites, Save(n)
    PROVE  IInv'
<1>0. /\ TypeInv /\ ServerInv /\ DrainInv /\ QuietInv /\ StartInv /\ PlaceInv
      /\ OrderInv /\ TrueInv /\ WholeInv
  BY DEF IInv
<1>1. /\ disk' = hist /\ hist' = hist /\ page' = page /\ link' = link
      /\ written' = written /\ missed' = missed
      /\ unheard' = unheard /\ drops' = drops /\ restarts' = restarts
  BY DEF Save
<1>2. PageSame /\ Phase' = Phase /\ Base' = Base /\ Pipe' = Pipe
  BY <1>1, SamePage DEF Phase, Base, Pipe
<1>3. floor' \in Nat
  BY <1>0, BoardSyncAssumption DEF Save
<1>4. TypeInv'
  BY <1>0, <1>1, <1>3 DEF TypeInv
<1>5. \A s \in Seq(Writes) : Begins(s, disk) => Begins(s, hist)
  BY <1>0, Typed, FollowsFacts DEF ServerInv, Begins
<1>6. Begins(hist, hist)
  BY <1>0, Typed DEF Begins, Follows
<1>7. page.body \in Seq(Writes) /\ View \in Seq(Writes)
  BY <1>0, Typed DEF TypeInv, PageStates
<1>8. StartInv'
  BY <1>0, <1>1, <1>2, <1>5, <1>7 DEF StartInv, Based, PageSame
<1>9. ServerInv'
  BY <1>0, <1>1, <1>6 DEF ServerInv
<1>10. DrainInv' /\ QuietInv' /\ PlaceInv'
  BY <1>0, <1>1, <1>2 DEF DrainInv, Current, QuietInv, PlaceInv, PageSame
<1>11. OrderInv' /\ TrueInv' /\ WholeInv'
  BY <1>0, <1>1, <1>2 DEF OrderInv, TrueInv, WholeInv, PageSame
<1> QED
  BY <1>4, <1>8, <1>9, <1>10, <1>11 DEF IInv

LEMMA HandshakeStep ==
    ASSUME IInv, Handshake
    PROVE  IInv'
<1>0. /\ TypeInv /\ ServerInv /\ DrainInv /\ QuietInv /\ StartInv /\ PlaceInv
      /\ OrderInv /\ TrueInv /\ WholeInv
  BY DEF IInv
<1>1. /\ disk' = disk /\ hist' = hist /\ page' = page /\ floor' = floor
      /\ written' = written /\ missed' = missed
      /\ drops' = drops /\ restarts' = restarts /\ unheard' \in BOOLEAN
  BY DEF Handshake
<1>2. PageSame
  BY <1>1, SamePage
<1>3. /\ Phase = "connecting" /\ Based /\ Base = Place /\ page.starting = "no"
      /\ Pipe = << >> /\ Stray = << >> /\ Now = << >>
  BY <1>0 DEF Handshake, Phase, StartInv, QuietInv
<1>4. /\ Begins(View, hist) /\ Reached = Place /\ Place \in Nat /\ ~Failed
      /\ Place = Len(View) /\ Place <= Len(hist)
      /\ hist \in Seq(Writes) /\ Len(hist) \in Nat
      /\ Chan = << >> /\ page.queue = << >>
  <2>1. Begins(View, disk) /\ Place = Len(View) /\ ~Failed
    BY <1>3 DEF Based
  <2>2. Begins(View, hist)
    BY <1>0, <2>1, Typed, FollowsFacts DEF ServerInv, Begins
  <2>3. Reached = Place /\ Place \in Nat
    BY <1>0, <1>3, NowFacts, Typed, EmptySeq DEF NowInv
  <2>4. hist \in Seq(Writes) /\ Len(hist) \in Nat
    BY <1>0, Typed
  <2>5. Place <= Len(hist)
    BY <2>1, <2>2, <2>3, <2>4 DEF Begins, Follows
  <2>6. Chan = << >> /\ page.queue = << >>
    <3>1. Chan \in Seq(Messages) /\ page.queue \in Seq(Messages)
          /\ page.queue \o Chan = << >>
      BY <1>0, <1>3, Typed
    <3>2. \A q, c \in Seq(Messages) : q \o c = << >> => q = << >> /\ c = << >>
      BY ConcatEqualIffEmpty
    <3> QED
      BY <3>1, <3>2
  <2> QED
    BY <2>1, <2>2, <2>3, <2>4, <2>5, <2>6
<1>5. link \in [phase : Phases, base : Nat, chan : Seq(Messages)]
  BY <1>0 DEF TypeInv
<1>6. ServerInv' /\ DrainInv' /\ PlaceInv'
  BY <1>0, <1>1, <1>2 DEF ServerInv, DrainInv, Current, PlaceInv, PageSame
<1>7. CASE ~(floor <= link.base /\ link.base <= Len(hist))
  <2>1. /\ link' \in [phase : Phases, base : Nat, chan : Seq(Messages)]
        /\ link'.phase = "refused" /\ link'.chan = link.chan
    BY <1>5, <1>7 DEF Handshake, Phases
  <2>2. Phase' = "refused" /\ Pipe' = << >>
    BY <1>1, <1>3, <2>1 DEF Phase, Pipe
  <2>3. TypeInv'
    BY <1>0, <1>1, <2>1 DEF TypeInv
  <2>4. QuietInv' /\ StartInv' /\ TrueInv' /\ WholeInv'
    <3>1. StartInv'
      BY <1>0, <1>1, <1>3, <2>2 DEF StartInv
    <3> QED
      BY <1>2, <1>3, <2>2, <3>1 DEF QuietInv, TrueInv, WholeInv, PageSame
  <2>5. OrderInv'
    BY <2>2, EmptySeq DEF OrderInv
  <2> QED
    BY <1>6, <2>3, <2>4, <2>5 DEF IInv
<1>8. CASE floor <= link.base /\ link.base <= Len(hist)
  <2>1. PICK c : c = SubSeq(hist, Place + 1, Len(hist))
    OBVIOUS
  <2>2. /\ c \in Seq(Writes) /\ Len(c) = Len(hist) - Place
        /\ \A i \in 1 .. Len(c) : c[i] = hist[Place + i]
    <3>1. \A i \in Place + 1 .. Len(hist) : hist[i] \in Writes
      BY <1>4, SeqFacts
    <3>2. /\ c \in Seq(Writes)
          /\ Len(c) = IF Place + 1 <= Len(hist) THEN Len(hist) - (Place + 1) + 1
                                                ELSE 0
          /\ \A i \in 1 .. Len(hist) - (Place + 1) + 1 :
                c[i] = hist[(Place + 1) + i - 1]
      BY <1>4, <2>1, <3>1, SubSeqProperties
    <3> QED
      BY <1>4, <3>2
  <2>3. Follows(c, Place, hist)
    BY <1>4, <2>2 DEF Follows
  <2>4. PICK b : b = [kind |-> "batch", from |-> Place, seq |-> Len(hist),
                      children |-> c]
    OBVIOUS
  <2>5. /\ b \in Messages /\ From(b) = Place /\ To(b) = Len(hist)
        /\ Adds(b) = c
    BY <1>4, <2>2, <2>4 DEF Messages, From, To, Adds
  <2>6. Base = link.base
    BY DEF Base
  <2>7. link' = [link EXCEPT !.phase = "open", !.chan = <<b>>]
    BY <1>3, <1>8, <2>1, <2>4, <2>6 DEF Handshake
  <2>8. /\ <<b>> \in Seq(Messages) /\ Len(<<b>>) = 1 /\ <<b>>[1] = b
        /\ <<b>> # << >>
    BY <2>5
  <2>9. PICK p : p = <<b>>
    OBVIOUS
  <2>10. /\ p \in Seq(Messages) /\ Len(p) = 1 /\ p # << >>
         /\ p[1] = b /\ \A k \in 1 .. Len(p) : k = 1 /\ p[k] = b
    BY <2>8, <2>9
  <2>11. /\ link' \in [phase : Phases, base : Nat, chan : Seq(Messages)]
         /\ link'.phase = "open" /\ link'.chan = p
    BY <1>5, <2>7, <2>9, <2>10 DEF Phases
  <2>12. Phase' = "open" /\ Pipe' = p
    BY <1>1, <1>4, <2>10, <2>11, PipeFacts DEF Phase, Pipe
  <2>13. TypeInv'
    BY <1>0, <1>1, <2>11 DEF TypeInv
  <2>14. QuietInv' /\ StartInv'
    <3>1. StartInv'
      BY <1>0, <1>1, <1>3, <2>12 DEF StartInv
    <3> QED
      BY <2>12, <3>1 DEF QuietInv
  <2>15. OrderInv'
    <3>1. /\ From(b) + Len(Adds(b)) = To(b) /\ To(b) <= written
          /\ Reached <= From(b)
      BY <1>0, <1>4, <2>2, <2>5 DEF ServerInv
    <3>2. \A k \in 1 .. Len(p) : p[k] = b /\ \A j \in 1 .. Len(p) : ~(j < k)
      BY <2>10
    <3> QED
      BY <1>1, <1>2, <1>4, <2>12, <3>1, <3>2 DEF OrderInv, PageSame
  <2>16. TrueInv'
    <3>1. Follows(Stray, Len(View), hist) /\ Follows(Now, Place, hist)
      BY <1>3, <1>4, EmptyFollows
    <3> QED
      BY <1>1, <1>2, <1>4, <2>3, <2>5, <2>10, <2>12, <3>1 DEF TrueInv, PageSame
  <2>17. WholeInv'
    <3>1. Len(hist) = To(p[Len(p)]) /\ p # << >>
      BY <2>5, <2>10
    <3>2. \A k \in 1 .. Len(p) : k = 1 /\ From(p[k]) = Reached
      BY <1>4, <2>5, <2>10
    <3> QED
      BY <1>1, <1>2, <2>12, <3>1, <3>2 DEF WholeInv, PageSame
  <2> QED
    BY <1>6, <2>13, <2>14, <2>15, <2>16, <2>17 DEF IInv
<1> QED
  BY <1>7, <1>8

\* What the page has heard stays in order when the connection breaks.
LEMMA BrokenStep ==
    ASSUME IInv, NEW n \in 0 .. Len(Chan), link' = Broken(link, n), page' = page,
           disk' = disk, written' = written
    PROVE  /\ link' \in [phase : Phases, base : Nat, chan : Seq(Messages)]
           /\ DrainInv' /\ QuietInv' /\ StartInv' /\ PlaceInv' /\ OrderInv'
           /\ TrueInv' /\ WholeInv'
<1>0. /\ TypeInv /\ ServerInv /\ DrainInv /\ QuietInv /\ StartInv /\ PlaceInv
      /\ OrderInv /\ TrueInv /\ WholeInv
  BY DEF IInv
<1>1. PageSame
  BY SamePage
<1>2. /\ link \in [phase : Phases, base : Nat, chan : Seq(Messages)]
      /\ page.queue \in Seq(Messages) /\ link.chan \in Seq(Messages)
      /\ n \in 0 .. Len(link.chan)
  BY <1>0 DEF TypeInv, PageStates, Chan
<1>3. PICK c : c = SubSeq(link.chan, 1, n)
  OBVIOUS
<1>4. /\ c \in Seq(Messages) /\ page.queue \o c \in Seq(Messages)
      /\ Len(page.queue \o c) <= Len(Pipe)
      /\ \A i \in 1 .. Len(page.queue \o c) : (page.queue \o c)[i] = Pipe[i]
  <2>1. \A q, d \in Seq(Messages) : \A k \in 0 .. Len(d) :
           /\ SubSeq(d, 1, k) \in Seq(Messages)
           /\ q \o SubSeq(d, 1, k) \in Seq(Messages)
           /\ Len(q \o SubSeq(d, 1, k)) <= Len(q \o d)
           /\ \A i \in 1 .. Len(q \o SubSeq(d, 1, k)) :
                 (q \o SubSeq(d, 1, k))[i] = (q \o d)[i]
    BY CutFacts
  <2> QED
    BY <1>2, <1>3, <2>1 DEF Pipe
<1>5. /\ link' \in [phase : Phases, base : Nat, chan : Seq(Messages)]
      /\ link'.phase \notin {"open", "connecting"}
      /\ link'.phase = "none" <=> link.phase = "none"
      /\ link'.phase = "cut" => link.phase \in {"cut", "open"}
      /\ link.phase = "open" => link'.phase = "cut" /\ link'.chan = c
      /\ link.phase # "open" => link'.chan = link.chan
  <2>1. CASE link.phase = "open"
    BY <1>2, <1>3, <1>4, <2>1 DEF Broken, Prefix, Phases
  <2>2. CASE link.phase = "connecting"
    BY <1>2, <2>2 DEF Broken, Phases
  <2>3. CASE link.phase # "open" /\ link.phase # "connecting"
    BY <1>2, <2>3 DEF Broken
  <2> QED
    BY <2>1, <2>2, <2>3
<1>6. /\ Phase' \notin {"open", "connecting"} /\ (Phase' = "none" <=> Phase = "none")
      /\ Phase = "open" => Phase' = "cut"
      /\ Phase # "open" => Pipe' = Pipe
      /\ Phase = "cut" => Phase' = "cut"
  BY <1>5 DEF Phase, Pipe, Broken
<1>7. PICK p : p = Pipe'
  OBVIOUS
<1>8. /\ p \in Seq(Messages) /\ Len(p) \in Nat /\ Len(p) <= Len(Pipe)
      /\ \A i \in 1 .. Len(p) : p[i] = Pipe[i]
  <2>1. CASE Phase = "open"
    <3>1. p = page.queue \o c
      BY <1>5, <1>7, <2>1 DEF Phase, Pipe
    <3> QED
      BY <1>4, <3>1, LenProperties
  <2>2. CASE Phase # "open"
    BY <1>0, <1>6, <1>7, <2>2, Typed
  <2> QED
    BY <2>1, <2>2
<1>9. DrainInv' /\ PlaceInv'
  BY <1>0, <1>1 DEF DrainInv, Current, PlaceInv, PageSame
<1>10. QuietInv'
  BY <1>0, <1>1, <1>6 DEF QuietInv, PageSame
<1>11. StartInv'
  BY <1>0, <1>1, <1>6 DEF StartInv, Based, PageSame
<1>12. OrderInv'
  <2>1. Len(Pipe) \in Nat
    BY <1>0, Typed
  <2>2. \A k \in 1 .. Len(p) : k \in 1 .. Len(Pipe) /\ p[k] = Pipe[k]
    BY <1>8, <2>1
  <2> QED
    BY <1>0, <1>1, <1>7, <2>2 DEF OrderInv, PageSame
<1>13. TrueInv' /\ WholeInv'
  BY <1>6 DEF TrueInv, WholeInv
<1> QED
  BY <1>5, <1>9, <1>10, <1>11, <1>12, <1>13

LEMMA DropStep ==
    ASSUME IInv, NEW n \in 0 .. MaxWrites + 1, Drop(n)
    PROVE  IInv'
<1>0. TypeInv /\ ServerInv
  BY DEF IInv
<1>1. /\ link' = Broken(link, n) /\ page' = page
      /\ hist' = hist /\ disk' = disk /\ floor' = floor /\ unheard' = unheard
      /\ written' = written /\ restarts' = restarts /\ missed' = missed
  BY DEF Drop, server
<1>2. n \in 0 .. Len(Chan) /\ drops' = drops + 1
  BY DEF Drop, Chan
<1>3. /\ link' \in [phase : Phases, base : Nat, chan : Seq(Messages)]
      /\ DrainInv' /\ QuietInv' /\ StartInv' /\ PlaceInv' /\ OrderInv'
      /\ TrueInv' /\ WholeInv'
  BY <1>1, <1>2, BrokenStep
<1>4. TypeInv'
  BY <1>0, <1>1, <1>2, <1>3 DEF TypeInv
<1>5. ServerInv'
  BY <1>0, <1>1 DEF ServerInv
<1> QED
  BY <1>3, <1>4, <1>5 DEF IInv

LEMMA RestartStep ==
    ASSUME IInv, Restart
    PROVE  IInv'
<1>0. TypeInv /\ ServerInv
  BY DEF IInv
<1>1. /\ link' = Broken(link, Len(Chan)) /\ page' = page
      /\ hist' = disk /\ disk' = disk /\ floor' = Len(disk) /\ unheard' = FALSE
      /\ written' = written /\ restarts' = restarts + 1 /\ missed' = missed
      /\ drops' = drops
  BY DEF Restart, Chan
<1>2. Len(Chan) \in 0 .. Len(Chan)
  BY <1>0, Typed, LenProperties
<1>3. /\ link' \in [phase : Phases, base : Nat, chan : Seq(Messages)]
      /\ DrainInv' /\ QuietInv' /\ StartInv' /\ PlaceInv' /\ OrderInv'
      /\ TrueInv' /\ WholeInv'
  BY <1>1, <1>2, BrokenStep
<1>4. TypeInv'
  <2>1. disk \in Seq(Writes) /\ Len(disk) \in Nat
    BY <1>0, Typed
  <2>2. hist' \in Seq(Writes) /\ disk' \in Seq(Writes) /\ floor' \in Nat
    BY <1>1, <2>1
  <2>3. /\ page' = page /\ unheard' \in BOOLEAN /\ written' = written
        /\ restarts' = restarts + 1 /\ missed' = missed /\ drops' = drops
    BY <1>1
  <2>4. link' \in [phase : Phases, base : Nat, chan : Seq(Messages)]
    BY <1>3
  <2> QED
    BY <1>0, <2>2, <2>3, <2>4 DEF TypeInv
<1>5. ServerInv'
  <2>1. Len(disk) \in Nat /\ Len(hist) \in Nat /\ written \in Nat
    BY <1>0, Typed
  <2>2. Begins(disk, disk)
    BY <2>1 DEF Begins, Follows
  <2>3. Len(disk) <= Len(hist)
    BY <1>0, <2>1 DEF ServerInv, Begins, Follows
  <2> QED
    BY <1>0, <1>1, <2>1, <2>2, <2>3, BoardSyncAssumption DEF ServerInv
<1> QED
  BY <1>3, <1>4, <1>5 DEF IInv

-----------------------------------------------------------------------------
(* Connecting *)

\* The page gives up what it had heard.
GivesUp(p, q) ==
    /\ q \in PageStates /\ q.view = p.view /\ q.seq = p.seq /\ q.failed = p.failed
    /\ q.queue = << >> /\ q.stray = << >> /\ q.refresh
    /\ q.generation > p.generation
    /\ q.drains = {Forget(d) : d \in p.drains}

LEMMA StartsOver ==
    ASSUME IInv, drops' \in Nat, unheard' \in BOOLEAN,
           UNCHANGED <<hist, disk, floor, written, restarts, missed>>,
           link' \in [phase : Phases, base : Nat, chan : Seq(Messages)],
           Phase' \in {"none", "dead"}, Chan' = << >>,
           GivesUp(page, page'),
           page'.starting = "no" \/ (page'.starting = "fetching" /\ Phase' = "none")
    PROVE  IInv'
<1>0. /\ TypeInv /\ ServerInv /\ DrainInv /\ QuietInv /\ StartInv /\ PlaceInv
      /\ OrderInv /\ TrueInv /\ WholeInv
  BY DEF IInv
<1>g. /\ page' \in PageStates /\ View' = View /\ Place' = Place
      /\ Failed' = Failed /\ Stray' = << >> /\ page'.refresh
      /\ page'.generation > page.generation
      /\ page'.drains = {Forget(d) : d \in page.drains}
  BY DEF GivesUp, View, Place, Failed, Stray
<1>p. Pipe' = << >>
  BY EmptySeq, ConcatEmptySeq DEF GivesUp, Pipe, Chan
<1>1. TypeInv'
  BY <1>0, <1>g DEF TypeInv
<1>2. ServerInv'
  BY <1>0 DEF ServerInv
<1>3. /\ page.generation \in Nat /\ page'.generation \in Nat
      /\ \A d \in page.drains : d \in Activations
  BY <1>0, <1>g DEF TypeInv, PageStates
<1>4. DrainInv' /\ \A d \in page'.drains : ~Current(d)'
  <2>1. \A d \in Activations : /\ Forget(d).left = d.left /\ Forget(d).gen = d.gen
                               /\ Forget(d).tool = "forgotten" /\ d.gen \in Nat
    BY DEF Forget, Activations
  <2>2. ASSUME NEW d \in page'.drains
        PROVE  /\ d.left # << >> /\ d.gen < page'.generation
               /\ d.tool = "forgotten"
    <3>1. PICK e \in page.drains : d = Forget(e)
      BY <1>g
    <3>2. e.left # << >> /\ e.gen <= page.generation /\ e \in Activations
      BY <1>0, <1>3 DEF DrainInv
    <3> QED
      BY <1>g, <1>3, <2>1, <3>1, <3>2
  <2>3. \A d \in page'.drains : d.gen \in Nat
    BY <1>g DEF PageStates, Activations
  <2> QED
    BY <1>3, <2>2, <2>3 DEF DrainInv, Current
<1>5. NowInv'
  BY <1>1, <1>4, NowFacts, PTL
<1>6. Now' = << >> /\ Reached' = Place /\ Place \in Nat
  <2>1. Now' = << >>
    BY <1>4, <1>5 DEF NowInv
  <2>2. Place \in Nat
    BY <1>0, Typed
  <2> QED
    BY <1>5, <1>g, <2>1, <2>2, EmptySeq DEF NowInv
<1>7. QuietInv' /\ TrueInv' /\ WholeInv'
  BY <1>6, <1>g, <1>p DEF QuietInv, TrueInv, WholeInv
<1>8. StartInv'
  BY <1>g DEF StartInv
<1>9. PlaceInv'
  <2>1. /\ Len(View) \in Nat /\ Len(Stray) \in Nat /\ Place \in Nat
        /\ written \in Nat /\ Reached \in Nat /\ Reached = Place + Len(Now)
        /\ Len(Now) \in Nat
    BY <1>0, Typed, NowFacts DEF NowInv
  <2>2. Place <= written /\ Len(View) <= written
    BY <1>0, <2>1 DEF PlaceInv
  <2>3. Len(View) = Place \/ (Failed /\ Len(View) = Place + 1)
    BY <1>0 DEF PlaceInv
  <2>4. \A n : n = << >> => Len(n) = 0
    BY EmptySeq
  <2> QED
    BY <1>6, <1>g, <2>1, <2>2, <2>3, <2>4 DEF PlaceInv
<1>10. OrderInv'
  BY <1>p, EmptySeq DEF OrderInv
<1> QED
  BY <1>1, <1>2, <1>4, <1>7, <1>8, <1>9, <1>10 DEF IInv

LEMMA ResyncFacts ==
    ASSUME NEW p \in PageStates
    PROVE  GivesUp(p, Resync(p)) /\ Resync(p).starting = p.starting
<1>1. \A d \in Activations : Forget(d) \in Activations
  BY DEF Forget, Activations
<1>2. p.drains \subseteq Activations /\ p.generation \in Nat
  BY DEF PageStates
<1>3. {Forget(d) : d \in p.drains} \in SUBSET Activations
  BY <1>1, <1>2
<1>4. << >> \in Seq(Messages) /\ << >> \in Seq(Writes)
  BY EmptySeq
<1>5. p.generation + 1 \in Nat /\ p.generation + 1 > p.generation
  BY <1>2
<1>6. PICK e : e = {Forget(d) : d \in p.drains}
  OBVIOUS
<1>7. PICK q : q = Resync(p)
  OBVIOUS
<1>8. q = [p EXCEPT !.generation = p.generation + 1, !.awaiting = TRUE,
                    !.refresh = TRUE, !.queue = << >>, !.stray = << >>,
                    !.drains = e]
  BY <1>6, <1>7 DEF Resync
<1>9. /\ q \in PageStates /\ q.view = p.view /\ q.seq = p.seq /\ q.failed = p.failed
      /\ q.queue = << >> /\ q.stray = << >> /\ q.refresh /\ q.starting = p.starting
      /\ q.generation = p.generation + 1 /\ q.drains = e
  BY <1>3, <1>4, <1>5, <1>6, <1>8 DEF PageStates
<1> QED
  BY <1>5, <1>6, <1>7, <1>9 DEF GivesUp

\* start(), after a resynchronization if a socket is there.
LEMMA StartingFacts ==
    ASSUME NEW p \in PageStates, NEW l
    PROVE  /\ l.phase # "none" => /\ GivesUp(p, Starting(p, l))
                                  /\ Starting(p, l).starting = "fetching"
           /\ l.phase = "none" =>
                 /\ Starting(p, l) \in PageStates
                 /\ Starting(p, l).view = p.view /\ Starting(p, l).seq = p.seq
                 /\ Starting(p, l).failed = p.failed
                 /\ Starting(p, l).starting \in {"fetching", "connecting"}
                 /\ Starting(p, l).starting = "fetching" <=> p.refresh
                 /\ Starting(p, l).queue = p.queue /\ Starting(p, l).stray = p.stray
                 /\ Starting(p, l).refresh = p.refresh
                 /\ Starting(p, l).generation = p.generation + 1
                 /\ Starting(p, l).drains = p.drains
<1> DEFINE Begun(q, st) == [q EXCEPT !.generation = q.generation + 1,
                                     !.awaiting = TRUE, !.timer = FALSE,
                                     !.starting = st]
<1>1. ASSUME NEW q \in PageStates, NEW st \in {"fetching", "connecting"}
      PROVE  /\ Begun(q, st) \in PageStates
             /\ Begun(q, st).view = q.view /\ Begun(q, st).seq = q.seq
             /\ Begun(q, st).failed = q.failed /\ Begun(q, st).starting = st
             /\ Begun(q, st).queue = q.queue /\ Begun(q, st).stray = q.stray
             /\ Begun(q, st).refresh = q.refresh
             /\ Begun(q, st).generation = q.generation + 1
             /\ Begun(q, st).drains = q.drains
  <2>1. q.generation + 1 \in Nat
    BY DEF PageStates
  <2>2. PICK g : g = q.generation + 1
    OBVIOUS
  <2> QED
    BY <2>1, <2>2 DEF PageStates
<1>2. PICK n : n = Starting(p, l)
  OBVIOUS
<1>3. CASE l.phase = "none"
  <2>1. PICK st \in {"fetching", "connecting"} :
           st = IF p.refresh THEN "fetching" ELSE "connecting"
    OBVIOUS
  <2>2. n = Begun(p, st)
    BY <1>2, <1>3, <2>1 DEF Starting
  <2>3. st = "fetching" <=> p.refresh
    BY <2>1
  <2>4. /\ n \in PageStates
        /\ n.view = p.view /\ n.seq = p.seq /\ n.failed = p.failed
        /\ n.starting = st
        /\ n.queue = p.queue /\ n.stray = p.stray /\ n.refresh = p.refresh
        /\ n.generation = p.generation + 1 /\ n.drains = p.drains
    <3> HIDE DEF Begun
    <3> QED
      BY <1>1, <2>2
  <2> QED
    BY <1>2, <1>3, <2>3, <2>4
<1>4. CASE l.phase # "none"
  <2>1. PICK q : q = Resync(p)
    OBVIOUS
  <2>2. GivesUp(p, q) /\ q \in PageStates /\ q.refresh
    BY <2>1, ResyncFacts DEF GivesUp
  <2>3. n = Begun(q, "fetching")
    BY <1>2, <1>4, <2>1, <2>2 DEF Starting
  <2>4. /\ n \in PageStates
        /\ n.view = q.view /\ n.seq = q.seq /\ n.failed = q.failed
        /\ n.starting = "fetching"
        /\ n.queue = q.queue /\ n.stray = q.stray /\ n.refresh = q.refresh
        /\ n.generation = q.generation + 1 /\ n.drains = q.drains
    <3> HIDE DEF Begun
    <3> QED
      BY <1>1, <2>2, <2>3
  <2>5. n.generation > p.generation
    BY <2>2, <2>4 DEF GivesUp, PageStates
  <2> QED
    BY <1>2, <1>4, <2>2, <2>4, <2>5 DEF GivesUp
<1> QED
  BY <1>3, <1>4

\* Setting the timer changes nothing else.
LEMMA TimerFacts ==
    ASSUME NEW p, NEW q \in PageStates, GivesUp(p, q)
    PROVE  /\ GivesUp(p, [q EXCEPT !.timer = TRUE])
           /\ [q EXCEPT !.timer = TRUE].starting = q.starting
<1>1. PICK n : n = [q EXCEPT !.timer = TRUE]
  OBVIOUS
<1>2. /\ n \in PageStates /\ n.view = q.view /\ n.seq = q.seq
      /\ n.failed = q.failed /\ n.starting = q.starting
      /\ n.queue = q.queue /\ n.stray = q.stray
      /\ n.refresh = q.refresh /\ n.generation = q.generation
      /\ n.drains = q.drains
  BY <1>1 DEF PageStates
<1> QED
  BY <1>1, <1>2 DEF GivesUp

LEMMA NoLinkFacts ==
    /\ NoLink \in [phase : Phases, base : Nat, chan : Seq(Messages)]
    /\ NoLink.phase = "none" /\ NoLink.chan = << >>
BY EmptySeq DEF NoLink, Phases

LEMMA RefreshAccessStep ==
    ASSUME IInv, RefreshAccess
    PROVE  IInv'
<1>1. TypeInv /\ page \in PageStates
  BY DEF IInv, TypeInv
<1>2. page' = Starting(page, link) /\ link.phase # "none" /\ link' = NoLink
  BY DEF RefreshAccess
<1>3. drops' = drops + 1
      /\ unheard' = unheard
      /\ UNCHANGED <<hist, disk, floor, written, restarts, missed>>
  BY DEF RefreshAccess, server
<1>4. drops' \in Nat /\ unheard' \in BOOLEAN
  BY <1>1, <1>3 DEF TypeInv
<1>5. GivesUp(page, page') /\ page'.starting = "fetching"
  BY <1>1, <1>2, StartingFacts
<1>6. /\ link' \in [phase : Phases, base : Nat, chan : Seq(Messages)]
      /\ Phase' = "none" /\ Chan' = << >>
  BY <1>2, NoLinkFacts DEF Phase, Chan
<1> QED
  BY <1>3, <1>4, <1>5, <1>6, StartsOver

LEMMA RefusedStep ==
    ASSUME IInv, Refused
    PROVE  IInv'
<1>1. TypeInv /\ page \in PageStates /\ StartInv
  BY DEF IInv, TypeInv
<1>2. /\ page' = [Resync(page) EXCEPT !.timer = TRUE] /\ link.phase = "refused"
      /\ link' = NoLink
  BY DEF Refused
<1>3. /\ unheard' = unheard /\ drops' = drops
      /\ UNCHANGED <<hist, disk, floor, written, restarts, missed>>
  BY DEF Refused, server
<1>4. drops' \in Nat /\ unheard' \in BOOLEAN
  BY <1>1, <1>3 DEF TypeInv
<1>5. GivesUp(page, page') /\ page'.starting = page.starting
  <2>1. /\ GivesUp(page, Resync(page)) /\ Resync(page).starting = page.starting
        /\ Resync(page) \in PageStates
    BY <1>1, ResyncFacts DEF GivesUp
  <2> QED
    BY <1>2, <2>1, TimerFacts
<1>6. /\ link' \in [phase : Phases, base : Nat, chan : Seq(Messages)]
      /\ Phase' = "none" /\ Chan' = << >>
  BY <1>2, NoLinkFacts DEF Phase, Chan
<1>7. page.starting = "no"
  BY <1>1, <1>2 DEF StartInv, Phase
<1> QED
  BY <1>3, <1>4, <1>5, <1>6, <1>7, StartsOver

LEMMA DisconnectedStep ==
    ASSUME IInv, Disconnected
    PROVE  IInv'
<1>1. TypeInv /\ page \in PageStates /\ StartInv
  BY DEF IInv, TypeInv
<1>2. /\ page' = [Resync(page) EXCEPT !.timer = TRUE] /\ link.phase = "cut"
      /\ link.chan = << >> /\ link' = [link EXCEPT !.phase = "dead"]
  BY DEF Disconnected
<1>3. /\ unheard' = unheard /\ drops' = drops
      /\ UNCHANGED <<hist, disk, floor, written, restarts, missed>>
  BY DEF Disconnected, server
<1>4. drops' \in Nat /\ unheard' \in BOOLEAN
  BY <1>1, <1>3 DEF TypeInv
<1>5. GivesUp(page, page') /\ page'.starting = page.starting
  <2>1. /\ GivesUp(page, Resync(page)) /\ Resync(page).starting = page.starting
        /\ Resync(page) \in PageStates
    BY <1>1, ResyncFacts DEF GivesUp
  <2> QED
    BY <1>2, <2>1, TimerFacts
<1>6. /\ link' \in [phase : Phases, base : Nat, chan : Seq(Messages)]
      /\ Phase' = "dead" /\ Chan' = << >>
  BY <1>1, <1>2 DEF TypeInv, Phases, Phase, Chan
<1>7. page.starting = "no"
  BY <1>1, <1>2 DEF StartInv, Phase
<1>8. /\ Phase' \in {"none", "dead"} /\ Chan' = << >>
      /\ link' \in [phase : Phases, base : Nat, chan : Seq(Messages)]
      /\ page'.starting = "no" /\ GivesUp(page, page')
  BY <1>5, <1>6, <1>7
<1> QED
  BY <1>3, <1>4, <1>8, StartsOver

\* Nothing is under way, and nothing of that changes.
LEMMA StaysQuiet ==
    ASSUME IInv, Phase \notin {"open", "cut"}, Phase' \notin {"open", "cut"},
           page' \in PageStates, drops' \in Nat, unheard' \in BOOLEAN,
           UNCHANGED <<hist, disk, floor, written, restarts, missed>>,
           link' \in [phase : Phases, base : Nat, chan : Seq(Messages)],
           page'.queue = page.queue, Chan' = Chan, page'.stray = page.stray,
           page'.drains = page.drains, page'.generation >= page.generation,
           StartInv',
           \/ View' = View /\ Place' = Place /\ Failed' = Failed
           \/ Based'
    PROVE  IInv'
<1>0. /\ TypeInv /\ ServerInv /\ DrainInv /\ QuietInv /\ StartInv /\ PlaceInv
      /\ OrderInv /\ TrueInv /\ WholeInv
  BY DEF IInv
<1>1. TypeInv'
  BY <1>0 DEF TypeInv
<1>2. ServerInv'
  BY <1>0 DEF ServerInv
<1>3. Stray = << >> /\ Now = << >> /\ Pipe = << >>
  BY <1>0 DEF QuietInv
<1>4. Stray' = << >> /\ Pipe' = << >>
  BY <1>3 DEF Stray, Pipe, Chan
<1>5. \A d \in page.drains : ~Current(d)
  BY <1>0, <1>3, NowFacts DEF NowInv
<1>6. /\ page.generation \in Nat /\ page'.generation \in Nat
      /\ \A d \in page.drains : d.gen \in Nat
  BY <1>0 DEF TypeInv, PageStates, Activations
<1>7. \A d \in page.drains : d.gen < page'.generation /\ d.gen < page.generation
  BY <1>0, <1>5, <1>6 DEF DrainInv, Current
<1>8. DrainInv'
  BY <1>0, <1>6, <1>7 DEF DrainInv, Current
<1>9. \A d \in page'.drains : ~Current(d)'
  BY <1>6, <1>7 DEF Current
<1>10. NowInv'
  BY <1>1, <1>8, NowFacts, PTL
<1>11. Now' = << >>
  BY <1>9, <1>10 DEF NowInv
<1>12. QuietInv' /\ TrueInv' /\ WholeInv'
  BY <1>4, <1>11 DEF QuietInv, TrueInv, WholeInv
<1>13. OrderInv'
  BY <1>4, EmptySeq DEF OrderInv
<1>14. PICK r : r = Reached'
  OBVIOUS
<1>15. Len(Now') = 0 /\ Len(Stray') = 0 /\ Len(Now) = 0 /\ Len(Stray) = 0
  BY <1>3, <1>4, <1>11, EmptySeq
<1>16. r = Place' /\ Place' \in Nat /\ Len(View') \in Nat
  <2>1. Place' \in Nat /\ View' \in Seq(Writes)
    BY DEF PageStates, Place, View
  <2> QED
    <3>1. r = Place'
      <4>1. r = Place' + Len(Now') /\ Place' \in Nat
        BY <1>10, <1>14, <2>1 DEF NowInv
      <4>2. \A p \in Nat : p + 0 = p
        OBVIOUS
      <4> QED
        BY <1>15, <4>1, <4>2
    <3>2. Len(View') \in Nat
      BY <2>1, LenProperties
    <3> QED
      BY <2>1, <3>1, <3>2
<1>17. PlaceInv'
  <2>1. CASE View' = View /\ Place' = Place /\ Failed' = Failed
    <3>1. Reached = Place /\ Reached <= written /\ Len(View) + Len(Stray) <= written
      BY <1>0, <1>15, NowFacts, Typed DEF NowInv, PlaceInv
    <3>2. Len(View) <= written
      BY <1>15, <1>16, <2>1, <3>1
    <3> QED
      BY <1>0, <1>3, <1>4, <1>11, <1>14, <1>15, <1>16, <2>1, <3>1, <3>2
      DEF PlaceInv
  <2>2. CASE Based'
    <3>1. Len(disk) \in Nat /\ Len(hist) \in Nat /\ written \in Nat
      BY <1>0, Typed
    <3>2. Len(disk) <= Len(hist) /\ Len(hist) <= written
      BY <1>0, <3>1 DEF ServerInv, Begins, Follows
    <3>3. Len(View') <= Len(disk) /\ Place' = Len(View') /\ ~Failed'
      BY <1>16, <2>2 DEF Based, Begins, Follows
    <3> QED
      BY <1>4, <1>11, <1>14, <1>15, <1>16, <3>1, <3>2, <3>3 DEF PlaceInv
  <2> QED
    BY <2>1, <2>2
<1> QED
  BY <1>1, <1>2, <1>8, <1>12, <1>13, <1>17 DEF IInv

LEMMA StartStep ==
    ASSUME IInv, Start
    PROVE  IInv'
<1>1. TypeInv /\ page \in PageStates /\ StartInv
  BY DEF IInv, TypeInv
<1>2. page' = Starting(page, link) /\ link' = NoLink /\ page.starting = "no"
  BY DEF Start
<1>3. /\ drops' = drops /\ unheard' = unheard
      /\ UNCHANGED <<hist, disk, floor, written, restarts, missed>>
  BY DEF Start, server
<1>4. drops' \in Nat /\ unheard' \in BOOLEAN
  BY <1>1, <1>3 DEF TypeInv
<1>5. /\ link' \in [phase : Phases, base : Nat, chan : Seq(Messages)]
      /\ Phase' = "none" /\ Chan' = << >>
  BY <1>2, NoLinkFacts DEF Phase, Chan
<1>6. CASE link.phase # "none"
  <2>1. GivesUp(page, page') /\ page'.starting = "fetching"
    BY <1>1, <1>2, <1>6, StartingFacts
  <2> QED
    BY <1>3, <1>4, <1>5, <2>1, StartsOver
<1>7. CASE link.phase = "none"
  <2>1. /\ page' \in PageStates
        /\ page'.view = page.view /\ page'.seq = page.seq
        /\ page'.failed = page.failed
        /\ page'.starting \in {"fetching", "connecting"}
        /\ page'.starting = "fetching" <=> page.refresh
        /\ page'.queue = page.queue /\ page'.stray = page.stray
        /\ page'.refresh = page.refresh
        /\ page'.generation = page.generation + 1 /\ page'.drains = page.drains
    BY <1>1, <1>2, <1>7, StartingFacts
  <2>2. page'.generation >= page.generation
    BY <1>1, <2>1 DEF PageStates
  <2>3. View' = View /\ Place' = Place /\ Failed' = Failed
    BY <2>1 DEF View, Place, Failed
  <2>4. Phase = "none"
    BY <1>7 DEF Phase
  <2>5. Chan' = Chan
    <3>1. QuietInv /\ Chan \in Seq(Messages) /\ page.queue \in Seq(Messages)
          /\ Pipe = page.queue \o Chan
      BY <1>1, Typed DEF IInv
    <3>2. Pipe = << >>
      BY <2>4, <3>1 DEF QuietInv
    <3>3. \A q, c \in Seq(Messages) : q \o c = << >> => q = << >> /\ c = << >>
      BY ConcatEqualIffEmpty
    <3> QED
      BY <1>5, <3>1, <3>2, <3>3
  <2>6. page.refresh \in BOOLEAN
    BY <1>1 DEF PageStates
  <2>7. StartInv'
    <3>1. page'.starting = "connecting" => Based
      BY <1>1, <1>2, <2>1, <2>4, <2>6 DEF StartInv
    <3>2. page'.starting = "connecting" => Based'
      BY <1>3, <2>3, <3>1 DEF Based
    <3> QED
      BY <1>5, <2>1, <3>2 DEF StartInv
  <2>8. Phase \notin {"open", "cut"} /\ Phase' \notin {"open", "cut"}
    BY <1>5, <2>4
  <2> QED
    BY <1>3, <1>4, <1>5, <2>1, <2>2, <2>3, <2>5, <2>7, <2>8, StaysQuiet
<1> QED
  BY <1>6, <1>7

LEMMA ServeBaselineStep ==
    ASSUME IInv, ServeBaseline
    PROVE  IInv'
<1>1. /\ TypeInv /\ page \in PageStates /\ StartInv
      /\ link \in [phase : Phases, base : Nat, chan : Seq(Messages)]
  BY DEF IInv, TypeInv
<1>2. /\ page.starting = "fetching" /\ link' = link
      /\ page' = [page EXCEPT !.starting = "fetched", !.body = disk]
  BY DEF ServeBaseline
<1>3. /\ drops' = drops /\ unheard' = unheard
      /\ UNCHANGED <<hist, disk, floor, written, restarts, missed>>
  BY DEF ServeBaseline, server
<1>4. drops' \in Nat /\ unheard' \in BOOLEAN /\ disk \in Seq(Writes)
  BY <1>1, <1>3 DEF TypeInv
<1>5. /\ page' \in PageStates /\ page'.starting = "fetched" /\ page'.body = disk
      /\ page'.view = page.view /\ page'.seq = page.seq
      /\ page'.failed = page.failed /\ page'.refresh = page.refresh
      /\ page'.queue = page.queue /\ page'.stray = page.stray
      /\ page'.generation = page.generation /\ page'.drains = page.drains
  BY <1>1, <1>2, <1>4 DEF PageStates
<1>6. View' = View /\ Place' = Place /\ Failed' = Failed
  BY <1>5 DEF View, Place, Failed
<1>7. Phase = "none" /\ Phase' = "none" /\ Chan' = Chan
  BY <1>1, <1>2 DEF StartInv, Phase, Chan
<1>8. Begins(disk, disk)
  BY <1>4, LenProperties DEF Begins, Follows
<1>9. StartInv'
  BY <1>1, <1>2, <1>3, <1>5, <1>7, <1>8 DEF StartInv
<1>10. page'.generation >= page.generation
  BY <1>1, <1>5 DEF PageStates
<1>11. link' \in [phase : Phases, base : Nat, chan : Seq(Messages)]
  BY <1>1, <1>2
<1>12. Phase \notin {"open", "cut"} /\ Phase' \notin {"open", "cut"}
  BY <1>7
<1> QED
  BY <1>3, <1>4, <1>5, <1>6, <1>7, <1>9, <1>10, <1>11, <1>12, StaysQuiet

LEMMA BaselineArrivesStep ==
    ASSUME IInv, BaselineArrives
    PROVE  IInv'
<1>1. /\ TypeInv /\ page \in PageStates /\ StartInv
      /\ link \in [phase : Phases, base : Nat, chan : Seq(Messages)]
  BY DEF IInv, TypeInv
<1>2. /\ page.starting = "fetched" /\ link' = link
      /\ page' = [page EXCEPT !.starting = "connecting", !.body = << >>,
                              !.view = page.body, !.seq = Len(page.body),
                              !.refresh = FALSE, !.failed = FALSE]
  BY DEF BaselineArrives
<1>3. /\ drops' = drops /\ unheard' = unheard
      /\ UNCHANGED <<hist, disk, floor, written, restarts, missed>>
  BY DEF BaselineArrives, server
<1>4. drops' \in Nat /\ unheard' \in BOOLEAN
  BY <1>1, <1>3 DEF TypeInv
<1>5. /\ page.body \in Seq(Writes) /\ Len(page.body) \in Nat
      /\ << >> \in Seq(Writes)
  BY <1>1, LenProperties, EmptySeq DEF PageStates
<1>6. PICK n : n = Len(page.body)
  OBVIOUS
<1>7. /\ page' \in PageStates /\ page'.starting = "connecting"
      /\ page'.view = page.body /\ page'.seq = n /\ page'.failed = FALSE
      /\ page'.queue = page.queue /\ page'.stray = page.stray
      /\ page'.generation = page.generation /\ page'.drains = page.drains
  BY <1>1, <1>2, <1>5, <1>6 DEF PageStates
<1>8. View' = page.body /\ Place' = n /\ ~Failed'
  BY <1>7 DEF View, Place, Failed
<1>9. Begins(page.body, disk)
  BY <1>1, <1>2 DEF StartInv
<1>10. Based'
  BY <1>3, <1>6, <1>8, <1>9 DEF Based
<1>11. Phase = "none" /\ Phase' = "none" /\ Chan' = Chan
  BY <1>1, <1>2 DEF StartInv, Phase, Chan
<1>12. StartInv'
  BY <1>7, <1>10, <1>11 DEF StartInv
<1>13. page'.generation >= page.generation
  BY <1>1, <1>7 DEF PageStates
<1>14. link' \in [phase : Phases, base : Nat, chan : Seq(Messages)]
  BY <1>1, <1>2
<1>15. Phase \notin {"open", "cut"} /\ Phase' \notin {"open", "cut"}
  BY <1>11
<1> QED
  BY <1>3, <1>4, <1>7, <1>10, <1>11, <1>12, <1>13, <1>14, <1>15, StaysQuiet

LEMMA FetchFailsStep ==
    ASSUME IInv, FetchFails
    PROVE  IInv'
<1>1. /\ TypeInv /\ page \in PageStates /\ StartInv
      /\ link \in [phase : Phases, base : Nat, chan : Seq(Messages)]
  BY DEF IInv, TypeInv
<1>2. /\ page.starting \in {"fetching", "fetched"} /\ link' = link
      /\ page' = [page EXCEPT !.starting = "no", !.body = << >>, !.timer = TRUE]
  BY DEF FetchFails
<1>3. /\ drops' = drops + 1 /\ unheard' = unheard
      /\ UNCHANGED <<hist, disk, floor, written, restarts, missed>>
  BY DEF FetchFails, server
<1>4. drops' \in Nat /\ unheard' \in BOOLEAN
  BY <1>1, <1>3 DEF TypeInv
<1>5. << >> \in Seq(Writes)
  BY EmptySeq
<1>6. /\ page' \in PageStates /\ page'.starting = "no"
      /\ page'.view = page.view /\ page'.seq = page.seq
      /\ page'.failed = page.failed /\ page'.refresh = page.refresh
      /\ page'.queue = page.queue /\ page'.stray = page.stray
      /\ page'.generation = page.generation /\ page'.drains = page.drains
  BY <1>1, <1>2, <1>5 DEF PageStates
<1>7. View' = View /\ Place' = Place /\ Failed' = Failed
  BY <1>6 DEF View, Place, Failed
<1>8. Phase = "none" /\ Phase' = "none" /\ Chan' = Chan
  BY <1>1, <1>2 DEF StartInv, Phase, Chan
<1>9. page.refresh
  BY <1>1, <1>2 DEF StartInv
<1>10. StartInv'
  BY <1>6, <1>8, <1>9 DEF StartInv
<1>11. page'.generation >= page.generation
  BY <1>1, <1>6 DEF PageStates
<1>12. link' \in [phase : Phases, base : Nat, chan : Seq(Messages)]
  BY <1>1, <1>2
<1>13. Phase \notin {"open", "cut"} /\ Phase' \notin {"open", "cut"}
  BY <1>8
<1> QED
  BY <1>3, <1>4, <1>6, <1>7, <1>8, <1>10, <1>11, <1>12, <1>13, StaysQuiet

LEMMA OpenSocketStep ==
    ASSUME IInv, OpenSocket
    PROVE  IInv'
<1>1. /\ TypeInv /\ page \in PageStates /\ StartInv /\ QuietInv
  BY DEF IInv, TypeInv
<1>2. /\ page.starting = "connecting"
      /\ page' = [page EXCEPT !.starting = "no"]
      /\ link' = [NoLink EXCEPT !.phase = "connecting", !.base = page.seq]
  BY DEF OpenSocket
<1>3. /\ drops' = drops /\ unheard' = unheard
      /\ UNCHANGED <<hist, disk, floor, written, restarts, missed>>
  BY DEF OpenSocket, server
<1>4. drops' \in Nat /\ unheard' \in BOOLEAN /\ page.seq \in Nat
  BY <1>1, <1>3 DEF TypeInv, PageStates
<1>5. /\ page' \in PageStates /\ page'.starting = "no"
      /\ page'.view = page.view /\ page'.seq = page.seq
      /\ page'.failed = page.failed /\ page'.refresh = page.refresh
      /\ page'.queue = page.queue /\ page'.stray = page.stray
      /\ page'.generation = page.generation /\ page'.drains = page.drains
  BY <1>1, <1>2 DEF PageStates
<1>6. View' = View /\ Place' = Place /\ Failed' = Failed
  BY <1>5 DEF View, Place, Failed
<1>7. /\ link' \in [phase : Phases, base : Nat, chan : Seq(Messages)]
      /\ link'.phase = "connecting" /\ link'.base = page.seq /\ link'.chan = << >>
  BY <1>2, <1>4, EmptySeq DEF NoLink, Phases
<1>8. Phase = "none" /\ Based
  BY <1>1, <1>2 DEF StartInv
<1>9. Phase' = "connecting" /\ Base' = Place /\ Chan' = << >>
  BY <1>7 DEF Phase, Base, Place, Chan
<1>10. Based'
  BY <1>3, <1>6, <1>8 DEF Based
<1>11. StartInv'
  BY <1>5, <1>6, <1>9, <1>10 DEF StartInv
<1>12. Chan' = Chan
  <2>1. Chan \in Seq(Messages) /\ page.queue \in Seq(Messages)
        /\ Pipe = page.queue \o Chan /\ Pipe = << >>
    BY <1>1, <1>8, Typed DEF QuietInv
  <2>2. \A q, c \in Seq(Messages) : q \o c = << >> => q = << >> /\ c = << >>
    BY ConcatEqualIffEmpty
  <2> QED
    BY <1>9, <2>1, <2>2
<1>13. page'.generation >= page.generation
  BY <1>1, <1>5 DEF PageStates
<1>14. Phase \notin {"open", "cut"} /\ Phase' \notin {"open", "cut"}
  BY <1>8, <1>9
<1> QED
  BY <1>3, <1>4, <1>5, <1>6, <1>7, <1>11, <1>12, <1>13, <1>14, StaysQuiet

LEMMA ConnectFailsStep ==
    ASSUME IInv, ConnectFails
    PROVE  IInv'
<1>1. /\ TypeInv /\ page \in PageStates /\ StartInv
      /\ link \in [phase : Phases, base : Nat, chan : Seq(Messages)]
  BY DEF IInv, TypeInv
<1>2. /\ link.phase = "failed" /\ page' = [page EXCEPT !.timer = TRUE]
      /\ link' = [link EXCEPT !.phase = "dead"]
  BY DEF ConnectFails
<1>3. /\ drops' = drops /\ unheard' = unheard
      /\ UNCHANGED <<hist, disk, floor, written, restarts, missed>>
  BY DEF ConnectFails, server
<1>4. drops' \in Nat /\ unheard' \in BOOLEAN
  BY <1>1, <1>3 DEF TypeInv
<1>5. /\ page' \in PageStates /\ page'.starting = page.starting
      /\ page'.view = page.view /\ page'.seq = page.seq
      /\ page'.failed = page.failed /\ page'.refresh = page.refresh
      /\ page'.queue = page.queue /\ page'.stray = page.stray
      /\ page'.generation = page.generation /\ page'.drains = page.drains
  BY <1>1, <1>2 DEF PageStates
<1>6. View' = View /\ Place' = Place /\ Failed' = Failed
  BY <1>5 DEF View, Place, Failed
<1>7. /\ link' \in [phase : Phases, base : Nat, chan : Seq(Messages)]
      /\ link'.phase = "dead" /\ link'.chan = link.chan
  BY <1>1, <1>2 DEF Phases
<1>8. Phase = "failed" /\ Phase' = "dead" /\ Chan' = Chan
  BY <1>2, <1>7 DEF Phase, Chan
<1>9. page.starting = "no"
  BY <1>1, <1>8 DEF StartInv
<1>10. StartInv'
  BY <1>5, <1>8, <1>9 DEF StartInv
<1>11. page'.generation >= page.generation
  BY <1>1, <1>5 DEF PageStates
<1>12. Phase \notin {"open", "cut"} /\ Phase' \notin {"open", "cut"}
  BY <1>8
<1> QED
  BY <1>3, <1>4, <1>5, <1>6, <1>7, <1>8, <1>10, <1>11, <1>12, StaysQuiet

-----------------------------------------------------------------------------
(* Applying what is heard *)

\* A page that has something to apply has, or had, a joined socket, and is not
\* about to connect.
LEMMA Joined ==
    ASSUME TypeInv, QuietInv, StartInv, Pipe # << >> \/ Stray # << >> \/ Now # << >>
    PROVE  Phase \in {"open", "cut"} /\ page.starting = "no"
<1>1. Phase \in {"open", "cut"}
  BY DEF QuietInv
<1>2. Phase # "none"
  BY <1>1
<1> QED
  BY <1>1, <1>2 DEF StartInv

LEMMA JoinedStays ==
    ASSUME Phase \in {"open", "cut"}, Phase' = Phase, page'.starting = "no"
    PROVE  QuietInv' /\ StartInv'
<1>1. Phase' \notin {"none", "connecting"}
  OBVIOUS
<1>2. StartInv'
  BY <1>1 DEF StartInv
<1> QED
  BY <1>2 DEF QuietInv

LEMMA DeliverStep ==
    ASSUME IInv, Deliver
    PROVE  IInv'
<1>0. /\ TypeInv /\ ServerInv /\ DrainInv /\ QuietInv /\ StartInv /\ PlaceInv
      /\ OrderInv /\ TrueInv /\ WholeInv
  BY DEF IInv
<1>1. /\ page \in PageStates /\ page.queue \in Seq(Messages)
      /\ link \in [phase : Phases, base : Nat, chan : Seq(Messages)]
      /\ link.chan \in Seq(Messages)
  BY <1>0 DEF TypeInv, PageStates
<1>2. /\ UNCHANGED <<hist, disk, floor, written, restarts, missed, unheard, drops>>
      /\ link.chan # << >>
  BY DEF Deliver, server
<1>3. Head(link.chan) \in Messages /\ Tail(link.chan) \in Seq(Messages)
  BY <1>1, <1>2, HeadTailProperties
<1>4. PICK q : q = Append(page.queue, Head(link.chan))
  OBVIOUS
<1>5. PICK c : c = Tail(link.chan)
  OBVIOUS
<1>6. q \in Seq(Messages) /\ c \in Seq(Messages)
  BY <1>1, <1>3, <1>4, <1>5, AppendProperties
<1>7. page' = [page EXCEPT !.queue = q] /\ link' = [link EXCEPT !.chan = c]
  BY <1>4, <1>5 DEF Deliver
<1>8. /\ page' \in PageStates /\ page'.queue = q
      /\ page'.view = page.view /\ page'.seq = page.seq
      /\ page'.failed = page.failed /\ page'.refresh = page.refresh
      /\ page'.stray = page.stray /\ page'.starting = page.starting
      /\ page'.body = page.body
      /\ page'.generation = page.generation /\ page'.drains = page.drains
  BY <1>1, <1>6, <1>7 DEF PageStates
<1>9. /\ link' \in [phase : Phases, base : Nat, chan : Seq(Messages)]
      /\ link'.chan = c /\ link'.phase = link.phase /\ link'.base = link.base
  BY <1>1, <1>6, <1>7
<1>10. Pipe' = Pipe
  <2>1. q \o c = page.queue \o link.chan
    BY <1>1, <1>2, <1>4, <1>5, PipeFacts
  <2> QED
    BY <1>8, <1>9, <2>1 DEF Pipe
<1>11. /\ View' = View /\ Stray' = Stray /\ Place' = Place /\ Failed' = Failed
       /\ Phase' = Phase /\ Base' = Base
  BY <1>8, <1>9 DEF View, Stray, Place, Failed, Phase, Base
<1>12. Now' = Now /\ Reached' = Reached
  BY <1>8 DEF Now, Left, Reached
<1>13. TypeInv'
  BY <1>0, <1>2, <1>8, <1>9 DEF TypeInv
<1>14. ServerInv' /\ DrainInv'
  BY <1>0, <1>2, <1>8 DEF ServerInv, DrainInv, Current
<1>15. QuietInv' /\ PlaceInv' /\ OrderInv'
  BY <1>0, <1>2, <1>10, <1>11, <1>12 DEF QuietInv, PlaceInv, OrderInv
<1>16. TrueInv' /\ WholeInv'
  BY <1>0, <1>2, <1>10, <1>11, <1>12 DEF TrueInv, WholeInv
<1>17. StartInv'
  BY <1>0, <1>2, <1>8, <1>11 DEF StartInv, Based
<1> QED
  BY <1>13, <1>14, <1>15, <1>16, <1>17 DEF IInv

\* The page begins to apply the message that comes next.
LEMMA TakesNext ==
    ASSUME IInv, page' \in PageStates, link' = link,
           UNCHANGED <<hist, disk, floor, written, restarts, missed>>,
           UNCHANGED <<unheard, drops>>,
           View' = View, Stray' = Stray, Place' = Place, Failed' = Failed,
           page'.starting = page.starting, DrainInv',
           Pipe # << >>, Pipe' = Tail(Pipe),
           Now = << >>, Now' = Adds(Pipe[1]), From(Pipe[1]) = Place
    PROVE  IInv'
<1>0. /\ TypeInv /\ ServerInv /\ DrainInv /\ QuietInv /\ StartInv /\ PlaceInv
      /\ OrderInv /\ TrueInv /\ WholeInv
  BY DEF IInv
<1>1. TypeInv'
  BY <1>0 DEF TypeInv
<1>2. NowInv'
  BY <1>1, NowFacts, PTL
<1>3. Phase' = Phase /\ Base' = Base
  BY DEF Phase, Base
<1>4. QuietInv' /\ StartInv'
  BY <1>0, <1>3, Joined, JoinedStays
<1>5. PICK p : p = Pipe'
  OBVIOUS
<1>6. /\ Len(Pipe) \in Nat /\ Len(Pipe) > 0 /\ Len(p) = Len(Pipe) - 1
      /\ \A k \in 1 .. Len(p) : p[k] = Pipe[k + 1] /\ k + 1 \in 1 .. Len(Pipe)
      /\ p = << >> <=> Len(p) = 0
  <2>1. /\ Len(Pipe) \in Nat /\ Len(Pipe) > 0 /\ Len(p) = Len(Pipe) - 1
        /\ p \in Seq(Messages)
        /\ \A k \in 1 .. Len(p) : p[k] = Pipe[k + 1]
    BY <1>0, <1>5, Typed, SeqFacts
  <2>2. p = << >> <=> Len(p) = 0
    BY <2>1, SeqFacts
  <2> QED
    BY <2>1, <2>2
<1>7. 1 \in 1 .. Len(Pipe)
  BY <1>6
<1>8. /\ Place + Len(Adds(Pipe[1])) = To(Pipe[1]) /\ To(Pipe[1]) <= written
      /\ ~Failed
  <2>1. Failed => Place < From(Pipe[1])
    BY <1>0, <1>7 DEF OrderInv
  <2>2. Place \in Nat
    BY <1>0, Typed
  <2> QED
    BY <1>0, <1>7, <2>1, <2>2 DEF OrderInv
<1>9. PICK r : r = Reached'
  OBVIOUS
<1>10. r = To(Pipe[1])
  BY <1>2, <1>8, <1>9 DEF NowInv
<1>11. ServerInv'
  BY <1>0 DEF ServerInv
<1>12. PlaceInv'
  BY <1>0, <1>8, <1>9, <1>10 DEF PlaceInv
<1>13. OrderInv'
  <2>1. \A k \in 1 .. Len(p) :
           /\ From(p[k]) + Len(Adds(p[k])) = To(p[k]) /\ To(p[k]) <= written
    BY <1>0, <1>6 DEF OrderInv
  <2>2. \A k \in 1 .. Len(p) : r <= From(p[k])
    <3> TAKE k \in 1 .. Len(p)
    <3>1. k + 1 \in 1 .. Len(Pipe) /\ 1 < k + 1 /\ p[k] = Pipe[k + 1]
      BY <1>6
    <3> QED
      BY <1>0, <1>7, <1>10, <3>1 DEF OrderInv
  <2>3. ASSUME NEW j \in 1 .. Len(p), NEW k \in 1 .. Len(p), j < k
        PROVE  To(p[j]) <= From(p[k])
    <3>1. /\ j + 1 \in 1 .. Len(Pipe) /\ k + 1 \in 1 .. Len(Pipe) /\ j + 1 < k + 1
          /\ p[j] = Pipe[j + 1] /\ p[k] = Pipe[k + 1]
      BY <1>6, <2>3
    <3> QED
      BY <1>0, <3>1 DEF OrderInv
  <2> QED
    BY <1>5, <1>8, <1>9, <2>1, <2>2, <2>3 DEF OrderInv
<1>14. TrueInv'
  <2> SUFFICES ASSUME Phase = "open"
               PROVE  TrueInv'
    BY <1>3 DEF TrueInv
  <2>1. \A k \in 1 .. Len(Pipe) : Follows(Adds(Pipe[k]), From(Pipe[k]), hist)
    BY <1>0 DEF TrueInv
  <2>2. \A k \in 1 .. Len(p) : Follows(Adds(p[k]), From(p[k]), hist)
    BY <1>6, <2>1
  <2>3. Follows(Now', Place, hist)
    BY <1>7, <2>1
  <2> QED
    BY <1>0, <1>5, <2>2, <2>3 DEF TrueInv
<1>15. WholeInv'
  <2> SUFFICES ASSUME Phase = "open", missed = 0
               PROVE  WholeInv'
    BY <1>3 DEF WholeInv
  <2>1. /\ \A k \in 1 .. Len(Pipe) :
              From(Pipe[k]) = IF k = 1 THEN Reached ELSE To(Pipe[k - 1])
        /\ Len(hist) = To(Pipe[Len(Pipe)])
    BY <1>0, <1>8 DEF WholeInv
  <2>2. ASSUME NEW k \in 1 .. Len(p)
        PROVE  From(p[k]) = IF k = 1 THEN r ELSE To(p[k - 1])
    <3>1. /\ k + 1 \in 1 .. Len(Pipe) /\ k + 1 # 1 /\ p[k] = Pipe[k + 1]
          /\ (k + 1) - 1 = k
      BY <1>6
    <3>2. From(p[k]) = To(Pipe[k])
      BY <2>1, <3>1
    <3>3. CASE k = 1
      BY <1>10, <3>2, <3>3
    <3>4. CASE k # 1
      <4>1. k - 1 \in 1 .. Len(p) /\ (k - 1) + 1 = k
        BY <1>6, <3>4
      <4>2. p[k - 1] = Pipe[k]
        BY <1>6, <4>1
      <4> QED
        BY <3>2, <3>4, <4>2
    <3> QED
      BY <3>3, <3>4
  <2>3. Len(hist) = IF p = << >> THEN r ELSE To(p[Len(p)])
    <3>1. CASE p = << >>
      <4>1. Len(Pipe) = 1
        BY <1>6, <3>1
      <4> QED
        BY <1>10, <2>1, <3>1, <4>1
    <3>2. CASE p # << >>
      <4>1. Len(p) \in 1 .. Len(p) /\ Len(p) + 1 = Len(Pipe)
        BY <1>6, <3>2
      <4>2. p[Len(p)] = Pipe[Len(Pipe)]
        BY <1>6, <4>1
      <4> QED
        BY <2>1, <3>2, <4>2
    <3> QED
      BY <3>1, <3>2
  <2> QED
    BY <1>5, <1>9, <2>2, <2>3 DEF WholeInv
<1> QED
  BY <1>1, <1>4, <1>11, <1>12, <1>13, <1>14, <1>15 DEF IInv

LEMMA GivesUpTwice ==
    ASSUME NEW p \in PageStates, NEW q, NEW r, GivesUp(p, q), GivesUp(q, r)
    PROVE  GivesUp(p, r)
<1>1. \A d \in Activations : Forget(Forget(d)) = Forget(d)
  BY DEF Forget, Activations
<1>2. p.drains \subseteq Activations
  BY DEF PageStates
<1>3. {Forget(d) : d \in q.drains} = {Forget(d) : d \in p.drains}
  <2>1. q.drains = {Forget(d) : d \in p.drains}
    BY DEF GivesUp
  <2> QED
    BY <1>1, <1>2, <2>1
<1>4. /\ p.generation \in Nat /\ q.generation \in Nat /\ r.generation \in Nat
      /\ q.generation > p.generation /\ r.generation > q.generation
  BY DEF GivesUp, PageStates
<1>5. r.generation > p.generation
  BY <1>4
<1> QED
  BY <1>3, <1>5 DEF GivesUp

LEMMA ProcessStep ==
    ASSUME IInv, Process
    PROVE  IInv'
<1>0. /\ TypeInv /\ ServerInv /\ DrainInv /\ QuietInv /\ StartInv /\ PlaceInv
      /\ OrderInv /\ TrueInv /\ WholeInv
  BY DEF IInv
<1>1. /\ page \in PageStates /\ page.queue \in Seq(Messages) /\ page.queue # << >>
      /\ link.chan \in Seq(Messages) /\ page.generation \in Nat
      /\ page.drains \subseteq Activations
  BY <1>0 DEF TypeInv, PageStates, Process
<1>2. /\ UNCHANGED <<hist, disk, floor, written, restarts, missed>>
      /\ unheard' = unheard /\ drops' = drops
  BY DEF Process, server
<1>3. PICK m : m = Head(page.queue)
  OBVIOUS
<1>4. /\ m = Pipe[1] /\ Pipe # << >> /\ Tail(page.queue) \o link.chan = Tail(Pipe)
      /\ m \in Messages /\ 1 \in 1 .. Len(Pipe)
  <2>1. /\ m = Pipe[1] /\ Pipe # << >>
        /\ Tail(page.queue) \o link.chan = Tail(Pipe)
    <3>1. PICK q \in Seq(Messages) : q = page.queue
      BY <1>1
    <3>2. PICK c \in Seq(Messages) : c = link.chan
      BY <1>1
    <3>3. /\ Head(q) = (q \o c)[1] /\ q \o c # << >>
          /\ Tail(q) \o c = Tail(q \o c)
      BY <1>1, <3>1, PipeFacts
    <3> QED
      BY <1>3, <3>1, <3>2, <3>3 DEF Pipe
  <2>2. m \in Messages
    BY <1>1, <1>3, SeqFacts
  <2>3. 1 \in 1 .. Len(Pipe)
    <3>1. Pipe \in Seq(Messages)
      BY <1>0, Typed
    <3>2. Pipe # << >>
      BY <2>1
    <3> QED
      BY <3>1, <3>2, SeqFacts
  <2> QED
    BY <2>1, <2>2, <2>3
<1>5. PICK t : t = Tail(page.queue)
  OBVIOUS
<1>6. t \in Seq(Messages) /\ t \o link.chan = Tail(Pipe)
  BY <1>1, <1>4, <1>5, SeqFacts
<1>7. PICK rest : rest = [page EXCEPT !.queue = t]
  OBVIOUS
<1>8. /\ rest \in PageStates /\ rest.queue = t
      /\ rest.view = page.view /\ rest.seq = page.seq
      /\ rest.failed = page.failed /\ rest.refresh = page.refresh
      /\ rest.stray = page.stray /\ rest.starting = page.starting
      /\ rest.generation = page.generation /\ rest.drains = page.drains
  BY <1>1, <1>6, <1>7 DEF PageStates
<1>9. Now = << >> /\ Reached = Place /\ Place \in Nat /\ ~\E d \in page.drains : Current(d)
  <2>1. ~\E d \in page.drains : Current(d)
    BY DEF Process
  <2>2. Now = << >> /\ Reached = Place + Len(Now)
    BY <1>0, <2>1, NowFacts DEF NowInv
  <2>3. Place \in Nat /\ Len(Now) = 0
    BY <1>0, <2>2, Typed, EmptySeq
  <2>4. \A p \in Nat : p + 0 = p
    OBVIOUS
  <2> QED
    BY <2>1, <2>2, <2>3, <2>4
<1>10. Phase \in {"open", "cut"} /\ page.starting = "no"
  BY <1>0, <1>4, Joined
<1>11. PICK children : children = Adds(m)
  OBVIOUS
<1>12. /\ children \in Seq(Writes) /\ Len(children) \in Nat
       /\ From(m) \in Nat /\ To(m) \in Nat
       /\ children = IF m.kind = "batch" THEN m.children ELSE <<m.mutation>>
       /\ From(m) = IF m.kind = "batch" THEN m.from ELSE m.seq - 1
       /\ To(m) = m.seq
  BY <1>4, <1>11, MessageFacts DEF Adds, From, To
<1>13. PICK drain : drain = [gen |-> page.generation, left |-> children,
                             batch |-> m.kind = "batch", tool |-> "ready"]
  OBVIOUS
<1>14. Place <= From(m) /\ page.seq = Place
  BY <1>0, <1>4, <1>9 DEF OrderInv, Place
<1>15. \/ page' = Starting(Resync(rest), link) /\ link' = NoLink
       \/ /\ From(m) = Place /\ link' = link
          /\ page' = IF children = << >> THEN Caught(rest)
                     ELSE [rest EXCEPT !.drains = page.drains \cup {drain}]
  <2>1. ~(From(m) < page.seq)
    BY <1>12, <1>14, <1>9
  <2>2. PICK kind : kind = (m.kind = "batch")
    OBVIOUS
  <2>3. PICK from : from = From(m)
    OBVIOUS
  <2>4. CASE from # page.seq \/ Len(children) # m.seq - from
    BY <1>3, <1>5, <1>7, <1>12, <2>1, <2>3, <2>4 DEF Process
  <2>5. CASE ~(from # page.seq \/ Len(children) # m.seq - from)
    BY <1>3, <1>5, <1>7, <1>8, <1>12, <1>13, <1>14, <2>1, <2>3, <2>5 DEF Process
  <2> QED
    BY <2>4, <2>5
<1>16. CASE page' = Starting(Resync(rest), link) /\ link' = NoLink
  <2>1. PICK q : q = Resync(rest)
    OBVIOUS
  <2>2. GivesUp(rest, q) /\ q \in PageStates
    BY <1>8, <2>1, ResyncFacts DEF GivesUp
  <2>3. link.phase # "none"
    BY <1>10 DEF Phase
  <2>4. GivesUp(q, page') /\ page'.starting = "fetching"
    BY <1>16, <2>1, <2>2, <2>3, StartingFacts
  <2>5. GivesUp(rest, page')
    BY <1>8, <2>2, <2>4, GivesUpTwice
  <2>6. GivesUp(page, page')
    BY <1>8, <2>5 DEF GivesUp
  <2>7. /\ link' \in [phase : Phases, base : Nat, chan : Seq(Messages)]
        /\ Phase' = "none" /\ Chan' = << >>
    BY <1>16, NoLinkFacts DEF Phase, Chan
  <2>8. drops' \in Nat /\ unheard' \in BOOLEAN
    BY <1>0, <1>2 DEF TypeInv
  <2> QED
    BY <1>2, <2>4, <2>6, <2>7, <2>8, StartsOver
<1>17. ASSUME From(m) = Place, link' = link,
              page' = IF children = << >> THEN Caught(rest)
                      ELSE [rest EXCEPT !.drains = page.drains \cup {drain}]
       PROVE  IInv'
  <2>1. /\ drain \in Activations /\ drain.gen = page.generation
        /\ drain.left = children /\ drain.tool = "ready"
    BY <1>1, <1>12, <1>13 DEF Activations
  <2>2. /\ page' \in PageStates /\ page'.queue = t
        /\ page'.view = page.view /\ page'.seq = page.seq
        /\ page'.failed = page.failed /\ page'.stray = page.stray
        /\ page'.starting = page.starting
        /\ page'.generation = page.generation
        /\ children = << >> => page'.drains = page.drains
        /\ children # << >> => page'.drains = page.drains \cup {drain}
    <3>1. CASE children = << >>
      <4>1. page' = [rest EXCEPT !.awaiting = FALSE, !.refresh = FALSE]
        BY <1>17, <3>1 DEF Caught
      <4> QED
        BY <1>8, <3>1, <4>1 DEF PageStates
    <3>2. CASE children # << >>
      <4>1. PICK e : e = page.drains \cup {drain}
        OBVIOUS
      <4>2. e \in SUBSET Activations
        BY <1>1, <2>1, <4>1
      <4>3. page' = [rest EXCEPT !.drains = e]
        BY <1>17, <3>2, <4>1
      <4> QED
        BY <1>8, <3>2, <4>1, <4>2, <4>3 DEF PageStates
    <3> QED
      BY <3>1, <3>2
  <2>3. DrainInv'
    <3>1. CASE children = << >>
      BY <1>0, <2>2, <3>1 DEF DrainInv, Current
    <3>2. CASE children # << >>
      <4>1. \A d \in page'.drains : d \in page.drains \/ d = drain
        BY <2>2, <3>2
      <4>2. \A d \in page.drains : ~(d.gen = page.generation)
        BY <1>9 DEF Current
      <4>3. /\ drain.left # << >> /\ drain.gen = page.generation
            /\ drain.tool # "forgotten" /\ page.generation <= page.generation
            /\ ~(page.generation < page.generation)
        BY <1>1, <2>1, <3>2
      <4> QED
        BY <1>0, <2>2, <4>1, <4>2, <4>3 DEF DrainInv, Current
    <3> QED
      BY <3>1, <3>2
  <2>4. NowInv'
    <3>1. TypeInv'
      BY <1>0, <1>2, <1>17, <2>2 DEF TypeInv
    <3> QED
      BY <2>3, <3>1, NowFacts, PTL
  <2>5. Now' = children
    <3>1. CASE children = << >>
      <4>1. \A d \in page'.drains : ~Current(d)'
        BY <1>9, <2>2, <3>1 DEF Current
      <4> QED
        BY <2>4, <3>1, <4>1 DEF NowInv
    <3>2. CASE children # << >>
      <4>1. drain \in page'.drains /\ drain.gen = page'.generation
        BY <2>1, <2>2, <3>2
      <4> QED
        BY <2>1, <2>4, <4>1 DEF NowInv, Current
    <3> QED
      BY <3>1, <3>2
  <2>6. View' = View /\ Stray' = Stray /\ Place' = Place /\ Failed' = Failed
    BY <2>2 DEF View, Stray, Place, Failed
  <2>7. Pipe' = Tail(Pipe)
    BY <1>6, <1>17, <2>2 DEF Pipe
  <2> QED
    BY <1>2, <1>4, <1>9, <1>11, <1>17, <2>2, <2>3, <2>5, <2>6, <2>7, TakesNext
<1> QED
  BY <1>15, <1>16, <1>17

LEMMA AwaitToolStep ==
    ASSUME IInv, NEW d \in page.drains, AwaitTool(d)
    PROVE  IInv'
<1>0. /\ TypeInv /\ ServerInv /\ DrainInv /\ QuietInv /\ StartInv /\ PlaceInv
      /\ OrderInv /\ TrueInv /\ WholeInv
  BY DEF IInv
<1>1. /\ page \in PageStates /\ page.drains \subseteq Activations
      /\ d \in Activations /\ page.generation \in Nat
  BY <1>0 DEF TypeInv, PageStates
<1>2. /\ UNCHANGED <<hist, disk, floor, written, restarts, missed, unheard, drops>>
      /\ link' = link /\ d.gen = page.generation /\ d.tool = "ready"
  BY DEF AwaitTool, server, Current
<1>3. PICK e : e = [d EXCEPT !.tool = "pending"]
  OBVIOUS
<1>4. /\ e \in Activations /\ e.gen = d.gen /\ e.left = d.left /\ e.tool = "pending"
  BY <1>1, <1>3 DEF Activations
<1>5. PICK c : c = (page.drains \ {d}) \cup {e}
  OBVIOUS
<1>6. c \in SUBSET Activations
  BY <1>1, <1>4, <1>5
<1>7. page' = [page EXCEPT !.drains = c]
  BY <1>3, <1>5 DEF AwaitTool
<1>8. /\ page' \in PageStates /\ page'.drains = c
      /\ page'.view = page.view /\ page'.seq = page.seq
      /\ page'.failed = page.failed /\ page'.refresh = page.refresh
      /\ page'.stray = page.stray /\ page'.starting = page.starting
      /\ page'.body = page.body /\ page'.queue = page.queue
      /\ page'.generation = page.generation
  BY <1>1, <1>6, <1>7 DEF PageStates
<1>9. DrainInv'
  <2>1. \A x \in c : (x \in page.drains /\ x # d) \/ x = e
    BY <1>5
  <2>2. /\ d.left # << >> /\ d.gen <= page.generation
        /\ ~(d.gen < page.generation)
    BY <1>0, <1>1, <1>2 DEF DrainInv
  <2>3. \A x \in page.drains : x.gen = page.generation => x = d
    BY <1>0, <1>2 DEF DrainInv, Current
  <2>4. \A x \in c : /\ x.left # << >> /\ x.gen <= page.generation
                     /\ x.tool = "forgotten" <=> x.gen < page.generation
    BY <1>0, <1>4, <2>1, <2>2 DEF DrainInv
  <2>5. \A x, y \in c : x.gen = page.generation /\ y.gen = page.generation => x = y
    BY <2>1, <2>3
  <2> QED
    BY <1>8, <2>4, <2>5 DEF DrainInv, Current
<1>10. TypeInv'
  BY <1>0, <1>2, <1>8 DEF TypeInv
<1>11. NowInv' /\ NowInv
  BY <1>0, <1>9, <1>10, NowFacts, PTL
<1>12. Now' = Now
  <2>1. e \in page'.drains /\ e.gen = page'.generation
    BY <1>2, <1>4, <1>5, <1>8
  <2>2. Now' = e.left
    BY <1>11, <2>1 DEF NowInv, Current
  <2>3. Now = d.left
    BY <1>2, <1>11 DEF NowInv, Current
  <2> QED
    BY <1>4, <2>2, <2>3
<1>13. /\ View' = View /\ Stray' = Stray /\ Place' = Place /\ Failed' = Failed
       /\ Phase' = Phase /\ Base' = Base /\ Pipe' = Pipe
  BY <1>2, <1>8 DEF View, Stray, Place, Failed, Phase, Base, Pipe
<1>14. Reached' = Reached
  BY <1>11, <1>12, <1>13 DEF NowInv
<1>15. ServerInv'
  BY <1>0, <1>2 DEF ServerInv
<1>16. QuietInv' /\ PlaceInv' /\ OrderInv'
  BY <1>0, <1>2, <1>12, <1>13, <1>14 DEF QuietInv, PlaceInv, OrderInv
<1>17. TrueInv' /\ WholeInv'
  BY <1>0, <1>2, <1>12, <1>13, <1>14 DEF TrueInv, WholeInv
<1>18. StartInv'
  BY <1>0, <1>2, <1>8, <1>13 DEF StartInv, Based
<1> QED
  BY <1>9, <1>10, <1>15, <1>16, <1>17, <1>18 DEF IInv

\* An activation ends that was told to forget.
LEMMA ForgottenEnds ==
    ASSUME IInv, NEW d \in page.drains, ~Current(d), page' \in PageStates,
           drops' \in Nat, unheard' \in BOOLEAN, link' = link,
           UNCHANGED <<hist, disk, floor, written, restarts, missed>>,
           page'.drains = page.drains \ {d}, page'.generation = page.generation,
           page'.view = page.view, page'.seq = page.seq,
           page'.failed = page.failed, page'.stray = page.stray,
           page'.queue = page.queue, page'.starting = page.starting,
           page'.refresh = page.refresh, page'.body = page.body
    PROVE  IInv'
<1>0. /\ TypeInv /\ ServerInv /\ DrainInv /\ QuietInv /\ StartInv /\ PlaceInv
      /\ OrderInv /\ TrueInv /\ WholeInv
  BY DEF IInv
<1>1. TypeInv'
  BY <1>0 DEF TypeInv
<1>2. DrainInv'
  BY <1>0 DEF DrainInv, Current
<1>3. NowInv' /\ NowInv
  BY <1>0, <1>1, <1>2, NowFacts, PTL
<1>4. Now' = Now
  <2>1. CASE Now = << >>
    <3>1. \A c \in page'.drains : ~Current(c)'
      BY <1>3, <2>1 DEF NowInv, Current
    <3> QED
      BY <1>3, <2>1, <3>1 DEF NowInv
  <2>2. CASE Now # << >>
    <3>1. PICK c \in page.drains : Current(c)
      BY <1>3, <2>2 DEF NowInv
    <3>2. c \in page'.drains /\ Current(c)'
      BY <3>1 DEF Current
    <3> QED
      BY <1>3, <3>1, <3>2 DEF NowInv
  <2> QED
    BY <2>1, <2>2
<1>5. /\ View' = View /\ Stray' = Stray /\ Place' = Place /\ Failed' = Failed
      /\ Phase' = Phase /\ Base' = Base /\ Pipe' = Pipe
  BY DEF View, Stray, Place, Failed, Phase, Base, Pipe
<1>6. Reached' = Reached
  BY <1>3, <1>4, <1>5 DEF NowInv
<1>7. ServerInv'
  BY <1>0 DEF ServerInv
<1>8. QuietInv' /\ PlaceInv' /\ OrderInv'
  BY <1>0, <1>4, <1>5, <1>6 DEF QuietInv, PlaceInv, OrderInv
<1>9. TrueInv' /\ WholeInv'
  BY <1>0, <1>4, <1>5, <1>6 DEF TrueInv, WholeInv
<1>10. StartInv'
  BY <1>0, <1>5 DEF StartInv, Based
<1> QED
  BY <1>1, <1>2, <1>7, <1>8, <1>9, <1>10 DEF IInv

LEMMA DrawStep ==
    ASSUME IInv, NEW d \in page.drains, Draw(d)
    PROVE  IInv'
<1>0. /\ TypeInv /\ ServerInv /\ DrainInv /\ QuietInv /\ StartInv /\ PlaceInv
      /\ OrderInv /\ TrueInv /\ WholeInv
  BY DEF IInv
<1>1. /\ page \in PageStates /\ page.drains \subseteq Activations
      /\ d \in Activations /\ page.generation \in Nat /\ d.gen \in Nat
      /\ page.view \in Seq(Writes) /\ page.seq \in Nat
      /\ d.left \in Seq(Writes) /\ d.left # << >>
  BY <1>0 DEF TypeInv, PageStates, Activations, DrainInv
<1>2. /\ UNCHANGED <<hist, disk, floor, written, restarts, missed>>
      /\ unheard' = unheard /\ drops' = drops /\ link' = link /\ Advance(d)
  BY DEF Draw, server
<1>3. drops' \in Nat /\ unheard' \in BOOLEAN
  BY <1>0, <1>2 DEF TypeInv
<1>4. /\ d.tool = "forgotten" <=> ~Current(d)
      /\ d.gen <= page.generation
  BY <1>0, <1>1 DEF DrainInv, Current
<1>5. PICK others : others = page.drains \ {d}
  OBVIOUS
<1>6. others \in SUBSET Activations
  BY <1>1, <1>5
<1>7. CASE ~Current(d)
  <2>1. page' = [page EXCEPT !.view = page.view, !.drains = others]
    BY <1>2, <1>4, <1>5, <1>7 DEF Advance
  <2>2. /\ page' \in PageStates /\ page'.drains = others
        /\ page'.view = page.view /\ page'.seq = page.seq
        /\ page'.failed = page.failed /\ page'.refresh = page.refresh
        /\ page'.stray = page.stray /\ page'.starting = page.starting
        /\ page'.body = page.body /\ page'.queue = page.queue
        /\ page'.generation = page.generation
    BY <1>1, <1>6, <2>1 DEF PageStates
  <2> QED
    BY <1>2, <1>3, <1>5, <1>7, <2>2, ForgottenEnds
<1>8. CASE Current(d)
  <2>1. PICK r : r = Tail(d.left)
    OBVIOUS
  <2>2. PICK x : x = Head(d.left)
    OBVIOUS
  <2>3. PICK v : v = Append(page.view, x)
    OBVIOUS
  <2>4. /\ x \in Writes /\ r \in Seq(Writes) /\ Len(r) \in Nat
        /\ Len(d.left) = Len(r) + 1 /\ Len(d.left) \in Nat
    <3>1. /\ x \in Writes /\ r \in Seq(Writes) /\ Len(r) = Len(d.left) - 1
          /\ Len(d.left) \in Nat
      BY <1>1, <2>1, <2>2, SeqFacts
    <3>2. Len(r) \in Nat
      BY <3>1, LenProperties
    <3> QED
      BY <3>1, <3>2
  <2>5. /\ v \in Seq(Writes) /\ Len(v) = Len(page.view) + 1
        /\ \A i \in 1 .. Len(page.view) : v[i] = page.view[i]
        /\ v[Len(page.view) + 1] = x /\ Len(page.view) \in Nat
    BY <1>1, <2>3, <2>4, AppendProperties, LenProperties
  <2>6. PICK next : next = [d EXCEPT !.left = r, !.tool = "ready"]
    OBVIOUS
  <2>7. next \in Activations /\ next.left = r /\ next.gen = d.gen
        /\ next.tool = "ready"
    BY <1>1, <2>4, <2>6 DEF Activations
  <2>8. PICK n : n = page.seq + 1
    OBVIOUS
  <2>9. PICK c : c = IF r # << >> THEN others \cup {next} ELSE others
    OBVIOUS
  <2>10. c \in SUBSET Activations /\ n \in Nat
    BY <1>1, <1>6, <2>7, <2>8, <2>9
  <2>11. PICK moved : moved = [page EXCEPT !.view = v, !.seq = n, !.drains = c]
    OBVIOUS
  <2>12. /\ moved \in PageStates /\ moved.view = v /\ moved.seq = n
         /\ moved.drains = c /\ moved.failed = page.failed
         /\ moved.stray = page.stray /\ moved.starting = page.starting
         /\ moved.queue = page.queue /\ moved.generation = page.generation
    BY <1>1, <2>5, <2>10, <2>11 DEF PageStates
  <2>13. page' = moved \/ page' = [moved EXCEPT !.awaiting = FALSE,
                                                !.refresh = FALSE]
    <3>1. d.tool # "forgotten"
      BY <1>4, <1>8
    <3>2. CASE r # << >>
      BY <1>2, <1>5, <1>8, <2>1, <2>2, <2>3, <2>6, <2>7, <2>8, <2>9, <2>11, <3>1, <3>2
      DEF Advance
    <3>3. CASE r = << >>
      BY <1>2, <1>5, <1>8, <2>1, <2>2, <2>3, <2>6, <2>7, <2>8, <2>9, <2>11, <3>1, <3>3
      DEF Advance, Caught
    <3> QED
      BY <3>2, <3>3
  <2>14. /\ page' \in PageStates /\ page'.view = v /\ page'.seq = n
         /\ page'.drains = c /\ page'.failed = page.failed
         /\ page'.stray = page.stray /\ page'.starting = page.starting
         /\ page'.queue = page.queue /\ page'.generation = page.generation
    <3>1. CASE page' = moved
      BY <2>12, <3>1
    <3>2. CASE page' = [moved EXCEPT !.awaiting = FALSE, !.refresh = FALSE]
      BY <2>12, <3>2 DEF PageStates
    <3> QED
      BY <2>13, <3>1, <3>2
  <2>15. /\ View' = v /\ Place' = n /\ Failed' = Failed /\ Stray' = Stray
         /\ Phase' = Phase /\ Pipe' = Pipe /\ n = Place + 1 /\ View = page.view
         /\ Place = page.seq
    BY <1>2, <2>8, <2>14 DEF View, Place, Failed, Stray, Phase, Pipe
  <2>16. DrainInv'
    <3>1. \A y \in c : (y \in page.drains /\ y # d) \/ (y = next /\ r # << >>)
      BY <1>5, <2>9
    <3>2. d.gen = page.generation /\ ~(d.gen < page.generation)
      BY <1>1, <1>8 DEF Current
    <3>3. \A y \in page.drains : y.gen = page.generation => y = d
      BY <1>0, <1>8 DEF DrainInv, Current
    <3>4. \A y \in c : /\ y.left # << >> /\ y.gen <= page.generation
                       /\ y.tool = "forgotten" <=> y.gen < page.generation
      BY <1>0, <1>4, <2>7, <3>1, <3>2 DEF DrainInv
    <3>5. \A y, z \in c : y.gen = page.generation /\ z.gen = page.generation => y = z
      BY <3>1, <3>3
    <3> QED
      BY <2>14, <3>4, <3>5 DEF DrainInv, Current
  <2>17. TypeInv'
    BY <1>0, <1>2, <2>14 DEF TypeInv
  <2>18. NowInv' /\ NowInv
    BY <1>0, <2>16, <2>17, NowFacts, PTL
  <2>19. Now = d.left
    BY <1>8, <2>18 DEF NowInv
  <2>20. Now' = r
    <3>1. CASE r = << >>
      <4>1. \A y \in page'.drains : ~Current(y)'
        <5>1. \A y \in c : y \in page.drains /\ y # d
          BY <1>5, <2>9, <3>1
        <5>2. \A y \in page.drains : y.gen = page.generation => y = d
          BY <1>0, <1>8 DEF DrainInv, Current
        <5> QED
          BY <2>14, <5>1, <5>2 DEF Current
      <4> QED
        BY <2>18, <3>1, <4>1 DEF NowInv
    <3>2. CASE r # << >>
      <4>1. next \in page'.drains /\ next.gen = page'.generation
        BY <1>8, <2>7, <2>9, <2>14, <3>2 DEF Current
      <4> QED
        BY <2>7, <2>18, <4>1 DEF NowInv, Current
    <3> QED
      BY <3>1, <3>2
  <2>21. PICK reached : reached = Reached'
    OBVIOUS
  <2>22. /\ reached = Reached /\ Reached = Place + Len(Now) /\ Len(Now) = Len(r) + 1
         /\ Place \in Nat /\ Reached \in Nat
    <3>1. Reached = Place + Len(Now) /\ Place \in Nat /\ Reached \in Nat
          /\ Len(Now) \in Nat
      BY <1>0, <2>18, Typed DEF NowInv
    <3>2. Len(Now) = Len(r) + 1
      BY <2>4, <2>19
    <3>3. reached = n + Len(r)
      BY <2>15, <2>18, <2>20, <2>21 DEF NowInv
    <3> QED
      BY <2>4, <2>15, <3>1, <3>2, <3>3
  <2>23. Now # << >> /\ ~Failed /\ Stray = << >> /\ Len(View) = Place
    BY <1>0, <1>1, <2>19 DEF PlaceInv
  <2>24. QuietInv' /\ StartInv'
    BY <1>0, <2>14, <2>15, <2>23, Joined, JoinedStays
  <2>25. ServerInv'
    BY <1>0, <1>2 DEF ServerInv
  <2>26. Len(v) = n /\ n <= Reached /\ Len(Stray) = 0
    BY <2>4, <2>5, <2>15, <2>22, <2>23, EmptySeq
  <2>27. PlaceInv'
    <3>1. Reached <= written /\ written \in Nat
      BY <1>0, Typed DEF PlaceInv
    <3>2. Len(v) + Len(Stray) <= written
      BY <2>10, <2>22, <2>26, <3>1
    <3> QED
      BY <1>2, <2>15, <2>21, <2>22, <2>23, <2>26, <3>1, <3>2 DEF PlaceInv
  <2>28. OrderInv'
    BY <1>0, <1>2, <2>15, <2>21, <2>22, <2>23 DEF OrderInv
  <2>29. WholeInv'
    BY <1>0, <1>2, <2>15, <2>21, <2>22, <2>23 DEF WholeInv
  <2>30. TrueInv'
    <3> SUFFICES ASSUME Phase = "open"
                 PROVE  TrueInv'
      BY <2>15 DEF TrueInv
    <3>1. hist \in Seq(Writes) /\ Len(hist) \in Nat
      BY <1>0, Typed
    <3>2. Begins(View, hist) /\ Follows(Now, Place, hist)
      BY <1>0 DEF TrueInv
    <3>3. x = hist[n] /\ n <= Len(hist) /\ Follows(r, n, hist)
      BY <1>1, <2>1, <2>2, <2>15, <2>19, <2>22, <3>1, <3>2, FollowsFacts
    <3>4. \A i \in 1 .. Len(v) : v[i] = hist[0 + i]
      <4> TAKE i \in 1 .. Len(v)
      <4>1. CASE i = n
        BY <2>5, <2>15, <2>23, <3>3, <4>1
      <4>2. CASE i # n
        <5>1. i \in 1 .. Len(View)
          BY <2>5, <2>15, <2>26, <4>2
        <5> QED
          BY <2>5, <2>15, <3>2, <5>1 DEF Begins, Follows
      <4> QED
        BY <4>1, <4>2
    <3>5. Begins(v, hist)
      BY <2>26, <2>10, <3>1, <3>3, <3>4 DEF Begins, Follows
    <3>6. Follows(Stray, Len(v), hist)
      BY <2>10, <2>23, <2>26, <3>1, <3>3, EmptyFollows
    <3> QED
      BY <1>0, <1>2, <2>15, <2>20, <2>23, <3>3, <3>5, <3>6 DEF TrueInv
  <2> QED
    BY <2>16, <2>17, <2>24, <2>25, <2>27, <2>28, <2>29, <2>30 DEF IInv
<1> QED
  BY <1>7, <1>8

LEMMA DrawFailsStep ==
    ASSUME IInv, NEW d \in page.drains, NEW kept \in BOOLEAN, DrawFails(d, kept)
    PROVE  IInv'
<1>0. /\ TypeInv /\ ServerInv /\ DrainInv /\ QuietInv /\ StartInv /\ PlaceInv
      /\ OrderInv /\ TrueInv /\ WholeInv
  BY DEF IInv
<1>1. /\ page \in PageStates /\ page.drains \subseteq Activations
      /\ d \in Activations /\ page.failed \in BOOLEAN
      /\ page.stray \in Seq(Writes) /\ page.seq \in Nat /\ page.generation \in Nat
      /\ d.left \in Seq(Writes) /\ d.left # << >>
  BY <1>0 DEF TypeInv, PageStates, Activations, DrainInv
<1>2. /\ UNCHANGED <<hist, disk, floor, written, restarts, missed>>
      /\ drops' = drops + 1 /\ unheard' \in BOOLEAN /\ link' = link
  BY <1>0 DEF DrawFails, TypeInv
<1>3. drops' \in Nat
  BY <1>0, <1>2 DEF TypeInv
<1>4. PICK c : c = page.drains \ {d}
  OBVIOUS
<1>5. PICK failed \in BOOLEAN : failed = (page.failed \/ Current(d))
  BY <1>1
<1>6. PICK stray : stray = IF kept THEN <<Head(d.left)>> ELSE page.stray
  OBVIOUS
<1>7. /\ stray \in Seq(Writes)
      /\ kept => Len(stray) = 1 /\ stray[1] = Head(d.left)
      /\ ~kept => stray = page.stray
  <2>1. Head(d.left) \in Writes
    BY <1>1, SeqFacts
  <2> QED
    BY <1>1, <1>6, <2>1
<1>8. page' = [page EXCEPT !.drains = c, !.failed = failed, !.stray = stray]
  BY <1>4, <1>5, <1>6 DEF DrawFails
<1>9. /\ page' \in PageStates /\ page'.drains = c /\ page'.failed = failed
      /\ page'.stray = stray
      /\ page'.view = page.view /\ page'.seq = page.seq
      /\ page'.refresh = page.refresh /\ page'.starting = page.starting
      /\ page'.body = page.body /\ page'.queue = page.queue
      /\ page'.generation = page.generation
  BY <1>1, <1>4, <1>7, <1>8 DEF PageStates
<1>10. kept => Current(d)
  BY DEF DrawFails
<1>11. CASE ~Current(d)
  <2>1. failed = page.failed /\ stray = page.stray
    BY <1>1, <1>5, <1>7, <1>10, <1>11
  <2> QED
    BY <1>2, <1>3, <1>4, <1>9, <1>11, <2>1, ForgottenEnds
<1>12. CASE Current(d)
  <2>1. /\ View' = View /\ Place' = Place /\ Failed' = failed /\ Stray' = stray
        /\ Phase' = Phase /\ Pipe' = Pipe /\ failed /\ Stray = page.stray
    BY <1>2, <1>5, <1>9, <1>12 DEF View, Place, Failed, Stray, Phase, Pipe
  <2>2. DrainInv' /\ \A e \in page'.drains : ~Current(e)'
    <3>1. \A e \in page.drains : Current(e) => e = d
      BY <1>0, <1>12 DEF DrainInv
    <3> QED
      BY <1>0, <1>4, <1>9, <3>1 DEF DrainInv, Current
  <2>3. TypeInv'
    BY <1>0, <1>2, <1>3, <1>9 DEF TypeInv
  <2>4. NowInv' /\ NowInv
    BY <1>0, <2>2, <2>3, NowFacts, PTL
  <2>5. Now = d.left /\ Now' = << >>
    BY <1>12, <2>2, <2>4 DEF NowInv
  <2>6. Now # << >> /\ ~Failed /\ Stray = << >> /\ Len(View) = Place
    BY <1>0, <1>1, <2>5 DEF PlaceInv
  <2>7. PICK reached : reached = Reached'
    OBVIOUS
  <2>8. /\ Place \in Nat /\ Reached \in Nat /\ Place + 1 <= Reached
        /\ reached = Place /\ written \in Nat /\ Reached <= written
    <3>1. /\ Place \in Nat /\ Reached \in Nat /\ Reached = Place + Len(Now)
          /\ Len(Now) \in Nat /\ written \in Nat /\ Reached <= written
      BY <1>0, <2>4, Typed DEF NowInv, PlaceInv
    <3>2. Len(Now) # 0
      BY <2>4, <2>6, SeqFacts DEF NowInv
    <3>3. reached = Place + Len(Now')
      BY <2>1, <2>4, <2>7 DEF NowInv
    <3>4. Len(Now') = 0
      BY <2>5, EmptySeq
    <3>5. \A p \in Nat : p + 0 = p
      OBVIOUS
    <3> QED
      BY <3>1, <3>2, <3>3, <3>4, <3>5
  <2>9. /\ stray # << >> => Len(stray) = 1
        /\ Len(stray) \in {0, 1}
    BY <1>7, <2>1, <2>6, EmptySeq
  <2>10. QuietInv' /\ StartInv'
    BY <1>0, <1>9, <2>1, <2>6, Joined, JoinedStays
  <2>11. ServerInv'
    BY <1>0, <1>2 DEF ServerInv
  <2>12. PlaceInv'
    <3>1. Place + 1 <= written
      BY <2>8
    <3>2. \A p, w \in Nat : \A l \in {0, 1} : p + 1 <= w => p + l <= w
      OBVIOUS
    <3>3. Place + Len(stray) <= written
      BY <2>8, <2>9, <3>1, <3>2
    <3> QED
      BY <1>2, <2>1, <2>5, <2>6, <2>7, <2>8, <2>9, <3>3 DEF PlaceInv
  <2>13. OrderInv'
    <3>1. \A k \in 1 .. Len(Pipe) :
             Place <= From(Pipe[k]) /\ Place < From(Pipe[k])
      <4>1. \A k \in 1 .. Len(Pipe) : Reached <= From(Pipe[k]) /\ From(Pipe[k]) \in Nat
        BY <1>0, Typed DEF OrderInv
      <4> QED
        BY <2>8, <4>1
    <3> QED
      BY <1>0, <1>2, <2>1, <2>7, <2>8, <3>1 DEF OrderInv
  <2>14. WholeInv'
    BY <2>1 DEF WholeInv
  <2>15. TrueInv'
    <3> SUFFICES ASSUME Phase = "open"
                 PROVE  TrueInv'
      BY <2>1 DEF TrueInv
    <3>1. hist \in Seq(Writes) /\ Len(hist) \in Nat
      BY <1>0, Typed
    <3>2. Begins(View, hist) /\ Follows(Now, Place, hist)
      BY <1>0 DEF TrueInv
    <3>3. Head(Now) = hist[Place + 1] /\ Place + 1 <= Len(hist)
      BY <2>4, <2>6, <2>8, <3>1, <3>2, FollowsFacts DEF NowInv
    <3>4. Follows(stray, Place, hist)
      <4>1. CASE kept
        <5>1. Len(stray) = 1 /\ stray[1] = hist[Place + 1]
          BY <1>7, <2>5, <3>3, <4>1
        <5> QED
          BY <2>8, <3>1, <3>3, <5>1 DEF Follows
      <4>2. CASE ~kept
        BY <1>7, <2>1, <2>6, <2>8, <3>1, <3>3, <4>2, EmptyFollows
      <4> QED
        BY <4>1, <4>2
    <3>5. Follows(<< >>, Place, hist)
      BY <2>8, <3>1, <3>3, EmptyFollows
    <3>6. Place < Len(hist)
      BY <2>8, <3>1, <3>3
    <3> QED
      BY <1>0, <1>2, <2>1, <2>5, <2>6, <3>2, <3>4, <3>5, <3>6 DEF TrueInv
  <2> QED
    BY <2>2, <2>3, <2>10, <2>11, <2>12, <2>13, <2>14, <2>15 DEF IInv
<1> QED
  BY <1>11, <1>12

LEMMA MountLateStep ==
    ASSUME IInv, MountLate
    PROVE  IInv'
<1>0. /\ TypeInv /\ ServerInv /\ DrainInv /\ QuietInv /\ StartInv /\ PlaceInv
      /\ OrderInv /\ TrueInv /\ WholeInv
  BY DEF IInv
<1>1. /\ page \in PageStates /\ page.view \in Seq(Writes)
      /\ page.stray \in Seq(Writes)
  BY <1>0 DEF TypeInv, PageStates
<1>2. /\ UNCHANGED <<hist, disk, floor, written, restarts, missed, unheard, drops>>
      /\ link' = link /\ Stray # << >>
  BY DEF MountLate, server, Stray
<1>3. PICK v : v = page.view \o page.stray
  OBVIOUS
<1>4. /\ v \in Seq(Writes) /\ Len(v) = Len(View) + Len(Stray)
      /\ \A i \in 1 .. Len(View) + Len(Stray) : v[i] = IF i <= Len(View) THEN View[i]
                                                       ELSE Stray[i - Len(View)]
  BY <1>1, <1>3, ConcatProperties DEF View, Stray
<1>5. << >> \in Seq(Writes) /\ Len(<< >>) = 0
  BY EmptySeq
<1>6. page' = [page EXCEPT !.view = v, !.stray = << >>]
  BY <1>3 DEF MountLate
<1>7. /\ page' \in PageStates /\ page'.view = v /\ page'.stray = << >>
      /\ page'.failed = page.failed /\ page'.seq = page.seq
      /\ page'.starting = page.starting /\ page'.queue = page.queue
      /\ page'.drains = page.drains /\ page'.generation = page.generation
  BY <1>1, <1>4, <1>5, <1>6 DEF PageStates
<1>8. /\ View' = v /\ Place' = Place /\ Failed' = Failed /\ Stray' = << >>
      /\ Phase' = Phase /\ Pipe' = Pipe
  BY <1>2, <1>7 DEF View, Place, Failed, Stray, Phase, Pipe
<1>9. Now' = Now /\ Reached' = Reached
  BY <1>7 DEF Now, Left, Reached
<1>10. /\ Failed /\ Len(Stray) = 1 /\ Len(View) = Place /\ Len(v) = Place + 1
       /\ Place \in Nat /\ written \in Nat /\ Len(v) <= written
  BY <1>0, <1>2, <1>4, Typed DEF PlaceInv
<1>11. TypeInv'
  BY <1>0, <1>2, <1>7 DEF TypeInv
<1>12. ServerInv' /\ DrainInv'
  BY <1>0, <1>2, <1>7 DEF ServerInv, DrainInv, Current
<1>13. QuietInv' /\ StartInv'
  BY <1>0, <1>2, <1>7, <1>8, Joined, JoinedStays
<1>14. PlaceInv'
  <2>1. PICK e : e = Stray'
    OBVIOUS
  <2>2. e = << >> /\ Len(e) = 0 /\ Len(v) + Len(e) <= written
    BY <1>5, <1>8, <1>10, <2>1
  <2> QED
    BY <1>0, <1>2, <1>8, <1>9, <1>10, <2>1, <2>2 DEF PlaceInv
<1>15. OrderInv' /\ WholeInv'
  BY <1>0, <1>2, <1>8, <1>9, <1>10 DEF OrderInv, WholeInv
<1>16. TrueInv'
  <2> SUFFICES ASSUME Phase = "open"
               PROVE  TrueInv'
    BY <1>8 DEF TrueInv
  <2>1. hist \in Seq(Writes) /\ Len(hist) \in Nat
    BY <1>0, Typed
  <2>2. Begins(View, hist) /\ Follows(Stray, Len(View), hist)
    BY <1>0 DEF TrueInv
  <2>3. Place + 1 <= Len(hist) /\ Stray[1] = hist[Place + 1]
    BY <1>10, <2>1, <2>2 DEF Follows
  <2>4. \A i \in 1 .. Len(v) : v[i] = hist[0 + i]
    <3> TAKE i \in 1 .. Len(v)
    <3>1. CASE i = Place + 1
      BY <1>4, <1>10, <2>3, <3>1
    <3>2. CASE i # Place + 1
      <4>1. i \in 1 .. Len(View) /\ i <= Len(View)
        BY <1>10, <3>2
      <4> QED
        BY <1>4, <1>10, <2>2, <4>1 DEF Begins, Follows
    <3> QED
      BY <3>1, <3>2
  <2>5. Begins(v, hist)
    BY <1>10, <2>1, <2>3, <2>4 DEF Begins, Follows
  <2>6. Follows(<< >>, Len(v), hist)
    BY <1>10, <2>1, <2>3, EmptyFollows
  <2> QED
    BY <1>0, <1>2, <1>8, <1>9, <2>5, <2>6 DEF TrueInv
<1> QED
  BY <1>11, <1>12, <1>13, <1>14, <1>15, <1>16 DEF IInv

LEMMA InitIInv == Init => IInv
<1> SUFFICES ASSUME Init
             PROVE  IInv
  OBVIOUS
<1>1. /\ hist = << >> /\ disk = << >> /\ floor = 0 /\ link = NoLink
      /\ written = 0 /\ drops = 0 /\ restarts = 0 /\ missed = 0 /\ unheard = FALSE
  BY DEF Init
<1>2. << >> \in Seq(Writes) /\ << >> \in Seq(Messages) /\ Len(<< >>) = 0
  BY EmptySeq
<1>3. /\ page \in PageStates /\ page.view = << >> /\ page.stray = << >>
      /\ page.seq = 0 /\ page.failed = FALSE /\ page.drains = {}
      /\ page.queue = << >> /\ page.starting = "no"
  BY <1>2 DEF Init, PageStates
<1>4. TypeInv
  BY <1>1, <1>2, <1>3, NoLinkFacts DEF TypeInv
<1>5. /\ View = << >> /\ Stray = << >> /\ Place = 0 /\ ~Failed
      /\ Phase = "none" /\ Pipe = << >>
  BY <1>1, <1>3, NoLinkFacts, ConcatEmptySeq, <1>2
  DEF View, Stray, Place, Failed, Phase, Pipe
<1>6. DrainInv
  BY <1>3 DEF DrainInv
<1>7. Now = << >>
  BY <1>3, <1>4, <1>6, NowFacts DEF NowInv
<1>8. Reached = 0
  BY <1>2, <1>4, <1>5, <1>6, <1>7, NowFacts DEF NowInv
<1>9. Begins(<< >>, << >>)
  BY <1>2 DEF Begins, Follows
<1>10. ServerInv
  BY <1>1, <1>2, <1>9, BoardSyncAssumption DEF ServerInv
<1>11. QuietInv /\ TrueInv /\ WholeInv
  BY <1>5, <1>7 DEF QuietInv, TrueInv, WholeInv
<1>12. StartInv
  BY <1>1, <1>2, <1>3, <1>5, <1>9 DEF StartInv, Based
<1>13. PlaceInv
  BY <1>1, <1>2, <1>5, <1>7, <1>8 DEF PlaceInv
<1>14. OrderInv
  BY <1>2, <1>5 DEF OrderInv
<1> QED
  BY <1>4, <1>6, <1>10, <1>11, <1>12, <1>13, <1>14 DEF IInv

LEMMA NextIInv == IInv /\ [Next]_vars => IInv'
<1> SUFFICES ASSUME IInv, [Next]_vars
             PROVE  IInv'
  OBVIOUS
<1>1. CASE \E told \in BOOLEAN : Write(told)
  BY <1>1, WriteStep
<1>2. CASE \E n \in 0 .. MaxWrites : Save(n)
  BY <1>2, SaveStep
<1>3. CASE \E n \in 0 .. MaxWrites + 1 : Drop(n)
  BY <1>3, DropStep
<1>4. CASE Handshake \/ Restart
  BY <1>4, HandshakeStep, RestartStep
<1>5. CASE Start \/ RefreshAccess \/ ServeBaseline \/ BaselineArrives \/ FetchFails
  BY <1>5, StartStep, RefreshAccessStep, ServeBaselineStep, BaselineArrivesStep,
     FetchFailsStep
<1>6. CASE OpenSocket \/ Refused \/ ConnectFails \/ Disconnected
  BY <1>6, OpenSocketStep, RefusedStep, ConnectFailsStep, DisconnectedStep
<1>7. CASE Deliver \/ Process \/ MountLate
  BY <1>7, DeliverStep, ProcessStep, MountLateStep
<1>8. CASE \E d \in page.drains : \/ AwaitTool(d) \/ Draw(d)
                                  \/ \E kept \in BOOLEAN : DrawFails(d, kept)
  BY <1>8, AwaitToolStep, DrawStep, DrawFailsStep
<1>9. CASE UNCHANGED vars
  <2>1. /\ UNCHANGED <<hist, disk, floor, written, restarts, missed>>
        /\ unheard' = unheard /\ drops' = drops /\ link' = link /\ page' = page
    BY <1>9 DEF vars
  <2>2. /\ PageSame /\ Phase' = Phase /\ Base' = Base /\ Pipe' = Pipe
    BY <2>1, SamePage DEF Phase, Base, Pipe
  <2>3. /\ TypeInv /\ ServerInv /\ DrainInv /\ QuietInv /\ StartInv /\ PlaceInv
        /\ OrderInv /\ TrueInv /\ WholeInv
    BY DEF IInv
  <2>4. TypeInv' /\ ServerInv' /\ DrainInv'
    BY <2>1, <2>3 DEF TypeInv, ServerInv, DrainInv, Current
  <2>5. QuietInv' /\ StartInv' /\ PlaceInv'
    BY <2>1, <2>2, <2>3 DEF QuietInv, StartInv, Based, PlaceInv, PageSame
  <2>6. OrderInv' /\ TrueInv' /\ WholeInv'
    BY <2>1, <2>2, <2>3 DEF OrderInv, TrueInv, WholeInv, PageSame
  <2> QED
    BY <2>4, <2>5, <2>6 DEF IInv
<1> QED
  BY <1>1, <1>2, <1>3, <1>4, <1>5, <1>6, <1>7, <1>8, <1>9 DEF Next

THEOREM Invariance == Spec => []IInv
BY InitIInv, NextIInv, PTL DEF Spec

-----------------------------------------------------------------------------
(* The properties of the page *)

\* What is left to apply fits the bound: of the current activation because of
\* IInv, of the others because it was theirs already.
LeftInv == \A d \in page.drains : Len(d.left) <= MaxWrites

Leftovers ==
    \A d \in page'.drains : Current(d)' \/ \E e \in page.drains : d.left = e.left

LEMMA SameLeft ==
    ASSUME page'.drains \subseteq page.drains
    PROVE  Leftovers
BY DEF Leftovers

LEMMA GivesUpLeft ==
    ASSUME NEW p \in PageStates, GivesUp(p, page'), p.drains = page.drains
    PROVE  Leftovers
<1>1. \A e \in Activations : Forget(e).left = e.left
  BY DEF Forget, Activations
<1>2. p.drains \subseteq Activations
  BY DEF PageStates
<1> QED
  BY <1>1, <1>2 DEF GivesUp, Leftovers

LEMMA ProcessLeft ==
    ASSUME TypeInv, Process
    PROVE  Leftovers
<1>1. page \in PageStates /\ page.drains \subseteq Activations
  BY DEF TypeInv, PageStates
<1>2. PICK m : m = Head(page.queue)
  OBVIOUS
<1>3. PICK rest : rest = [page EXCEPT !.queue = Tail(@)]
  OBVIOUS
<1>4. /\ rest \in PageStates /\ rest.drains = page.drains
      /\ rest.generation = page.generation
  <2>1. page.queue \in Seq(Messages) /\ page.queue # << >>
    BY <1>1 DEF PageStates, Process
  <2>2. PICK t \in Seq(Messages) : t = Tail(page.queue)
    BY <2>1, SeqFacts
  <2> QED
    BY <1>1, <1>3, <2>2 DEF PageStates
<1>5. PICK children : children = IF m.kind = "batch" THEN m.children
                                 ELSE <<m.mutation>>
  OBVIOUS
<1>6. PICK e : e = [gen |-> page.generation, left |-> children,
                    batch |-> (m.kind = "batch"), tool |-> "ready"]
  OBVIOUS
<1>7. \/ page' = rest
      \/ page' = Starting(Resync(rest), link)
      \/ page' = Caught(rest)
      \/ page' = [rest EXCEPT !.drains = page.drains \cup {e}]
  BY <1>2, <1>3, <1>4, <1>5, <1>6 DEF Process
<1>8. CASE page' = rest \/ page' = Caught(rest)
  <2>1. page'.drains = page.drains
    BY <1>4, <1>8 DEF Caught, PageStates
  <2> QED
    BY <2>1, SameLeft
<1>9. CASE page' = Starting(Resync(rest), link)
  <2>1. PICK q : q = Resync(rest)
    OBVIOUS
  <2>2. GivesUp(rest, q) /\ q \in PageStates
    BY <1>4, <2>1, ResyncFacts DEF GivesUp
  <2>3. CASE link.phase # "none"
    <3>1. GivesUp(q, page')
      BY <1>9, <2>1, <2>2, <2>3, StartingFacts
    <3>2. GivesUp(rest, page')
      BY <1>4, <2>2, <3>1, GivesUpTwice
    <3> QED
      BY <1>4, <3>2, GivesUpLeft
  <2>4. CASE link.phase = "none"
    <3>1. page'.drains = q.drains
      BY <1>9, <2>1, <2>2, <2>4, StartingFacts
    <3>2. \A d \in Activations : Forget(d).left = d.left
      BY DEF Forget, Activations
    <3> QED
      BY <1>1, <1>4, <2>2, <3>1, <3>2 DEF GivesUp, Leftovers
  <2> QED
    BY <2>3, <2>4
<1>10. CASE page' = [rest EXCEPT !.drains = page.drains \cup {e}]
  <2>1. /\ page'.drains = page.drains \cup {e}
        /\ page'.generation = page.generation
    BY <1>4, <1>10 DEF PageStates
  <2>2. e.gen = page.generation
    BY <1>6
  <2> QED
    BY <2>1, <2>2 DEF Leftovers, Current
<1> QED
  BY <1>7, <1>8, <1>9, <1>10

LEMMA DrawLeft ==
    ASSUME TypeInv, NEW d \in page.drains, Draw(d)
    PROVE  Leftovers
<1>1. page \in PageStates /\ d \in Activations
  BY DEF TypeInv, PageStates
<1>2. PICK others : others = page.drains \ {d}
  OBVIOUS
<1>3. PICK next : next = [d EXCEPT !.left = Tail(d.left), !.tool = "ready"]
  OBVIOUS
<1>4. next.gen = d.gen
  BY <1>1, <1>3 DEF Activations
<1>5. page'.drains = others \/ (Current(d) /\ page'.drains = others \cup {next})
  <2>1. PICK v : v = IF d.tool = "forgotten" THEN page.view
                     ELSE Append(page.view, Head(d.left))
    OBVIOUS
  <2>2. PICK moved : moved = [page EXCEPT !.view = v, !.seq = page.seq + 1]
    OBVIOUS
  <2>3. \/ page' = [page EXCEPT !.view = v, !.drains = others]
        \/ Current(d) /\ page' = [moved EXCEPT !.drains = others \cup {next}]
        \/ page' = [moved EXCEPT !.drains = others]
        \/ page' = Caught([moved EXCEPT !.drains = others])
    BY <1>2, <1>3, <2>1, <2>2 DEF Draw, Advance
  <2>4. PICK c : c = others \cup {next}
    OBVIOUS
  <2>5. /\ [page EXCEPT !.view = v, !.drains = others].drains = others
        /\ [moved EXCEPT !.drains = c].drains = c
        /\ [moved EXCEPT !.drains = others].drains = others
        /\ Caught([moved EXCEPT !.drains = others]).drains = others
    BY <1>1, <2>2 DEF PageStates, Caught
  <2> QED
    BY <2>3, <2>4, <2>5
<1>6. page'.generation = page.generation
  <2>1. PICK v : v = IF d.tool = "forgotten" THEN page.view
                     ELSE Append(page.view, Head(d.left))
    OBVIOUS
  <2>2. PICK moved : moved = [page EXCEPT !.view = v, !.seq = page.seq + 1]
    OBVIOUS
  <2>3. \/ page' = [page EXCEPT !.view = v, !.drains = others]
        \/ page' = [moved EXCEPT !.drains = others \cup {next}]
        \/ page' = [moved EXCEPT !.drains = others]
        \/ page' = Caught([moved EXCEPT !.drains = others])
    BY <1>2, <1>3, <2>1, <2>2 DEF Draw, Advance
  <2> QED
    BY <1>1, <2>2, <2>3 DEF PageStates, Caught
<1> QED
  BY <1>2, <1>4, <1>5, <1>6 DEF Leftovers, Current

LEMMA AwaitToolLeft ==
    ASSUME TypeInv, NEW d \in page.drains, AwaitTool(d)
    PROVE  Leftovers
<1>1. page \in PageStates /\ d \in Activations
  BY DEF TypeInv, PageStates
<1>2. PICK e : e = [d EXCEPT !.tool = "pending"]
  OBVIOUS
<1>3. e.left = d.left
  BY <1>1, <1>2 DEF Activations
<1>4. page' = [page EXCEPT !.drains = (page.drains \ {d}) \cup {e}]
  BY <1>2 DEF AwaitTool
<1>5. page'.drains = (page.drains \ {d}) \cup {e}
  BY <1>1, <1>4 DEF PageStates
<1> QED
  BY <1>3, <1>5 DEF Leftovers

LEMMA EveryStepLeft ==
    ASSUME TypeInv, [Next]_vars
    PROVE  Leftovers
<1>0. page \in PageStates
  BY DEF TypeInv
<1>1. CASE \/ page' = page \/ Deliver \/ ServeBaseline \/ BaselineArrives
           \/ FetchFails \/ OpenSocket \/ ConnectFails \/ MountLate
  <2>1. page'.drains = page.drains
    BY <1>0, <1>1 DEF PageStates, Deliver, ServeBaseline, BaselineArrives,
                      FetchFails, OpenSocket, ConnectFails, MountLate
  <2> QED
    BY <2>1, SameLeft
<1>2. CASE Start \/ RefreshAccess
  <2>1. page' = Starting(page, link)
    BY <1>2 DEF Start, RefreshAccess
  <2>2. GivesUp(page, page') \/ page'.drains = page.drains
    BY <1>0, <2>1, StartingFacts
  <2> QED
    BY <1>0, <2>2, GivesUpLeft, SameLeft
<1>3. CASE Refused \/ Disconnected
  <2>1. page' = [Resync(page) EXCEPT !.timer = TRUE]
    BY <1>3 DEF Refused, Disconnected
  <2>2. GivesUp(page, Resync(page)) /\ Resync(page) \in PageStates
    BY <1>0, ResyncFacts DEF GivesUp
  <2>3. GivesUp(page, page')
    BY <2>1, <2>2, TimerFacts
  <2> QED
    BY <1>0, <2>3, GivesUpLeft
<1>4. CASE Process
  BY <1>4, ProcessLeft
<1>5. ASSUME NEW d \in page.drains,
             AwaitTool(d) \/ Draw(d) \/ \E kept \in BOOLEAN : DrawFails(d, kept)
      PROVE  Leftovers
  <2>1. CASE \E kept \in BOOLEAN : DrawFails(d, kept)
    <3>1. page'.drains = page.drains \ {d}
      BY <1>0, <2>1 DEF PageStates, DrawFails
    <3> QED
      BY <3>1, SameLeft
  <2> QED
    BY <1>5, <2>1, AwaitToolLeft, DrawLeft
<1>6. \/ page' = page \/ Deliver \/ ServeBaseline \/ BaselineArrives
      \/ FetchFails \/ OpenSocket \/ ConnectFails \/ MountLate
      \/ Start \/ RefreshAccess \/ Refused \/ Disconnected \/ Process
      \/ \E d \in page.drains : \/ AwaitTool(d) \/ Draw(d)
                                \/ \E kept \in BOOLEAN : DrawFails(d, kept)
  BY DEF Next, vars, server, Write, Handshake, Restart, Save, Drop
<1> QED
  BY <1>1, <1>2, <1>3, <1>4, <1>5, <1>6

LEMMA NextLeftInv == IInv /\ IInv' /\ LeftInv /\ [Next]_vars => LeftInv'
<1> SUFFICES ASSUME IInv, IInv', LeftInv, [Next]_vars, NEW d \in page'.drains
             PROVE  Len(d.left) <= MaxWrites
  BY DEF LeftInv
<1>1. Leftovers
  BY EveryStepLeft DEF IInv
<1>2. CASE Current(d)'
  <2>1. /\ NowInv' /\ Place' \in Nat /\ written' \in Nat /\ MaxWrites \in Nat
        /\ Reached' <= written' /\ written' <= MaxWrites
    <3>1. TypeInv' /\ DrainInv' /\ PlaceInv' /\ ServerInv'
      BY DEF IInv
    <3>2. NowInv'
      BY <3>1, NowFacts, PTL
    <3>3. Place' \in Nat /\ written' \in Nat
      BY <3>1 DEF TypeInv, PageStates, Place
    <3>4. Reached' <= written' /\ written' <= MaxWrites
      BY <3>1 DEF PlaceInv, ServerInv
    <3> QED
      BY <3>2, <3>3, <3>4, BoardSyncAssumption
  <2>2. /\ Len(d.left) = Len(Now') /\ Len(Now') \in Nat
        /\ Reached' = Place' + Len(Now')
    BY <1>2, <2>1 DEF NowInv
  <2> QED
    BY <2>1, <2>2
<1>3. CASE ~Current(d)'
  BY <1>1, <1>3 DEF Leftovers, LeftInv
<1> QED
  BY <1>2, <1>3

LEMMA ShortSequences ==
    ASSUME NEW s \in Seq(Writes), Len(s) <= MaxWrites
    PROVE  s \in Contents
<1>1. s \in [1 .. Len(s) -> Writes] /\ Len(s) \in Nat
  BY LenProperties
<1>2. Len(s) \in 0 .. MaxWrites
  BY <1>1, BoardSyncAssumption
<1> QED
  BY <1>1, <1>2 DEF Contents

\* What follows in a board is a part of it.
LEMMA FollowsIsPart ==
    ASSUME NEW S, NEW s \in Seq(S), NEW t \in Seq(S), NEW n \in Nat, Follows(s, n, t)
    PROVE  s = SubSeq(t, n + 1, n + Len(s))
<1>1. /\ Len(s) \in Nat /\ Len(t) \in Nat /\ n + Len(s) <= Len(t)
      /\ \A i \in 1 .. Len(s) : s[i] = t[n + i]
  BY LenProperties DEF Follows
<1>2. PICK l \in Nat : l = Len(s)
  BY <1>1
<1>3. \A i \in n + 1 .. n + l : t[i] \in S
  BY <1>1, <1>2, ElementOfSeq
<1>4. PICK r : r = SubSeq(t, n + 1, n + l)
  OBVIOUS
<1>5. /\ r \in Seq(S)
      /\ Len(r) = IF n + 1 <= n + l THEN (n + l) - (n + 1) + 1 ELSE 0
      /\ \A i \in 1 .. (n + l) - (n + 1) + 1 : r[i] = t[n + 1 + i - 1]
  BY <1>3, <1>4, SubSeqProperties
<1>6. Len(r) = l /\ \A i \in 1 .. l : r[i] = t[n + i]
  BY <1>2, <1>5
<1>7. \A i \in 1 .. l : r[i] = s[i]
  BY <1>1, <1>2, <1>6
<1>8. r = s
  BY <1>2, <1>5, <1>6, <1>7, SeqEqual
<1> QED
  BY <1>2, <1>4, <1>8

\* What a joined page shows and is about to show is a beginning of the board.
LEMMA ShownBegins ==
    ASSUME IInv, Phase = "open"
    PROVE  /\ Begins(View \o Now, hist) /\ View \o Now \in Seq(Writes)
           /\ Len(View \o Now) = Len(View) + Len(Now)
<1>1. /\ View \in Seq(Writes) /\ Now \in Seq(Writes) /\ hist \in Seq(Writes)
      /\ Len(View) \in Nat /\ Len(Now) \in Nat /\ Len(hist) \in Nat /\ Place \in Nat
  <2>1. TypeInv /\ NowInv
    BY NowFacts DEF IInv
  <2> QED
    BY <2>1, Typed, LenProperties DEF NowInv
<1>2. PICK s : s = View \o Now
  OBVIOUS
<1>3. /\ s \in Seq(Writes) /\ Len(s) = Len(View) + Len(Now)
      /\ \A i \in 1 .. Len(View) + Len(Now) :
            s[i] = IF i <= Len(View) THEN View[i] ELSE Now[i - Len(View)]
  BY <1>1, <1>2, ConcatProperties
<1>4. Len(View) <= Len(hist) /\ \A i \in 1 .. Len(View) : View[i] = hist[i]
  <2>1. Begins(View, hist)
    BY DEF IInv, TrueInv
  <2> QED
    BY <1>1, <2>1 DEF Begins, Follows
<1>5. CASE Now = << >>
  <2>1. Len(Now) = 0
    BY <1>5, EmptySeq
  <2>2. Len(s) = Len(View) /\ \A i \in 1 .. Len(View) : s[i] = View[i]
    BY <1>1, <1>3, <2>1
  <2>3. Begins(s, hist)
    BY <1>1, <1>4, <2>2 DEF Begins, Follows
  <2> QED
    BY <1>2, <1>3, <2>3
<1>6. CASE Now # << >>
  <2>1. /\ Len(View) = Place /\ Place + Len(Now) <= Len(hist)
        /\ \A i \in 1 .. Len(Now) : Now[i] = hist[Place + i]
    BY <1>6 DEF IInv, PlaceInv, TrueInv, Follows
  <2>2. \A i \in 1 .. Len(s) : s[i] = hist[0 + i]
    <3> TAKE i \in 1 .. Len(s)
    <3>1. CASE i <= Len(View)
      BY <1>1, <1>3, <1>4, <3>1
    <3>2. CASE i > Len(View)
      <4>1. i - Len(View) \in 1 .. Len(Now) /\ Len(View) + (i - Len(View)) = i
        BY <1>1, <1>3, <3>2
      <4>2. s[i] = Now[i - Len(View)]
        BY <1>1, <1>3, <3>2
      <4> QED
        BY <1>1, <1>3, <2>1, <4>1, <4>2
    <3> QED
      BY <1>1, <3>1, <3>2
  <2>3. 0 + Len(s) <= Len(hist)
    BY <1>1, <1>3, <2>1
  <2> QED
    BY <1>2, <1>3, <2>2, <2>3 DEF Begins, Follows
<1> QED
  BY <1>5, <1>6

LEMMA InvTypeOK == IInv /\ LeftInv => TypeOK
<1> SUFFICES ASSUME IInv, LeftInv
             PROVE  TypeOK
  OBVIOUS
<1>0. TypeInv /\ ServerInv /\ PlaceInv /\ OrderInv
  BY DEF IInv
<1>1. /\ hist \in Seq(Writes) /\ disk \in Seq(Writes) /\ written \in Nat
      /\ View \in Seq(Writes) /\ Stray \in Seq(Writes) /\ MaxWrites \in Nat
      /\ written <= MaxWrites /\ Len(hist) \in Nat /\ Len(disk) \in Nat
      /\ Len(View) \in Nat /\ Len(Stray) \in Nat
  BY <1>0, Typed, BoardSyncAssumption, LenProperties DEF ServerInv, TypeInv
<1>2. hist \in Contents /\ disk \in Contents
  <2>1. Len(hist) <= MaxWrites /\ Len(disk) <= MaxWrites
    BY <1>0, <1>1 DEF ServerInv, Begins, Follows
  <2> QED
    BY <1>1, <2>1, ShortSequences
<1>3. page.view \in Contents
  <2>1. Len(View) <= MaxWrites
    BY <1>0, <1>1 DEF PlaceInv
  <2> QED
    BY <1>1, <2>1, ShortSequences DEF View
<1>4. \A m \in Messages : To(m) <= written /\ From(m) + Len(Adds(m)) = To(m)
                          => m \in Broadcasts
  <2> TAKE m \in Messages
  <2> HAVE To(m) <= written /\ From(m) + Len(Adds(m)) = To(m)
  <2>1. CASE m \in [kind : {"batch"}, from : Nat, seq : Nat, children : Seq(Writes)]
    <3>1. m.children \in Seq(Writes) /\ m.kind = "batch" /\ m.from \in Nat
          /\ m.seq \in Nat
      BY <2>1
    <3>2. Adds(m) = m.children /\ From(m) \in Nat /\ To(m) \in Nat
          /\ Len(Adds(m)) \in Nat
      BY <3>1, MessageFacts DEF Adds
    <3>3. Len(Adds(m)) <= MaxWrites
      <4>1. \A f, l, t, w, b \in Nat :
               f + l = t /\ t <= w /\ w <= b => l <= b
        OBVIOUS
      <4> QED
        BY <1>1, <3>2, <4>1
    <3>4. m.children \in Contents
      BY <3>1, <3>2, <3>3, ShortSequences
    <3> QED
      BY <2>1, <3>1, <3>4 DEF Broadcasts, Batches
  <2>2. CASE m \in [kind : {"live"}, seq : Nat \ {0}, mutation : Writes]
    BY <2>2 DEF Broadcasts, Lives
  <2> QED
    BY <2>1, <2>2 DEF Messages
<1>5. \A k \in 1 .. Len(Pipe) : Pipe[k] \in Broadcasts
  BY <1>0, <1>4, Typed DEF OrderInv
<1>6. Range1(link.chan) \subseteq Broadcasts /\ Range1(page.queue) \subseteq Broadcasts
  <2>1. PICK q \in Seq(Messages) : q = page.queue
    BY <1>0, Typed
  <2>2. PICK c \in Seq(Messages) : c = link.chan
    BY <1>0, Typed DEF Chan
  <2>3. /\ Pipe = q \o c /\ Len(Pipe) = Len(q) + Len(c)
        /\ Len(q) \in Nat /\ Len(c) \in Nat
        /\ \A i \in 1 .. Len(q) : Pipe[i] = q[i]
        /\ \A i \in 1 .. Len(c) : Pipe[Len(q) + i] = c[i]
    <3>1. Pipe = q \o c
      BY <2>1, <2>2 DEF Pipe
    <3>2. /\ Len(q \o c) = Len(q) + Len(c)
          /\ \A i \in 1 .. Len(q) : (q \o c)[i] = q[i]
          /\ \A i \in 1 .. Len(c) : (q \o c)[Len(q) + i] = c[i]
      BY PipeFacts
    <3>3. Len(q) \in Nat /\ Len(c) \in Nat
      BY LenProperties
    <3> QED
      BY <3>1, <3>2, <3>3
  <2>4. \A i \in 1 .. Len(q) : q[i] \in Broadcasts
    BY <1>5, <2>3
  <2>5. \A i \in 1 .. Len(c) : c[i] \in Broadcasts
    BY <1>5, <2>3
  <2> QED
    BY <2>1, <2>2, <2>4, <2>5 DEF Range1
<1>7. page.drains \subseteq Drains
  <2> SUFFICES ASSUME NEW d \in page.drains
               PROVE  d \in Drains
    OBVIOUS
  <2>1. d \in Activations
    BY <1>0 DEF TypeInv, PageStates
  <2>2. d.left \in Seq(Writes) /\ Len(d.left) <= MaxWrites
    BY <2>1 DEF Activations, LeftInv
  <2>3. d.left \in Contents
    BY <2>2, ShortSequences
  <2> QED
    BY <2>1, <2>3 DEF Activations, Drains
<1>8. link.phase \in Phases /\ floor \in Nat /\ unheard \in BOOLEAN
  BY <1>0 DEF TypeInv
<1>9. page.starting \in {"no", "fetching", "fetched", "connecting"}
  BY <1>0 DEF TypeInv, PageStates
<1> QED
  BY <1>2, <1>3, <1>6, <1>7, <1>8, <1>9 DEF TypeOK, Phases

\* NeverWrong: a page never shows anything but a beginning of the board's
\* history, the one that its sequence number stands for (replayAuthoritativeBatch
\* and handleBroadcastPostApply count what they draw), or one mutation more.
THEOREM PageNeverWrong == Spec => []NeverWrong
<1>1. IInv /\ LeftInv => NeverWrong
  <2> SUFFICES ASSUME IInv, LeftInv
               PROVE  NeverWrong
    OBVIOUS
  <2>1. TypeOK
    BY InvTypeOK
  <2>2. Len(page.view) - page.seq \in IF page.failed THEN {0, 1} ELSE {0}
    <3>1. TypeInv /\ PlaceInv
      BY DEF IInv
    <3>2. View \in Seq(Writes) /\ Place \in Nat
      BY <3>1, Typed
    <3>3. Len(View) \in Nat
      BY <3>2, LenProperties
    <3>4. Len(View) = Place \/ (Failed /\ Len(View) = Place + 1)
      BY <3>1 DEF PlaceInv
    <3>5. Len(View) - Place \in IF Failed THEN {0, 1} ELSE {0}
      BY <3>2, <3>3, <3>4
    <3> QED
      BY <3>5 DEF View, Place, Failed
  <2>3. ASSUME Phase = "open"
        PROVE  IsPrefixOf(View \o Now, hist)
    <3>1. PICK s \in Seq(Writes) : s = View \o Now
      BY <2>3, ShownBegins
    <3>2. Begins(s, hist) /\ hist \in Seq(Writes) /\ Len(s) \in Nat
      BY <2>3, <3>1, ShownBegins, LenProperties DEF IInv, TypeInv
    <3>3. s = SubSeq(hist, 0 + 1, 0 + Len(s))
      BY <3>2, FollowsIsPart DEF Begins
    <3>4. 0 + 1 = 1 /\ 0 + Len(s) = Len(s)
      BY <3>2
    <3>5. s = SubSeq(hist, 1, Len(s))
      BY <3>3, <3>4
    <3>6. Len(s) <= Len(hist)
      BY <3>2, <3>4 DEF Begins, Follows
    <3> QED
      BY <3>1, <3>5, <3>6 DEF IsPrefixOf, Prefix
  <2> QED
    BY <2>1, <2>2, <2>3 DEF NeverWrong, Phase, View, Now
<1>2. Init => LeftInv
  BY DEF Init, LeftInv
<1>3. Spec => []IInv
  BY Invariance
<1> QED
  BY <1>1, <1>2, <1>3, NextLeftInv, PTL DEF Spec

\* NothingMissing: while the socket is joined, what the page shows, what it is
\* applying, what enqueueIncomingBroadcast has queued and what is under way are
\* the board's history, in order and without gaps, unless the page was not told
\* of a mutation or could not draw one.
THEOREM PageNothingMissing == Spec => []NothingMissing
<1>1. IInv => NothingMissing
  <2> SUFFICES ASSUME IInv, link.phase = "open", missed = 0, ~page.failed
               PROVE  /\ View \o Now = Prefix(hist, Reached)
                      /\ \A k \in DOMAIN Pipe :
                            /\ From(Pipe[k]) = IF k = 1 THEN Reached
                                               ELSE To(Pipe[k - 1])
                            /\ Adds(Pipe[k])
                                  = SubSeq(hist, From(Pipe[k]) + 1, To(Pipe[k]))
                      /\ Len(hist) = IF Pipe = << >> THEN Reached
                                     ELSE To(Pipe[Len(Pipe)])
    BY DEF NothingMissing, View, Now
  <2>0. TypeInv /\ DrainInv /\ PlaceInv /\ OrderInv /\ TrueInv /\ WholeInv
    BY DEF IInv
  <2>1. Phase = "open" /\ ~Failed
    BY DEF Phase, Failed
  <2>2. /\ \A k \in 1 .. Len(Pipe) :
              From(Pipe[k]) = IF k = 1 THEN Reached ELSE To(Pipe[k - 1])
        /\ Len(hist) = IF Pipe = << >> THEN Reached ELSE To(Pipe[Len(Pipe)])
    BY <2>0, <2>1 DEF WholeInv
  <2>3. DOMAIN Pipe = 1 .. Len(Pipe) /\ hist \in Seq(Writes)
    BY <2>0, Typed, LenProperties
  <2>4. ASSUME NEW k \in 1 .. Len(Pipe)
        PROVE  Adds(Pipe[k]) = SubSeq(hist, From(Pipe[k]) + 1, To(Pipe[k]))
    <3>1. PICK s \in Seq(Writes) : s = Adds(Pipe[k])
      BY <2>0, <2>4, Typed
    <3>2. From(Pipe[k]) \in Nat /\ Follows(s, From(Pipe[k]), hist)
          /\ From(Pipe[k]) + Len(s) = To(Pipe[k])
      BY <2>0, <2>1, <2>4, <3>1, Typed DEF TrueInv, OrderInv
    <3>3. s = SubSeq(hist, From(Pipe[k]) + 1, From(Pipe[k]) + Len(s))
      BY <2>3, <3>1, <3>2, FollowsIsPart
    <3> QED
      BY <3>1, <3>2, <3>3
  <2>5. View \o Now = Prefix(hist, Reached)
    <3>1. PICK s \in Seq(Writes) : s = View \o Now
      BY <2>1, ShownBegins
    <3>2. Begins(s, hist) /\ Len(s) = Len(View) + Len(Now)
      BY <2>1, <3>1, ShownBegins
    <3>3. s = SubSeq(hist, 0 + 1, 0 + Len(s)) /\ Len(s) \in Nat
      BY <2>3, <3>1, <3>2, FollowsIsPart, LenProperties DEF Begins
    <3>4. Len(s) = Reached
      BY <2>0, <2>1, <3>2, NowFacts DEF PlaceInv, NowInv
    <3>5. 0 + 1 = 1 /\ 0 + Len(s) = Len(s)
      BY <3>3
    <3>6. s = SubSeq(hist, 1, Reached)
      BY <3>3, <3>4, <3>5
    <3> QED
      BY <3>1, <3>6 DEF Prefix
  <2> QED
    BY <2>2, <2>3, <2>4, <2>5
<1> QED
  BY <1>1, Invariance, PTL

-----------------------------------------------------------------------------
(* The tools of the page                                                     *)

\* The inductive invariant of rights: what is known of the current tool.
RightsInv ==
    /\ stuck \in BOOLEAN /\ granted \in BOOLEAN
    /\ OnlyAllowedTools

\* The inductive invariant of gestures.  An open gesture that nothing excuses is
\* the current tool's, is not a drawing tool's in a view too far to draw, and is
\* of a touch that the tool has not lost; but the hand's may be a browser's.
GestureInv ==
    /\ gesture \subseteq Tools
    /\ owner \in [Tools -> {Nobody, "browser", "two fingers"}]
    /\ gesture \ excused \subseteq {current}
    /\ ~near => gesture \cap Drawing \subseteq excused
    /\ \A t \in (gesture \ excused) \ {"hand"} : fingers = 1 /\ owner[t] = Nobody

\* A step of Change leaves a displayed tool current, whatever was clicked and
\* how often, as long as the tool may be used (change of the registry).
LEMMA ChangeAllowed ==
    ASSUME ToolRegistryAssumption, RightsInv, NEW t \in Tools, NEW n \in Nat,
           Change(t, n), n # 0 => Displayed(t)
    PROVE  /\ current' = current \/ (current' \in Tools /\ current' = t /\ Displayed(t))
           /\ \A pair \in acted' : pair[2]
  <1>1. CASE n = 0
    BY <1>1 DEF Change, RightsInv, OnlyAllowedTools
  <1>2. CASE n # 0 /\ t \in OneTouch
    <2>1. acted' = acted \cup {<<t, Displayed(t)>>} /\ current' = current
      BY <1>2 DEF Change
    <2>2. Displayed(t) = TRUE
      BY <1>2 DEF Displayed, DisplayedWhen
    <2>3. acted' = acted \cup {<<t, TRUE>>}
      BY <2>1, <2>2
    <2>4. ASSUME NEW pair \in acted' PROVE pair[2]
      <3>1. CASE pair \in acted
        BY <3>1 DEF RightsInv, OnlyAllowedTools
      <3>2. CASE pair = <<t, TRUE>>
        BY <3>2
      <3> QED
        BY <2>3, <3>1, <3>2
    <2> QED
      BY <2>1, <2>4
  <1>3. CASE n # 0 /\ t \notin OneTouch
    <2>1. acted' = acted /\ (current' = current \/ current' = t)
      BY <1>3 DEF Change, Replaced
    <2> QED
      BY <2>1, <1>3 DEF RightsInv, OnlyAllowedTools
  <1> QED
    BY <1>1, <1>2, <1>3

\* The same of an activation, which may wait instead (activateTool).
LEMMA ActivatedAllowed ==
    ASSUME ToolRegistryAssumption, RightsInv, NEW t \in Tools, NEW n \in Nat,
           Activated(t, n), UNCHANGED <<granted, stuck>>
    PROVE  RightsInv'
  <1>1. PICK k \in Nat : Change(t, k) /\ (k # 0 => Displayed(t))
    BY DEF Activated
  <1>2. /\ current' = current \/ (current' \in Tools /\ current' = t /\ Displayed(t))
        /\ \A pair \in acted' : pair[2]
    BY <1>1, ChangeAllowed
  <1> QED
    BY <1>2 DEF RightsInv, OnlyAllowedTools, Displayed, DisplayedWhen

\* No gesture that counts outlives the tool it was made with: to replace the
\* current tool ends the gesture or excuses it (replaceCurrentTool).
LEMMA ChangeKeepsGestures ==
    ASSUME GestureInv, NEW t \in Tools, NEW n, Change(t, n),
           UNCHANGED <<near, fingers, owner>>
    PROVE  GestureInv'
  <1>1. CASE UNCHANGED <<current, gesture, excused>>
    BY <1>1 DEF GestureInv
  <1>2. CASE Replaced(t)
    <2>1. gesture' \ excused' = {} /\ gesture' \subseteq gesture /\ excused \subseteq excused'
      BY <1>2 DEF Replaced, GestureInv
    <2> QED
      BY <2>1 DEF GestureInv
  <1> QED
    BY <1>1, <1>2 DEF Change

\* A touch event of any kind, with one finger or two on the screen after it or
\* none, keeps the gestures in order (compileToolListeners).
LEMMA DispatchKeepsGestures ==
    ASSUME ToolRegistryAssumption, GestureInv, current \in Tools,
           NEW kind \in {"start", "move", "end"}, NEW cancelable \in BOOLEAN,
           fingers' \in 0 .. 2, fingers \in Nat,
           fingers' = CASE kind = "start" -> fingers + 1
                        [] kind = "move" -> fingers
                        [] kind = "end" -> fingers - 1,
           kind = "move" => fingers > 0,
           Dispatch(kind, fingers', cancelable), UNCHANGED <<near, current>>
    PROVE  GestureInv'
  <1> DEFINE blind == Disabled(current) \/ (kind = "start" /\ ~CanInteract(current))
             taken == \/ fingers' > 1 /\ ~NativePan(current)
                      \/ kind # "end" /\ fingers' = 1 /\ ~cancelable
                            /\ ~NativePan(current)
             newly == taken /\ owner[current] = Nobody
             owned == taken \/ owner[current] # Nobody
             partly == fingers' > 1 \/ (kind = "end" /\ fingers' # 0)
  <1>1. CASE blind
    <2>1. /\ excused' = IF kind = "start" THEN excused \cup (gesture \cap {current})
                        ELSE excused
          /\ owner' = owner /\ gesture' = gesture
      BY <1>1 DEF Dispatch
    <2>2. CASE kind = "start"
      BY <2>1, <2>2 DEF GestureInv
    <2>3. CASE kind # "start"
      <3>1. gesture \ excused = {}
        BY <1>1, <2>3 DEF Disabled, GestureInv
      <3> QED
        BY <2>1, <2>3, <3>1 DEF GestureInv
    <2> QED
      BY <2>2, <2>3
  <1>2. CASE ~blind
    <2>1. /\ owner' = IF newly
                      THEN [owner EXCEPT ![current] = IF fingers' > 1 THEN "two fingers"
                                                      ELSE "browser"]
                      ELSE Unowned(kind, fingers')
          /\ gesture' = IF newly THEN gesture \ {current}
                        ELSE IF owned \/ partly THEN gesture
                        ELSE IF kind = "start" THEN gesture \cup {current}
                        ELSE IF kind = "end" THEN gesture \ {current}
                        ELSE gesture
          /\ excused' = IF current \notin gesture' \/ (kind = "start" /\ ~owned)
                        THEN excused \ {current} ELSE excused
      BY <1>2, Zenon DEF Dispatch
    <2>2. ~Disabled(current)
      BY <1>2
    <2>3. owner' \in [Tools -> {Nobody, "browser", "two fingers"}]
      BY <2>1 DEF GestureInv, Unowned
    <2>4. /\ gesture' \subseteq Tools /\ gesture' \subseteq gesture \cup {current}
          /\ excused \ {current} \subseteq excused'
      BY <2>1 DEF GestureInv
    <2>5. gesture' \ excused' \subseteq {current}
      BY <2>4 DEF GestureInv
    <2>6. ~near => gesture' \cap Drawing \subseteq excused'
      BY <2>2, <2>4 DEF GestureInv, Disabled
    <2>7. ASSUME current \in gesture' \ excused', current # "hand"
          PROVE  fingers' = 1 /\ owner'[current] = Nobody
      <3>1. ~newly
        BY <2>1, <2>7
      <3>2. CASE owned
        <4>1. gesture' = gesture /\ excused' = excused /\ owner[current] # Nobody
          BY <2>1, <2>7, <3>1, <3>2
        <4> QED
          BY <4>1, <2>7 DEF GestureInv
      <3>3. CASE ~owned
        <4>1. owner[current] = Nobody /\ fingers' \in {0, 1}
          BY <3>3, <2>7 DEF NativePan
        <4>2. owner'[current] = Nobody
          BY <2>1, <3>1, <4>1 DEF Unowned, GestureInv
        <4>3. ASSUME fingers' = 0 PROVE FALSE
          <5>1. kind = "end"
            BY <4>3
          <5>2. ~partly
            BY <4>3, <5>1
          <5>3. gesture' = gesture \ {current}
            BY <2>1, <3>1, <3>3, <5>1, <5>2
          <5> QED
            BY <5>3, <2>7
        <4> QED
          BY <4>1, <4>2, <4>3
      <3> QED
        BY <3>2, <3>3
    <2> QED
      BY <2>3, <2>4, <2>5, <2>6, <2>7 DEF GestureInv
  <1> QED
    BY <1>1, <1>2

\* A step of the registry keeps the rights: one case for each action.
LEMMA RightsStep ==
    ASSUME ToolRegistryAssumption, RightsInv, clicks \in [Tools -> Nat], ToolNext
    PROVE  RightsInv'
  <1> USE DEF RightsInv, OnlyAllowedTools, Displayed, DisplayedWhen
  <1>1. ASSUME NEW t \in Tools, Click(t)
        PROVE  RightsInv'
    <2>1. CASE t \in mounted
      BY <1>1, <2>1, ActivatedAllowed DEF Click, rights
    <2>2. CASE t \notin mounted
      BY <1>1, <2>2 DEF Click, rights
    <2> QED
      BY <2>1, <2>2
  <1>2. ASSUME NEW t \in Tools, LazyBoot(t) \/ BootFails(t)
        PROVE  RightsInv'
    BY <1>2 DEF LazyBoot, BootFails, rights
  <1>3. ASSUME NEW t \in Tools, Mount(t)
        PROVE  RightsInv'
    BY <1>3, ActivatedAllowed DEF Mount, rights
  <1>4. CASE Started
    <2>1. PICK n \in {0, 1} : Change("hand", n)
      BY <1>4 DEF Started
    <2>2. "hand" \in Tools /\ Displayed("hand") /\ n \in Nat
      BY DEF ToolRegistryAssumption
    <2>3. UNCHANGED <<granted, stuck>>
      BY <1>4 DEF Started, rights
    <2> QED
      BY <2>1, <2>2, <2>3, ChangeAllowed
  <1>5. CASE ApplyBoardState
    <2> DEFINE hidden == current # NoTool /\ ~DisplayedWhen(granted', current)
    <2>1. /\ Change("hand", IF hidden /\ "hand" \in mounted THEN 1 ELSE 0)
          /\ stuck' = (hidden /\ "hand" \notin mounted) /\ granted' = ~granted
      BY <1>5 DEF ApplyBoardState
    <2>2. "hand" \in Tools /\ "hand" \notin Editing /\ "hand" \notin OneTouch
          /\ NoTool \notin Tools
      BY DEF ToolRegistryAssumption
    <2>3. CASE hidden /\ "hand" \in mounted
      <3>1. Change("hand", 1) /\ ~stuck'
        BY <2>1, <2>3
      <3>2. current' = "hand" /\ acted' = acted
        BY <3>1, <2>2 DEF Change, Replaced
      <3> QED
        BY <3>1, <3>2, <2>1, <2>2
    <2>4. CASE ~(hidden /\ "hand" \in mounted)
      <3>1. Change("hand", 0)
        BY <2>1, <2>4
      <3>2. current' = current /\ acted' = acted
        BY <3>1 DEF Change
      <3> QED
        BY <3>2, <2>1, <2>2, <2>4
    <2> QED
      BY <2>3, <2>4
  <1>6. CASE Zoom \/ Pause
    BY <1>6 DEF Zoom, Pause
  <1>7. CASE Writable
    <2>1. acted' = acted \cup {<<t, TRUE>> : t \in {u \in OneTouch :
                                                       waiting[u] > 0 /\ Displayed(u)}}
          /\ UNCHANGED <<current, granted, stuck>>
      BY <1>7 DEF Writable
    <2>2. ASSUME NEW pair \in acted' PROVE pair[2]
      <3>1. CASE pair \in acted
        BY <3>1
      <3>2. ASSUME NEW t, pair = <<t, TRUE>> PROVE pair[2]
        BY <3>2
      <3> QED
        BY <2>1, <3>1, <3>2
    <2> QED
      BY <2>1, <2>2
  <1>8. ASSUME NEW kind \in {"start", "move", "end"}, NEW cancelable \in BOOLEAN,
               Finger(kind, cancelable)
        PROVE  RightsInv'
    BY <1>8 DEF Finger, rights
  <1> QED
    BY <1>1, <1>2, <1>3, <1>4, <1>5, <1>6, <1>7, <1>8 DEF ToolNext

\* Clicks are counted (activateTool, while the module is on its way).
LEMMA ClicksStep ==
    ASSUME ToolRegistryAssumption, clicks \in [Tools -> Nat], ToolNext
    PROVE  clicks' \in [Tools -> Nat]
  <1>1. ASSUME NEW t \in Tools, Click(t)
        PROVE  clicks' \in [Tools -> Nat]
    <2>1. clicks' = clicks \/ clicks' = [clicks EXCEPT ![t] = @ + 1]
      BY <1>1 DEF Click
    <2>2. clicks[t] + 1 \in Nat
      OBVIOUS
    <2> QED
      BY <2>1, <2>2
  <1>2. ASSUME NEW t \in Tools, LazyBoot(t) \/ Mount(t) \/ BootFails(t)
        PROVE  clicks' \in [Tools -> Nat]
    BY <1>2 DEF LazyBoot, Mount, BootFails
  <1>3. CASE Started \/ ApplyBoardState \/ Zoom \/ Pause \/ Writable
    BY <1>3 DEF Started, ApplyBoardState, Zoom, Pause, Writable
  <1>4. ASSUME NEW kind \in {"start", "move", "end"}, NEW cancelable \in BOOLEAN,
               Finger(kind, cancelable)
        PROVE  clicks' \in [Tools -> Nat]
    BY <1>4 DEF Finger
  <1> QED
    BY <1>1, <1>2, <1>3, <1>4 DEF ToolNext

\* A step of the registry keeps the gestures: one case for each action.
LEMMA GestureStep ==
    ASSUME ToolRegistryAssumption, GestureInv, fingers \in 0 .. 2,
           current \in Tools \cup {NoTool}, ToolNext
    PROVE  GestureInv'
  <1>1. ASSUME NEW t \in Tools, Click(t) \/ LazyBoot(t) \/ Mount(t) \/ BootFails(t)
        PROVE  GestureInv'
    <2>1. UNCHANGED <<near, fingers, owner>>
      BY <1>1 DEF Click, LazyBoot, Mount, BootFails, rights, input
    <2>2. (\E n : Change(t, n)) \/ UNCHANGED <<current, gesture, excused>>
      <3>1. CASE Click(t) \/ Mount(t)
        <4>1. (\E n : Activated(t, n)) \/ UNCHANGED <<current, gesture, excused>>
          BY <3>1 DEF Click, Mount
        <4> QED
          BY <4>1 DEF Activated
      <3>2. CASE LazyBoot(t) \/ BootFails(t)
        BY <3>2 DEF LazyBoot, BootFails
      <3> QED
        BY <1>1, <3>1, <3>2
    <2>3. CASE UNCHANGED <<current, gesture, excused>>
      BY <2>1, <2>3 DEF GestureInv
    <2> QED
      BY <2>1, <2>2, <2>3, ChangeKeepsGestures
  <1>2. CASE Started \/ ApplyBoardState
    <2>1. UNCHANGED <<near, fingers, owner>>
      BY <1>2 DEF Started, ApplyBoardState, rights, input
    <2>2. \E n : Change("hand", n)
      BY <1>2 DEF Started, ApplyBoardState
    <2>3. "hand" \in Tools
      BY DEF ToolRegistryAssumption
    <2> QED
      BY <2>1, <2>2, <2>3, ChangeKeepsGestures
  <1>3. CASE Zoom
    <2>1. /\ near' = ~near
          /\ excused' = IF near THEN excused \cup (gesture \cap Drawing) ELSE excused
          /\ UNCHANGED <<current, gesture, fingers, owner>>
      BY <1>3 DEF Zoom, input
    <2>2. CASE near
      BY <2>1, <2>2 DEF GestureInv
    <2>3. CASE ~near
      BY <2>1, <2>3 DEF GestureInv
    <2> QED
      BY <2>2, <2>3
  <1>4. CASE Pause \/ Writable
    BY <1>4 DEF Pause, Writable, GestureInv, input
  <1>5. ASSUME NEW kind \in {"start", "move", "end"}, NEW cancelable \in BOOLEAN,
               Finger(kind, cancelable)
        PROVE  GestureInv'
    <2>1. UNCHANGED <<near, current>>
      BY <1>5 DEF Finger, rights
    <2>2. CASE current = NoTool
      <3>1. UNCHANGED <<owner, gesture, excused>>
        BY <1>5, <2>2 DEF Finger
      <3>2. NoTool \notin Tools
        BY DEF ToolRegistryAssumption
      <3>3. gesture \ excused = {}
        BY <2>2, <3>2 DEF GestureInv
      <3> QED
        BY <2>1, <3>1, <3>3 DEF GestureInv
    <2>3. CASE current \in Tools
      <3>1. Dispatch(kind, fingers', cancelable)
        BY <1>5, <2>3 DEF Finger, ToolRegistryAssumption
      <3>2. /\ fingers' = CASE kind = "start" -> fingers + 1
                            [] kind = "move" -> fingers
                            [] kind = "end" -> fingers - 1
            /\ fingers' \in 0 .. 2 /\ (kind = "move" => fingers > 0)
        BY <1>5 DEF Finger
      <3> QED
        BY <2>1, <2>3, <3>1, <3>2, DispatchKeepsGestures
    <2> QED
      BY <2>2, <2>3
  <1> QED
    BY <1>1, <1>2, <1>3, <1>4, <1>5 DEF ToolNext

\* What is current is a tool or none, and two fingers are the most.
LEMMA ToolsStep ==
    ASSUME ToolRegistryAssumption, fingers \in 0 .. 2, current \in Tools \cup {NoTool},
           ToolNext
    PROVE  fingers' \in 0 .. 2 /\ current' \in Tools \cup {NoTool}
  <1>0. ASSUME NEW t \in Tools, NEW n, Change(t, n)
        PROVE  current' \in Tools \cup {NoTool}
    BY <1>0 DEF Change, Replaced
  <1>1. ASSUME NEW t \in Tools, Click(t) \/ LazyBoot(t) \/ Mount(t) \/ BootFails(t)
        PROVE  fingers' = fingers /\ current' \in Tools \cup {NoTool}
    <2>1. fingers' = fingers
      BY <1>1 DEF Click, LazyBoot, Mount, BootFails, input
    <2>2. CASE Click(t) \/ Mount(t)
      <3>1. (\E n : Activated(t, n)) \/ current' = current
        BY <2>2 DEF Click, Mount
      <3>2. (\E n : Change(t, n)) \/ current' = current
        BY <3>1 DEF Activated
      <3> QED
        BY <2>1, <3>2, <1>0
    <2>3. CASE LazyBoot(t) \/ BootFails(t)
      BY <2>1, <2>3 DEF LazyBoot, BootFails
    <2> QED
      BY <1>1, <2>2, <2>3
  <1>2. CASE Started \/ ApplyBoardState
    <2>1. fingers' = fingers
      BY <1>2 DEF Started, ApplyBoardState, input
    <2>2. (\E n : Change("hand", n)) /\ "hand" \in Tools
      BY <1>2 DEF Started, ApplyBoardState, ToolRegistryAssumption
    <2> QED
      BY <2>1, <2>2, <1>0
  <1>3. CASE Zoom \/ Pause \/ Writable
    BY <1>3 DEF Zoom, Pause, Writable, input
  <1>4. ASSUME NEW kind \in {"start", "move", "end"}, NEW cancelable \in BOOLEAN,
               Finger(kind, cancelable)
        PROVE  fingers' \in 0 .. 2 /\ current' \in Tools \cup {NoTool}
    BY <1>4 DEF Finger
  <1> QED
    BY <1>1, <1>2, <1>3, <1>4 DEF ToolNext

\* Whatever modules arrive late and whatever rights come and go meanwhile, the
\* page's user holds and has used only tools the user may use (activateTool,
\* applyBoardState, whenBoardWritable).
THEOREM OnlyAllowedToolsAreHeld == ToolRegistryAssumption => (ToolSpec => []OnlyAllowedTools)
<1> SUFFICES ASSUME ToolRegistryAssumption PROVE ToolSpec => []OnlyAllowedTools
  OBVIOUS
<1> DEFINE Held == RightsInv /\ clicks \in [Tools -> Nat]
<1>1. ToolInit => Held
  <2>1. ASSUME ToolInit PROVE clicks \in [Tools -> Nat]
    BY <2>1 DEF ToolInit
  <2> QED
    BY <2>1 DEF ToolInit, RightsInv, OnlyAllowedTools, ToolRegistryAssumption
<1>2. Held /\ [ToolNext]_toolVars => Held'
  <2>1. CASE UNCHANGED toolVars
    BY <2>1 DEF toolVars, RightsInv, OnlyAllowedTools, Displayed, DisplayedWhen
  <2> QED
    BY <2>1, RightsStep, ClicksStep
<1>3. Held => OnlyAllowedTools
  BY DEF RightsInv
<1> QED
  BY <1>1, <1>2, <1>3, PTL DEF ToolSpec

\* A touch gesture is one finger's, whatever takes the touch from a tool: a
\* second finger, the browser, a zoom, or another tool (compileToolListeners,
\* replaceCurrentTool).
THEOREM GesturesStayOneFinger == ToolRegistryAssumption => (ToolSpec => []GestureIsOneFinger)
<1> SUFFICES ASSUME ToolRegistryAssumption PROVE ToolSpec => []GestureIsOneFinger
  OBVIOUS
<1> DEFINE Kept == /\ GestureInv /\ fingers \in 0 .. 2 /\ current \in Tools \cup {NoTool}
<1>1. ToolInit => Kept
  BY DEF ToolInit, GestureInv
<1>2. Kept /\ [ToolNext]_toolVars => Kept'
  <2>1. CASE UNCHANGED toolVars
    BY <2>1 DEF toolVars, GestureInv
  <2> QED
    BY <2>1, GestureStep, ToolsStep
<1>3. Kept => GestureIsOneFinger
  BY DEF GestureInv, GestureIsOneFinger
<1> QED
  BY <1>1, <1>2, <1>3, PTL DEF ToolSpec
=============================================================================
