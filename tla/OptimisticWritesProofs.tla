----------------------- MODULE OptimisticWritesProofs -----------------------
(***************************************************************************)
(* Proofs about OptimisticWrites: a write that is sent again was not       *)
(* accepted before, and the page follows the server.                       *)
(*                                                                         *)
(* The first inductive invariant (IInv) follows a mutation.  What is under *)
(* way to the server is not queued and not accepted (UpInv).  An accepted  *)
(* mutation that is still buffered has its cast under way or in the queue  *)
(* of the page, unless the connection broke, in which case it will not be  *)
(* sent again (HeardInv).  Who is told to slow down has nothing under way  *)
(* (LinkInv, PauseInv), and who waits for a replay gets that first         *)
(* (AwaitInv).                                                             *)
(*                                                                         *)
(* The second one (FInv) follows what is drawn.  The drawing of a page is  *)
(* the board after the mutations it has seen, and over it one drawing for  *)
(* each entry of the journal, whose snapshot is what was under it          *)
(* (Follows: Stack).  An entry may be taken out of the middle of this      *)
(* stack when those above it that it collides with are taken out too, and  *)
(* moved to the bottom when nothing below collides with it: so a rejection *)
(* and an invalidation leave what was drawn without them, and an           *)
(* acknowledgement, which draws nothing, agrees with the server, provided  *)
(* that the server answers in the order in which the page drew.  That the  *)
(* own mutations under way are in that order, each in one place only, and  *)
(* that what is in flight is among them, is the invariant of the pipe      *)
(* (PipeInv); that what is said of the board is what the board accepted,   *)
(* in its order, is CastInv.                                               *)
(***************************************************************************)
EXTENDS OptimisticWrites, TLAPS, SequenceTheorems, FiniteSetTheorems, FunctionTheorems,
        WellFoundedInduction, NaturalsInduction

-----------------------------------------------------------------------------
(* Parts of sequences *)

Sub(t, s) == \A k \in DOMAIN t : \E j \in DOMAIN s : t[k] = s[j]

\* The elements of a finite set of numbers have different ranks, and all of them.
LEMMA Ranks ==
    ASSUME NEW n \in Nat, NEW K \in SUBSET (1 .. n)
    PROVE  /\ IsFiniteSet(K) /\ Cardinality(K) \in Nat
           /\ \A i \in K : Rank(K, i) \in 0 .. Cardinality(K) - 1
           /\ \A i, j \in K : Rank(K, i) = Rank(K, j) => i = j
           /\ \A i, j \in K : i < j => Rank(K, i) < Rank(K, j)
           /\ \A k \in 1 .. Cardinality(K) : \E i \in K : Rank(K, i) = k - 1
<1>1. IsFiniteSet(K)
  <2>1. 1 \in Int /\ n \in Int
    OBVIOUS
  <2>2. IsFiniteSet(1 .. n)
    BY <2>1, FS_Interval
  <2> QED
    BY <2>2, FS_Subset
<1>2. PICK c \in Nat : c = Cardinality(K)
  BY <1>1, FS_CardinalityType
<1>3. \A i \in K : Rank(K, i) \in 0 .. c - 1
  <2>1. SUFFICES ASSUME NEW i \in K
                 PROVE  Rank(K, i) \in 0 .. c - 1
    OBVIOUS
  <2> DEFINE T == {j \in K : j < i}
  <2>2. T \in SUBSET K /\ T # K
    OBVIOUS
  <2>3. IsFiniteSet(T) /\ Cardinality(T) <= c /\ Cardinality(T) # c
    BY <1>1, <1>2, <2>2, FS_Subset
  <2>4. Cardinality(T) \in Nat
    BY <2>3, FS_CardinalityType
  <2> QED
    BY <1>2, <2>3, <2>4 DEF Rank
<1>4. \A i, j \in K : i < j => Rank(K, i) < Rank(K, j)
  <2>1. SUFFICES ASSUME NEW i \in K, NEW j \in K, i < j
                 PROVE  Rank(K, i) < Rank(K, j)
    OBVIOUS
  <2> DEFINE T == {l \in K : l < i}
             U == {l \in K : l < j}
  <2>2. T \in SUBSET U /\ T # U /\ U \in SUBSET K
    <3>1. \A l \in K : l < i => l < j
      BY <2>1
    <3>2. i \in U /\ i \notin T
      BY <2>1
    <3> QED
      BY <3>1, <3>2
  <2>3. IsFiniteSet(U)
    BY <1>1, <2>2, FS_Subset
  <2>4. IsFiniteSet(T) /\ Cardinality(T) <= Cardinality(U) /\ Cardinality(T) # Cardinality(U)
    BY <2>2, <2>3, FS_Subset
  <2>5. Cardinality(T) \in Nat /\ Cardinality(U) \in Nat
    BY <2>3, <2>4, FS_CardinalityType
  <2> QED
    BY <2>4, <2>5 DEF Rank
<1>5. \A i, j \in K : Rank(K, i) = Rank(K, j) => i = j
  <2>1. \A i, j \in K : i < j \/ j < i \/ i = j
    OBVIOUS
  <2>2. \A i \in K : Rank(K, i) \in Int
    BY <1>2, <1>3
  <2> QED
    BY <1>4, <2>1, <2>2
<1>6. \A k \in 1 .. c : \E i \in K : Rank(K, i) = k - 1
  <2> DEFINE rank == [i \in K |-> Rank(K, i)]
             D == 0 .. c - 1
  <2>1. rank \in Injection(K, D)
    <3>1. rank \in [K -> D]
      BY <1>3
    <3>2. \A a, b \in K : rank[a] = rank[b] => a = b
      BY <1>5
    <3> HIDE DEF rank, D
    <3> QED
      BY <3>1, <3>2, Fun_IsInj
  <2>2. IsFiniteSet(D) /\ Cardinality(D) = c
    <3>1. c = 0 \/ c - 1 \in Nat
      BY <1>2
    <3>2. 0 \in Int /\ c - 1 \in Int
      BY <1>2
    <3>3. IsFiniteSet(0 .. c - 1)
          /\ Cardinality(0 .. c - 1) = IF 0 > c - 1 THEN 0 ELSE c - 1 - 0 + 1
      BY <3>2, FS_Interval
    <3> QED
      BY <1>2, <3>1, <3>3
  <2>3. rank \in Surjection(K, D)
    <3> HIDE DEF rank, D
    <3> QED
      BY <1>2, <2>1, <2>2, FS_Injection
  <2>4. \A d \in D : \E i \in K : rank[i] = d
    <3> HIDE DEF rank, D
    <3> QED
      BY <2>3, Fun_SurjectionProperties
  <2>5. \A k \in 1 .. c : k - 1 \in D
    BY <1>2
  <2> QED
    BY <2>4, <2>5
<1> QED
  BY <1>1, <1>2, <1>3, <1>4, <1>5, <1>6

\* What Part returns: the elements at the positions K, each once and in their order.
LEMMA PartFacts ==
    ASSUME NEW S, NEW seq \in Seq(S), NEW K, K \subseteq DOMAIN seq
    PROVE  /\ Part(seq, K) \in Seq(S)
           /\ \E order \in [DOMAIN Part(seq, K) -> K] :
                 /\ \A j, k \in DOMAIN Part(seq, K) : order[j] = order[k] => j = k
                 /\ \A j, k \in DOMAIN Part(seq, K) : j < k => order[j] < order[k]
                 /\ \A i \in K : \E k \in DOMAIN Part(seq, K) : order[k] = i
                 /\ \A k \in DOMAIN Part(seq, K) : Part(seq, K)[k] = seq[order[k]]
<1>1. PICK n \in Nat : n = Len(seq) /\ DOMAIN seq = 1 .. n
  BY LenProperties
<1>2. K \in SUBSET (1 .. n)
  BY <1>1
<1>3. PICK c \in Nat : c = Cardinality(K)
  BY <1>1, <1>2, Ranks
<1> DEFINE at(k) == CHOOSE i \in K : Rank(K, i) = k - 1
           order == [k \in 1 .. c |-> at(k)]
           part == [k \in 1 .. c |-> seq[at(k)]]
<1>4. \A k \in 1 .. c : at(k) \in K /\ Rank(K, at(k)) = k - 1
  <2>1. \A k \in 1 .. c : \E i \in K : Rank(K, i) = k - 1
    BY <1>1, <1>2, <1>3, Ranks
  <2> QED
    BY <2>1
<1>5. Part(seq, K) = part
  BY <1>3 DEF Part
<1>6. order \in [1 .. c -> K] /\ \A k \in 1 .. c : part[k] = seq[order[k]]
  BY <1>4
<1>7. part \in Seq(S)
  <2>1. \A i \in K : seq[i] \in S
    BY <1>1, <1>2, ElementOfSeq
  <2>2. part \in [1 .. c -> S]
    BY <1>4, <2>1
  <2> HIDE DEF part
  <2> QED
    BY <2>2, SeqDef
<1>8. \A j, k \in 1 .. c : order[j] = order[k] => j = k
  <2>1. \A k \in 1 .. c : Rank(K, order[k]) = k - 1
    BY <1>4
  <2>2. \A j, k \in 1 .. c : j - 1 = k - 1 => j = k
    BY <1>3
  <2> HIDE DEF order
  <2> QED
    BY <2>1, <2>2
<1>9. \A i \in K : \E k \in 1 .. c : order[k] = i
  <2>1. SUFFICES ASSUME NEW i \in K
                 PROVE  \E k \in 1 .. c : order[k] = i
    OBVIOUS
  <2>2. PICK r \in 0 .. c - 1 : r = Rank(K, i)
    BY <1>1, <1>2, <1>3, Ranks
  <2>3. r + 1 \in 1 .. c /\ r + 1 - 1 = r
    BY <1>3
  <2>4. at(r + 1) \in K /\ Rank(K, at(r + 1)) = Rank(K, i)
    BY <1>4, <2>2, <2>3
  <2>5. at(r + 1) = i
    BY <1>1, <1>2, <2>4, Ranks
  <2> QED
    BY <2>3, <2>5
<1>12. \A j, k \in 1 .. c : j < k => order[j] < order[k]
  <2>1. \A k \in 1 .. c : order[k] \in K /\ Rank(K, order[k]) = k - 1
    BY <1>4
  <2> HIDE DEF order
  <2>2. SUFFICES ASSUME NEW j \in 1 .. c, NEW k \in 1 .. c, j < k, ~(order[j] < order[k])
                 PROVE  FALSE
    OBVIOUS
  <2>3. order[k] \in 1 .. n /\ order[j] \in 1 .. n
    BY <1>2, <2>1
  <2>4. order[k] < order[j] \/ order[k] = order[j]
    BY <2>2, <2>3
  <2>5. order[k] < order[j] => Rank(K, order[k]) < Rank(K, order[j])
    BY <1>1, <1>2, <2>1, Ranks
  <2> QED
    BY <1>8, <2>1, <2>2, <2>4, <2>5
<1>10. DOMAIN part = 1 .. c
  OBVIOUS
<1>11. \E o \in [DOMAIN part -> K] :
          /\ \A j, k \in DOMAIN part : o[j] = o[k] => j = k
          /\ \A j, k \in DOMAIN part : j < k => o[j] < o[k]
          /\ \A i \in K : \E k \in DOMAIN part : o[k] = i
          /\ \A k \in DOMAIN part : part[k] = seq[o[k]]
  <2> HIDE DEF part, order
  <2>1. order \in [DOMAIN part -> K]
    BY <1>6, <1>10
  <2>2. \A j, k \in DOMAIN part : order[j] = order[k] => j = k
    BY <1>8, <1>10
  <2>3. \A i \in K : \E k \in DOMAIN part : order[k] = i
    BY <1>9, <1>10
  <2>4. \A k \in DOMAIN part : part[k] = seq[order[k]]
    BY <1>6, <1>10
  <2>5. \A j, k \in DOMAIN part : j < k => order[j] < order[k]
    BY <1>10, <1>12
  <2> WITNESS order \in [DOMAIN part -> K]
  <2> QED
    BY <2>2, <2>3, <2>4, <2>5
<1> HIDE DEF part, order
<1> QED
  BY <1>5, <1>7, <1>11

-----------------------------------------------------------------------------
(* Lists *)

\* A list and a new last element
LEMMA Appended ==
    ASSUME NEW S, NEW s \in Seq(S), NEW e \in S
    PROVE  /\ Append(s, e) \in Seq(S)
           /\ \A k \in DOMAIN s : k \in DOMAIN Append(s, e) /\ Append(s, e)[k] = s[k]
           /\ \E l \in DOMAIN Append(s, e) :
                 /\ l \notin DOMAIN s /\ Append(s, e)[l] = e
                 /\ \A k \in DOMAIN Append(s, e) : k <= l /\ (k \in DOMAIN s \/ k = l)
                 /\ s = << >> => l = 1
           /\ s # << >> => 1 \in DOMAIN s
<1>1. PICK n \in Nat : n = Len(s) /\ DOMAIN s = 1 .. n
  BY LenProperties
<1> DEFINE t == Append(s, e)
<1>2. t \in Seq(S) /\ Len(t) = n + 1 /\ t[n + 1] = e /\ \A k \in 1 .. n : t[k] = s[k]
  BY <1>1, AppendProperties
<1>3. DOMAIN t = 1 .. n + 1
  BY <1>2, LenProperties
<1>4. s = << >> => n = 0
  BY <1>1
<1>5. s # << >> => n # 0
  BY <1>1, EmptySeq
<1>6. n + 1 \in 1 .. n + 1 /\ n + 1 \notin 1 .. n
      /\ \A k \in 1 .. n + 1 : k <= n + 1 /\ (k \in 1 .. n \/ k = n + 1)
  OBVIOUS
<1>7. 1 .. n \subseteq 1 .. n + 1
  OBVIOUS
<1> HIDE DEF t
<1>8. t \in Seq(S)
      /\ (\A k \in DOMAIN s : k \in DOMAIN t /\ t[k] = s[k])
      /\ (\E l \in DOMAIN t :
             /\ l \notin DOMAIN s /\ t[l] = e
             /\ \A k \in DOMAIN t : k <= l /\ (k \in DOMAIN s \/ k = l)
             /\ s = << >> => l = 1)
  <2>1. \A k \in DOMAIN s : k \in DOMAIN t /\ t[k] = s[k]
    BY <1>1, <1>2, <1>3, <1>7
  <2>2. n + 1 \in DOMAIN t
    BY <1>3, <1>6
  <2>3. n + 1 \notin DOMAIN s /\ t[n + 1] = e
    BY <1>1, <1>2, <1>6
  <2>4. \A k \in DOMAIN t : k <= n + 1 /\ (k \in DOMAIN s \/ k = n + 1)
    BY <1>1, <1>3, <1>6
  <2>5. s = << >> => n + 1 = 1
    BY <1>4
  <2> QED
    BY <1>2, <2>1, <2>2, <2>3, <2>4, <2>5
<1>9. s # << >> => 1 \in DOMAIN s
  BY <1>1, <1>5
<1> QED
  BY <1>8, <1>9 DEF t

\* A list without its first element
LEMMA Popped ==
    ASSUME NEW S, NEW s \in Seq(S), s # << >>
    PROVE  /\ Head(s) \in S /\ Head(s) = s[1] /\ 1 \in DOMAIN s
           /\ Tail(s) \in Seq(S)
           /\ \A k \in DOMAIN Tail(s) :
                 k \in Nat /\ k + 1 \in DOMAIN s /\ Tail(s)[k] = s[k + 1] /\ k + 1 # 1
           /\ \A k \in DOMAIN s :
                 k \in Nat /\ (k = 1 \/ (k - 1 \in DOMAIN Tail(s) /\ Tail(s)[k - 1] = s[k]))
<1>1. PICK n \in Nat : n = Len(s) /\ DOMAIN s = 1 .. n
  BY LenProperties
<1>2. n # 0
  BY <1>1, EmptySeq
<1> DEFINE t == Tail(s)
<1>3. Head(s) \in S /\ t \in Seq(S) /\ Len(t) = n - 1
      /\ \A k \in 1 .. Len(t) : t[k] = s[k + 1]
  BY <1>1, HeadTailProperties
<1>4. Head(s) = s[1]
  OBVIOUS
<1>5. DOMAIN t = 1 .. n - 1
  BY <1>3, LenProperties
<1>6. \A k \in 1 .. n - 1 : k \in Nat /\ k + 1 \in 1 .. n /\ k + 1 # 1
  BY <1>2
<1>7. \A k \in 1 .. n : k \in Nat /\ (k = 1 \/ (k - 1 \in 1 .. n - 1 /\ k - 1 + 1 = k))
  BY <1>2
<1>8. 1 \in 1 .. n
  BY <1>2
<1>9. \A k \in 1 .. n - 1 : t[k] = s[k + 1]
  BY <1>3
<1> HIDE DEF t
<1>10. \A k \in DOMAIN t : k \in Nat /\ k + 1 \in DOMAIN s /\ t[k] = s[k + 1] /\ k + 1 # 1
  BY <1>1, <1>5, <1>6, <1>9
<1>11. \A k \in DOMAIN s : k \in Nat /\ (k = 1 \/ (k - 1 \in DOMAIN t /\ t[k - 1] = s[k]))
  BY <1>1, <1>5, <1>7, <1>9
<1> QED
  BY <1>1, <1>3, <1>4, <1>8, <1>10, <1>11 DEF t

\* One list after another
LEMMA Extended ==
    ASSUME NEW S, NEW s \in Seq(S), NEW t \in Seq(S)
    PROVE  /\ s \o t \in Seq(S)
           /\ \E n \in Nat :
                 /\ DOMAIN s = 1 .. n
                 /\ \A k \in DOMAIN (s \o t) :
                       \/ k \in DOMAIN s /\ (s \o t)[k] = s[k]
                       \/ k \notin DOMAIN s /\ k - n \in DOMAIN t /\ (s \o t)[k] = t[k - n]
                 /\ \A k \in DOMAIN (s \o t) : k \in Nat
<1>1. PICK n \in Nat : n = Len(s) /\ DOMAIN s = 1 .. n
  BY LenProperties
<1>2. PICK l \in Nat : l = Len(t) /\ DOMAIN t = 1 .. l
  BY LenProperties
<1> DEFINE u == s \o t
<1>3. u \in Seq(S) /\ Len(u) = n + l
      /\ \A k \in 1 .. n + l : u[k] = IF k <= n THEN s[k] ELSE t[k - n]
  BY <1>1, <1>2, ConcatProperties
<1>4. DOMAIN u = 1 .. n + l
  BY <1>3, LenProperties
<1>5. \A k \in 1 .. n + l :
         /\ k \in Nat
         /\ \/ k <= n /\ k \in 1 .. n
            \/ ~(k <= n) /\ k \notin 1 .. n /\ k - n \in 1 .. l
  OBVIOUS
<1> HIDE DEF u
<1>6. \A k \in DOMAIN u :
         \/ k \in DOMAIN s /\ u[k] = s[k]
         \/ k \notin DOMAIN s /\ k - n \in DOMAIN t /\ u[k] = t[k - n]
  BY <1>1, <1>2, <1>3, <1>4, <1>5
<1>7. \A k \in DOMAIN u : k \in Nat
  BY <1>4, <1>5
<1> QED
  BY <1>1, <1>3, <1>6, <1>7 DEF u

\* The beginning of a list
LEMMA Shortened ==
    ASSUME NEW S, NEW s \in Seq(S), NEW a \in 0 .. Len(s)
    PROVE  /\ SubSeq(s, 1, a) \in Seq(S)
           /\ \A k \in DOMAIN SubSeq(s, 1, a) :
                 k \in DOMAIN s /\ SubSeq(s, 1, a)[k] = s[k]
           /\ SubSeq(s, 1, a) # << >> => 1 \in DOMAIN SubSeq(s, 1, a)
<1>1. PICK n \in Nat : n = Len(s) /\ DOMAIN s = 1 .. n
  BY LenProperties
<1> DEFINE t == SubSeq(s, 1, a)
<1>2. a \in Nat /\ a <= n /\ 1 \in Int /\ a \in Int
  BY <1>1
<1>3. \A i \in 1 .. a : s[i] \in S
  BY <1>1, <1>2, ElementOfSeq
<1>4. t \in Seq(S) /\ Len(t) = (IF 1 <= a THEN a - 1 + 1 ELSE 0)
      /\ \A i \in 1 .. a - 1 + 1 : t[i] = s[1 + i - 1]
  BY <1>2, <1>3, SubSeqProperties
<1>5. Len(t) = a
  BY <1>2, <1>4
<1>6. DOMAIN t = 1 .. a
  BY <1>4, <1>5, LenProperties
<1>7. \A k \in 1 .. a : k \in 1 .. n /\ k \in 1 .. a - 1 + 1 /\ 1 + k - 1 = k
  BY <1>2
<1>8. \A k \in 1 .. a : t[k] = s[k]
  BY <1>4, <1>7
<1> HIDE DEF t
<1>9. \A k \in DOMAIN t : k \in DOMAIN s /\ t[k] = s[k]
  BY <1>1, <1>6, <1>7, <1>8
<1>10. t # << >> => 1 \in DOMAIN t
  BY <1>2, <1>4, <1>5, <1>6, EmptySeq
<1> QED
  BY <1>4, <1>9, <1>10 DEF t

-----------------------------------------------------------------------------
(* The invariant *)

Writers == {"own", "others"}
MutationIds == Writers \X Nat
Mutations == [id : MutationIds, op : {"create", "update", "copy", "delete", "clear"},
              on : SUBSET Items, to : SUBSET Items]
OwnMutations == {m \in Mutations : m.id[1] = "own"}
Writes == [m : OwnMutations, queued : BOOLEAN, redraw : BOOLEAN]
Casts == {c \in [kind : {"cast"}, m : Mutations, own : BOOLEAN, seq : Nat] :
             c.own <=> c.m.id[1] = "own"}
Batches == [kind : {"batch"}, ms : Seq(Mutations)]
Answers == [kind : {"rejected"}, id : MutationIds] \cup [kind : {"limited"}]
Sendings == Casts \cup Batches \cup Answers
Bounds == [own : Nat, others : Nat, refusals : Nat, limits : Nat, cuts : Nat, waits : Nat,
           guarded : BOOLEAN]
Spent == {"own", "others", "refusals", "limits", "cuts", "waits"}

PageFields == {"view", "seq", "awaiting", "paused", "journal", "buffer", "inbox",
               "waiting", "pending", "stray", "crossed"}
IsPage(p) ==
    /\ DOMAIN p = PageFields
    /\ p.seq \in Nat /\ p.awaiting \in BOOLEAN /\ p.paused \in BOOLEAN
    /\ p.buffer \in Seq(Writes) /\ Distinct(p.buffer)
    /\ p.inbox \in Seq(Casts)

TypeInv ==
    /\ hist \in Seq(Mutations) /\ up \in Seq(OwnMutations) /\ down \in Seq(Sendings)
    /\ link \in {"none", "connecting", "joined", "broken"}
    /\ left \in Bounds
    /\ IsPage(page)

\* Mutations under way, in the buffer or accepted are numbered above those to come.
NumberInv ==
    /\ \A k \in DOMAIN page.buffer : page.buffer[k].m.id[2] > left.own
    /\ \A k \in DOMAIN up : up[k].id[2] > left.own
    /\ \A k \in DOMAIN hist : hist[k].id[1] = "own" => hist[k].id[2] > left.own
    /\ \A k \in DOMAIN hist : hist[k].id[1] = "others" => hist[k].id[2] > left.others

\* The last a page hears on a connection on which it wrote too fast is just that.
LinkInv ==
    /\ link # "joined" => up = << >>
    /\ link \in {"none", "connecting"} =>
          page.awaiting /\ down = << >> /\ page.inbox = << >>
    /\ \A k \in DOMAIN down : down[k].kind = "limited" =>
          link = "broken" /\ \A j \in DOMAIN down : j <= k

\* The replay comes first.
AwaitInv ==
    /\ page.awaiting =>
          /\ up = << >> /\ page.waiting = << >> /\ page.inbox = << >>
          /\ IF down = << >> THEN link # "joined" ELSE down[1].kind = "batch"
    /\ \A k \in DOMAIN down : down[k].kind = "batch" => k = 1 /\ page.awaiting

\* What is held back is drawn again, and its answers are there or will never come.
PauseInv ==
    page.paused =>
        /\ up = << >>
        /\ \A k \in DOMAIN page.buffer : page.buffer[k].redraw
        /\ \A k \in DOMAIN down : down[k].kind = "cast" => ~down[k].own

\* Nothing is sent twice, or after it was accepted.
SentOnce(b) ==
    \A j \in DOMAIN up, k \in DOMAIN b : up[j].id = b[k].m.id => ~b[k].queued
UpInv ==
    /\ \A j, k \in DOMAIN up : up[j].id = up[k].id => j = k
    /\ SentOnce(page.buffer)
    /\ \A j \in DOMAIN up, k \in DOMAIN hist : up[j].id = hist[k].id => up[j].id \in unacked

\* A write that was accepted leaves the buffer when its cast is heard, or is not sent
\* again because the connection broke.
Carries(msgs, id) ==
    \E k \in DOMAIN msgs : msgs[k].kind = "cast" /\ msgs[k].own /\ msgs[k].m.id = id
Heard(b) ==
    \A j \in DOMAIN hist, k \in DOMAIN b :
        hist[j].id = b[k].m.id /\ hist[j].id \notin unacked =>
            /\ b[k].queued => link = "broken"
            /\ \/ Carries(page.inbox, hist[j].id)
               \/ Carries(down, hist[j].id)
               \/ /\ link = "broken" /\ ~page.paused
                  /\ \A i \in DOMAIN down : down[i].kind # "limited"
HeardInv == Heard(page.buffer)

IInv == /\ TypeInv /\ NumberInv /\ LinkInv /\ AwaitInv /\ PauseInv /\ UpInv /\ HeardInv
        /\ AcceptedOnce

-----------------------------------------------------------------------------
(* What leaves the buffer *)

\* Some of the writes stay in the buffer (resolveBufferedWrite,
\* pruneBufferedWritesForInvalidatingMessage, applyRejectedEntries).
LEMMA PartOfBuffer ==
    ASSUME NEW b \in Seq(Writes), Distinct(b), NEW K, K \subseteq DOMAIN b
    PROVE  /\ Part(b, K) \in Seq(Writes) /\ Distinct(Part(b, K)) /\ Sub(Part(b, K), b)
           /\ \A k \in DOMAIN Part(b, K) : \E i \in K : Part(b, K)[k] = b[i]
<1> DEFINE t == Part(b, K)
<1>1. t \in Seq(Writes)
  BY PartFacts
<1>2. PICK order \in [DOMAIN t -> K] :
         /\ \A j, k \in DOMAIN t : order[j] = order[k] => j = k
         /\ \A k \in DOMAIN t : t[k] = b[order[k]]
  BY PartFacts
<1> HIDE DEF t
<1>3. \A k \in DOMAIN t : order[k] \in K /\ order[k] \in DOMAIN b /\ t[k] = b[order[k]]
  BY <1>2
<1>4. Distinct(t)
  BY <1>2, <1>3 DEF Distinct
<1>5. Sub(t, b)
  BY <1>3 DEF Sub
<1>6. \A k \in DOMAIN t : \E i \in K : t[k] = b[i]
  BY <1>3
<1> QED
  BY <1>1, <1>4, <1>5, <1>6 DEF t

\* The writes that are not dropped, and none that is
LEMMA WithoutFacts ==
    ASSUME NEW b \in Seq(Writes), Distinct(b), NEW ids
    PROVE  /\ Without(b, ids) \in Seq(Writes) /\ Distinct(Without(b, ids))
           /\ Sub(Without(b, ids), b)
           /\ \A k \in DOMAIN Without(b, ids) : Without(b, ids)[k].m.id \notin ids
<1> DEFINE K == {k \in DOMAIN b : b[k].m.id \notin ids}
<1>1. Without(b, ids) = Part(b, K)
  BY DEF Without
<1>2. K \subseteq DOMAIN b /\ \A k \in K : b[k].m.id \notin ids
  OBVIOUS
<1> HIDE DEF K
<1> QED
  BY <1>1, <1>2, PartOfBuffer

\* The same of the writes that others' mutations make void
LEMMA PruneBufferFacts ==
    ASSUME NEW b \in Seq(Writes), Distinct(b), NEW ms
    PROVE  /\ PruneBuffer(b, ms) \in Seq(Writes) /\ Distinct(PruneBuffer(b, ms))
           /\ Sub(PruneBuffer(b, ms), b)
<1> DEFINE K == {k \in DOMAIN b : ~\E n \in DOMAIN ms : Voids(ms[n], b[k].m)}
<1>1. PruneBuffer(b, ms) = Part(b, K)
  BY DEF PruneBuffer
<1>2. K \subseteq DOMAIN b
  OBVIOUS
<1> HIDE DEF K
<1> QED
  BY <1>1, <1>2, PartOfBuffer

\* A page that dropped some of its writes, and is else as it was
Filtered(q, p) ==
    /\ IsPage(q)
    /\ q.awaiting = p.awaiting /\ q.paused = p.paused /\ q.inbox = p.inbox
    /\ q.pending = p.pending /\ q.stray = p.stray
    /\ Sub(q.buffer, p.buffer)

\* Dropping writes twice is dropping writes.
LEMMA FilteredTwice ==
    ASSUME NEW p, NEW q, NEW r, Filtered(q, p), Filtered(r, q)
    PROVE  Filtered(r, p)
  BY DEF Filtered, Sub

\* applyRejectedEntries drops writes.
LEMMA UndoFacts ==
    ASSUME NEW p, IsPage(p), NEW ids
    PROVE  Filtered(Undo(p, ids), p)
<1> DEFINE b == Without(p.buffer, ids)
<1>1. b \in Seq(Writes) /\ Distinct(b) /\ Sub(b, p.buffer)
  BY WithoutFacts DEF IsPage
<1> HIDE DEF b
<1>2. PICK j, v, x : Undo(p, ids) = [p EXCEPT !.journal = j, !.buffer = b, !.view = v,
                                             !.crossed = x]
  BY DEF Undo, b
<1>3. IsPage(Undo(p, ids)) /\ Undo(p, ids).buffer = b
  BY <1>1, <1>2 DEF IsPage, PageFields
<1> QED
  BY <1>1, <1>2, <1>3 DEF Filtered, IsPage, PageFields

\* rejectMutation drops writes.
LEMMA RejectFacts ==
    ASSUME NEW p, IsPage(p), NEW id
    PROVE  Filtered(Reject(p, id), p)
<1>1. PICK ids : Reject(p, id) = [Undo(p, ids) EXCEPT !.buffer = Without(@, {id})]
  BY DEF Reject
<1> DEFINE u == Undo(p, ids)
<1>2. Filtered(u, p)
  BY UndoFacts
<1> HIDE DEF u
<1> DEFINE b == Without(u.buffer, {id})
<1>3. b \in Seq(Writes) /\ Distinct(b) /\ Sub(b, u.buffer)
  BY <1>2, WithoutFacts DEF Filtered, IsPage
<1>4. Reject(p, id) = [u EXCEPT !.buffer = b]
  BY <1>1 DEF u
<1> HIDE DEF b
<1>5. Filtered(Reject(p, id), u)
  BY <1>2, <1>3, <1>4 DEF Filtered, IsPage, PageFields
<1> QED
  BY <1>2, <1>5, FilteredTwice

\* pruneForAuthoritativeMessage and pruneBufferedWritesForInvalidatingMessage drop
\* writes.
LEMMA PruneFacts ==
    ASSUME NEW p, IsPage(p), NEW m
    PROVE  Filtered([PruneJournal(p, m) EXCEPT !.buffer = PruneBuffer(@, <<m>>)], p)
<1>1. PICK ids : PruneJournal(p, m) = Undo(p, ids)
  BY DEF PruneJournal
<1> DEFINE u == Undo(p, ids)
<1>2. Filtered(u, p)
  BY UndoFacts
<1> HIDE DEF u
<1> DEFINE b == PruneBuffer(u.buffer, <<m>>)
<1>3. b \in Seq(Writes) /\ Distinct(b) /\ Sub(b, u.buffer)
  BY <1>2, PruneBufferFacts DEF Filtered, IsPage
<1> DEFINE q == [PruneJournal(p, m) EXCEPT !.buffer = PruneBuffer(@, <<m>>)]
<1>4. q = [u EXCEPT !.buffer = b]
  BY <1>1 DEF u
<1> HIDE DEF b, q
<1>5. Filtered(q, u)
  BY <1>2, <1>3, <1>4 DEF Filtered, IsPage, PageFields
<1>6. Filtered(q, p)
  BY <1>2, <1>5, FilteredTwice
<1> QED
  BY <1>6 DEF q

\* An acknowledged write leaves the buffer.
LEMMA AcknowledgeFacts ==
    ASSUME NEW p, IsPage(p), NEW m
    PROVE  /\ Filtered(Acknowledge(p, m), p)
           /\ \A k \in DOMAIN Acknowledge(p, m).buffer :
                 Acknowledge(p, m).buffer[k].m.id # m.id
<1> DEFINE b == Without(p.buffer, {m.id})
<1>1. /\ b \in Seq(Writes) /\ Distinct(b) /\ Sub(b, p.buffer)
      /\ \A k \in DOMAIN b : b[k].m.id # m.id
  BY WithoutFacts DEF IsPage
<1> HIDE DEF b
<1>2. PICK j, x : Acknowledge(p, m) = [p EXCEPT !.journal = j, !.buffer = b, !.seq = p.seq + 1,
                                               !.crossed = x]
  BY DEF Acknowledge, b
<1>3. p.seq + 1 \in Nat
  BY DEF IsPage
<1>4. Acknowledge(p, m).buffer = b
  BY <1>2 DEF IsPage, PageFields
<1>5. IsPage(Acknowledge(p, m))
  BY <1>1, <1>2, <1>3 DEF IsPage, PageFields
<1>6. Filtered(Acknowledge(p, m), p)
  BY <1>1, <1>2, <1>4, <1>5 DEF Filtered, IsPage, PageFields
<1> QED
  BY <1>1, <1>4, <1>6

\* What is drawn does not change the buffer.
LEMMA DrawFacts ==
    ASSUME NEW p, IsPage(p), NEW m, Draw(p, m)
    PROVE  Filtered(page', p)
<1>1. Sub(p.buffer, p.buffer)
  BY DEF Sub
<1>2. CASE page' = p
  BY <1>1, <1>2 DEF Filtered
<1>3. CASE page' = Show(p, m)
  <2>1. PICK v, x : page' = [p EXCEPT !.view = v, !.seq = p.seq + 1, !.crossed = x]
    BY <1>3 DEF Show
  <2>2. p.seq + 1 \in Nat
    BY DEF IsPage
  <2>3. IsPage(page') /\ page'.buffer = p.buffer
    BY <2>1, <2>2 DEF IsPage, PageFields
  <2> QED
    BY <1>1, <2>1, <2>3 DEF Filtered, IsPage, PageFields
<1> QED
  BY <1>2, <1>3 DEF Draw

\* What a step may spend of the bounds but for its writes
SameNumbers ==
    /\ left' \in Bounds /\ left'.own = left.own /\ left'.others = left.others
    /\ left'.guarded = left.guarded

\* Spending a bound
LEMMA SpendFacts ==
    ASSUME left \in Bounds, NEW what \in Spent, Spend(what)
    PROVE  /\ left' \in Bounds
           /\ left[what] \in Nat /\ left'[what] \in Nat /\ left[what] > left'[what]
           /\ \A other \in DOMAIN left : other # what => left'[other] = left[other]
<1>1. DOMAIN left = Spent \cup {"guarded"} /\ left.guarded \in BOOLEAN /\ what # "guarded"
  BY DEF Bounds, Spent
<1>2. \A f \in Spent : left[f] \in Nat
  BY <1>1 DEF Bounds, Spent
<1>3. PICK n \in Nat : n = left[what] /\ n > 0
  BY <1>2 DEF Spend
<1>4. n - 1 \in Nat /\ n > n - 1
  BY <1>3
<1>5. left' = [left EXCEPT ![what] = n - 1]
  BY <1>3 DEF Spend
<1>6. (\A f \in Spent : left'[f] \in Nat) /\ left'.guarded \in BOOLEAN
  BY <1>1, <1>2, <1>4, <1>5
<1>7. left' \in Bounds
  <2>1. DOMAIN left' = DOMAIN left
    BY <1>5
  <2>2. left' = [own |-> left'.own, others |-> left'.others, refusals |-> left'.refusals,
                 limits |-> left'.limits, cuts |-> left'.cuts, waits |-> left'.waits,
                 guarded |-> left'.guarded]
    BY <1>1, <1>5, <2>1 DEF Bounds
  <2>3. left'.own \in Nat /\ left'.others \in Nat /\ left'.refusals \in Nat
        /\ left'.limits \in Nat /\ left'.cuts \in Nat /\ left'.waits \in Nat
    BY <1>6 DEF Spent
  <2> HIDE DEF Bounds
  <2> DEFINE a == left'.own
             c == left'.others
             d == left'.refusals
             e == left'.limits
             f == left'.cuts
             g == left'.waits
             h == left'.guarded
  <2>4. /\ a \in Nat /\ c \in Nat /\ d \in Nat /\ e \in Nat /\ f \in Nat /\ g \in Nat
        /\ h \in BOOLEAN
    BY <1>6, <2>3
  <2>5. left' = [own |-> a, others |-> c, refusals |-> d, limits |-> e, cuts |-> f, waits |-> g,
                 guarded |-> h]
    BY <2>2
  <2> HIDE DEF a, c, d, e, f, g, h
  <2> QED
    BY <2>4, <2>5 DEF Bounds
<1>8. left[what] \in Nat /\ left'[what] \in Nat /\ left[what] > left'[what]
  BY <1>1, <1>3, <1>4, <1>5, <1>6
<1>9. \A other \in DOMAIN left : other # what => left'[other] = left[other]
  BY <1>5
<1> QED
  BY <1>7, <1>8, <1>9

\* The mutation of another page, or the answer to an own one, drops writes; an answered
\* one is among them.
LEMMA ApplyCastFacts ==
    ASSUME NEW p, IsPage(p), left \in Bounds, NEW c, ApplyCast(p, c)
    PROVE  /\ Filtered(page', p) /\ c.kind = "cast"
           /\ c.own => \A k \in DOMAIN page'.buffer : page'.buffer[k].m.id # c.m.id
           /\ UNCHANGED <<up, link, unacked>>
           /\ SameNumbers
<1>1. c.kind = "cast" /\ UNCHANGED <<up, link, unacked>>
  BY DEF ApplyCast
<1>2. CASE c.own /\ page' = Acknowledge(p, c.m) /\ UNCHANGED left
  BY <1>1, <1>2, AcknowledgeFacts DEF SameNumbers
<1>3. CASE /\ ~c.own
           /\ \E q \in {[PruneJournal(p, c.m) EXCEPT !.buffer = PruneBuffer(@, <<c.m>>)]} :
                \/ Draw(q, c.m) /\ UNCHANGED left
                \/ Spend("waits") /\ page' = [q EXCEPT !.waiting = <<c.m>>]
  <2>1. PICK q : /\ Filtered(q, p)
                 /\ \/ Draw(q, c.m) /\ UNCHANGED left
                    \/ Spend("waits") /\ page' = [q EXCEPT !.waiting = <<c.m>>]
    BY <1>3, PruneFacts
  <2>2. CASE Draw(q, c.m) /\ UNCHANGED left
    <3>1. IsPage(q)
      BY <2>1 DEF Filtered
    <3>2. Filtered(page', q)
      BY <2>2, <3>1, DrawFacts
    <3> QED
      BY <1>1, <1>3, <2>1, <2>2, <3>2, FilteredTwice DEF SameNumbers
  <2>3. CASE Spend("waits") /\ page' = [q EXCEPT !.waiting = <<c.m>>]
    <3>1. Filtered(page', p)
      BY <2>1, <2>3 DEF Filtered, IsPage, PageFields
    <3>2. DOMAIN left = Spent \cup {"guarded"}
      BY DEF Bounds, Spent
    <3>3. SameNumbers
      BY <2>3, <3>2, SpendFacts DEF SameNumbers, Spent
    <3> QED
      BY <1>1, <1>3, <3>1, <3>3
  <2> QED
    BY <2>1, <2>2, <2>3
<1> QED
  BY <1>2, <1>3 DEF ApplyCast

-----------------------------------------------------------------------------
(* What is sent *)

\* pumpBufferedWrites marks the writes it sends, and is else about the drawing.
LEMMA PumpedFacts ==
    ASSUME NEW p, IsPage(p), NEW n
    PROVE  /\ IsPage(Pumped(p, n))
           /\ Pumped(p, n).awaiting = p.awaiting /\ Pumped(p, n).paused = p.paused
           /\ Pumped(p, n).inbox = p.inbox /\ Pumped(p, n).waiting = p.waiting
           /\ Pumped(p, n).pending = p.pending /\ Pumped(p, n).stray = p.stray
           /\ DOMAIN Pumped(p, n).buffer = DOMAIN p.buffer
           /\ \A k \in DOMAIN p.buffer :
                 /\ Pumped(p, n).buffer[k].m = p.buffer[k].m
                 /\ IF k \in First(Queued(p.buffer), n) THEN ~Pumped(p, n).buffer[k].queued
                    ELSE Pumped(p, n).buffer[k] = p.buffer[k]
<1> DEFINE next == First(Queued(p.buffer), n)
           b == [k \in DOMAIN p.buffer |->
                   IF k \in next
                   THEN [m |-> p.buffer[k].m, queued |-> FALSE, redraw |-> FALSE]
                   ELSE p.buffer[k]]
<1>1. PICK j, v : Pumped(p, n) = [p EXCEPT !.view = v, !.journal = j, !.buffer = b]
  BY DEF Pumped
<1>2. p.buffer \in Seq(Writes) /\ Distinct(p.buffer)
  BY DEF IsPage
<1>3. \A k \in DOMAIN p.buffer : p.buffer[k] \in Writes
  BY <1>2
<1>4. DOMAIN b = DOMAIN p.buffer
  OBVIOUS
<1>5. \A k \in DOMAIN p.buffer :
        /\ b[k] \in Writes /\ b[k].m = p.buffer[k].m
        /\ IF k \in next THEN ~b[k].queued ELSE b[k] = p.buffer[k]
  <2> SUFFICES ASSUME NEW k \in DOMAIN p.buffer
               PROVE  /\ b[k] \in Writes /\ b[k].m = p.buffer[k].m
                      /\ IF k \in next THEN ~b[k].queued ELSE b[k] = p.buffer[k]
    OBVIOUS
  <2>1. p.buffer[k] \in Writes
    BY <1>3
  <2>2. PICK m \in OwnMutations : m = p.buffer[k].m
    BY <2>1 DEF Writes
  <2> HIDE DEF next
  <2>3. CASE k \in next
    <3>1. b[k] = [m |-> m, queued |-> FALSE, redraw |-> FALSE]
      BY <2>2, <2>3
    <3> HIDE DEF b
    <3> QED
      BY <2>2, <2>3, <3>1 DEF Writes
  <2>4. CASE k \notin next
    BY <2>1, <2>4
  <2> QED
    BY <2>3, <2>4
<1>6. b \in Seq(Writes)
  <2>1. PICK l \in Nat : DOMAIN p.buffer = 1 .. l
    BY <1>2
  <2> HIDE DEF b
  <2>2. b \in [1 .. l -> Writes]
    BY <1>4, <1>5, <2>1 DEF b
  <2> QED
    BY <2>2, SeqDef
<1>7. Distinct(b)
  <2> HIDE DEF b
  <2> QED
    BY <1>2, <1>4, <1>5 DEF Distinct
<1> HIDE DEF b, next
<1>8. Pumped(p, n).buffer = b /\ IsPage(Pumped(p, n))
  BY <1>1, <1>6, <1>7 DEF IsPage, PageFields
<1>9. /\ Pumped(p, n).awaiting = p.awaiting /\ Pumped(p, n).paused = p.paused
      /\ Pumped(p, n).inbox = p.inbox /\ Pumped(p, n).waiting = p.waiting
      /\ Pumped(p, n).pending = p.pending /\ Pumped(p, n).stray = p.stray
  BY <1>1
<1> QED
  BY <1>4, <1>5, <1>8, <1>9 DEF next

\* The messages are queued writes, each once.
LEMMA MessagesFacts ==
    ASSUME NEW p, IsPage(p), NEW n
    PROVE  /\ Messages(p, n) \in Seq(OwnMutations)
           /\ \A k \in DOMAIN Messages(p, n) :
                 \E i \in First(Queued(p.buffer), n) :
                    i \in DOMAIN p.buffer /\ p.buffer[i].queued /\ Messages(p, n)[k] = p.buffer[i].m
           /\ \A j, k \in DOMAIN Messages(p, n) :
                 Messages(p, n)[j].id = Messages(p, n)[k].id => j = k
<1> DEFINE next == First(Queued(p.buffer), n)
           w == Part(p.buffer, next)
           ms == [k \in DOMAIN w |-> w[k].m]
<1>1. Messages(p, n) = ms
  BY DEF Messages
<1>2. p.buffer \in Seq(Writes) /\ Distinct(p.buffer)
  BY DEF IsPage
<1>3. next \subseteq DOMAIN p.buffer /\ \A i \in next : p.buffer[i].queued
  BY DEF First, Queued
<1> HIDE DEF next
<1>4. /\ w \in Seq(Writes) /\ Distinct(w)
      /\ \A k \in DOMAIN w : \E i \in next : w[k] = p.buffer[i]
  BY <1>2, <1>3, PartOfBuffer
<1> HIDE DEF w
<1>5. DOMAIN ms = DOMAIN w /\ \A k \in DOMAIN w : ms[k] = w[k].m
  OBVIOUS
<1>6. ms \in Seq(OwnMutations)
  <2>1. PICK l \in Nat : DOMAIN w = 1 .. l
    BY <1>4
  <2>2. \A k \in DOMAIN w : w[k] \in Writes
    BY <1>4
  <2>3. \A k \in DOMAIN w : w[k].m \in OwnMutations
    BY <2>2 DEF Writes
  <2>4. ms \in [1 .. l -> OwnMutations]
    BY <2>1, <2>3
  <2> HIDE DEF ms
  <2> QED
    BY <2>4, SeqDef
<1> HIDE DEF ms
<1>7. \A k \in DOMAIN ms : \E i \in next : ms[k] = p.buffer[i].m
  BY <1>4, <1>5
<1>8. \A j, k \in DOMAIN ms : ms[j].id = ms[k].id => j = k
  BY <1>4, <1>5 DEF Distinct
<1>9. \A k \in DOMAIN ms : \E i \in next :
         i \in DOMAIN p.buffer /\ p.buffer[i].queued /\ ms[k] = p.buffer[i].m
  BY <1>3, <1>7
<1> QED
  BY <1>1, <1>6, <1>8, <1>9 DEF next

-----------------------------------------------------------------------------
(* Steps of the page that keep the invariant *)

\* What is under way to the page stays, or its first element is heard.
LEMMA DownKept ==
    ASSUME IInv, down' = down \/ (down # << >> /\ down' = Tail(down))
    PROVE  /\ down' \in Seq(Sendings)
           /\ \A k \in DOMAIN down' : \E i \in DOMAIN down : down'[k] = down[i]
           /\ \A k \in DOMAIN down' : down'[k].kind = "limited" =>
                 link = "broken" /\ \A j \in DOMAIN down' : j <= k
           /\ \A k \in DOMAIN down' : down'[k].kind = "batch" =>
                 k = 1 /\ page.awaiting /\ down' = down
<1>1. down \in Seq(Sendings)
  BY DEF IInv, TypeInv
<1>2. \A k \in DOMAIN down : down[k].kind = "limited" =>
         link = "broken" /\ \A j \in DOMAIN down : j <= k
  BY DEF IInv, LinkInv
<1>3. \A k \in DOMAIN down : down[k].kind = "batch" => k = 1 /\ page.awaiting
  BY DEF IInv, AwaitInv
<1>4. CASE down' = down
  BY <1>1, <1>2, <1>3, <1>4
<1>5. CASE down # << >> /\ down' = Tail(down)
  <2> DEFINE t == Tail(down)
  <2>1. /\ t \in Seq(Sendings)
        /\ \A k \in DOMAIN t :
              k \in Nat /\ k + 1 \in DOMAIN down /\ t[k] = down[k + 1] /\ k + 1 # 1
    BY <1>1, <1>5, Popped
  <2>2. down' = t
    BY <1>5
  <2> HIDE DEF t
  <2>3. \A k \in DOMAIN t : \E i \in DOMAIN down : t[k] = down[i]
    BY <2>1
  <2>4. \A j, k \in DOMAIN t : j + 1 <= k + 1 => j <= k
    BY <2>1
  <2>5. \A k \in DOMAIN t : t[k].kind = "limited" =>
           link = "broken" /\ \A j \in DOMAIN t : j <= k
    BY <1>2, <2>1, <2>4
  <2>6. \A k \in DOMAIN t : t[k].kind # "batch"
    BY <1>3, <2>1
  <2> QED
    BY <2>1, <2>2, <2>3, <2>5, <2>6
<1> QED
  BY <1>4, <1>5

\* Steps after which the page has dropped some of its writes, and among them those whose
\* casts were heard.
LEMMA FilterKeeps ==
    ASSUME IInv, IsPage(page'), Sub(page'.buffer, page.buffer),
           page'.paused => page.paused, page'.awaiting = page.awaiting,
           page.awaiting => page'.waiting = << >> /\ page'.inbox = << >> /\ down' = down,
           UNCHANGED <<hist, up, link, unacked>>, SameNumbers,
           down' = down \/ (down # << >> /\ down' = Tail(down)),
           \A k \in DOMAIN page'.buffer :
              LET id == page'.buffer[k].m.id
              IN  Carries(page.inbox, id) \/ Carries(down, id) =>
                     Carries(page'.inbox, id) \/ Carries(down', id)
    PROVE  IInv'
<1>1. /\ down' \in Seq(Sendings)
      /\ \A k \in DOMAIN down' : \E i \in DOMAIN down : down'[k] = down[i]
      /\ \A k \in DOMAIN down' : down'[k].kind = "limited" =>
            link = "broken" /\ \A j \in DOMAIN down' : j <= k
      /\ \A k \in DOMAIN down' : down'[k].kind = "batch" =>
            k = 1 /\ page.awaiting /\ down' = down
  BY DownKept
<1>2. \A k \in DOMAIN page'.buffer : \E i \in DOMAIN page.buffer :
         page'.buffer[k] = page.buffer[i]
  BY DEF Sub
<1>3. TypeInv'
  BY <1>1 DEF IInv, TypeInv, SameNumbers
<1>4. NumberInv'
  BY <1>2 DEF IInv, NumberInv, SameNumbers
<1>5. LinkInv'
  <2>1. link \in {"none", "connecting"} => page.awaiting /\ down = << >> /\ link # "joined"
    BY DEF IInv, LinkInv
  <2>2. link \in {"none", "connecting"} =>
           page'.awaiting /\ down' = << >> /\ page'.inbox = << >>
    BY <2>1
  <2>3. link # "joined" => up = << >>
    BY DEF IInv, LinkInv
  <2> QED
    BY <1>1, <2>2, <2>3 DEF LinkInv
<1>6. AwaitInv'
  <2>1. page.awaiting =>
           up = << >> /\ IF down = << >> THEN link # "joined" ELSE down[1].kind = "batch"
    BY DEF IInv, AwaitInv
  <2> QED
    BY <1>1, <2>1 DEF AwaitInv
<1>7. PauseInv'
  <2>1. page.paused =>
          /\ up = << >>
          /\ \A k \in DOMAIN page.buffer : page.buffer[k].redraw
          /\ \A k \in DOMAIN down : down[k].kind = "cast" => ~down[k].own
    BY DEF IInv, PauseInv
  <2> QED
    BY <1>1, <1>2, <2>1 DEF PauseInv
<1>8. UpInv'
  BY <1>2 DEF IInv, UpInv, SentOnce
<1>9. HeardInv'
  <2> SUFFICES ASSUME NEW j \in DOMAIN hist, NEW k \in DOMAIN page'.buffer,
                      hist[j].id = page'.buffer[k].m.id, hist[j].id \notin unacked
               PROVE  /\ page'.buffer[k].queued => link = "broken"
                      /\ \/ Carries(page'.inbox, hist[j].id)
                         \/ Carries(down', hist[j].id)
                         \/ /\ link = "broken" /\ ~page'.paused
                            /\ \A i \in DOMAIN down' : down'[i].kind # "limited"
    BY DEF HeardInv, Heard
  <2>1. PICK i \in DOMAIN page.buffer : page'.buffer[k] = page.buffer[i]
    BY <1>2
  <2>2. /\ page.buffer[i].queued => link = "broken"
        /\ \/ Carries(page.inbox, hist[j].id)
           \/ Carries(down, hist[j].id)
           \/ /\ link = "broken" /\ ~page.paused
              /\ \A l \in DOMAIN down : down[l].kind # "limited"
    BY <2>1 DEF IInv, HeardInv, Heard
  <2>3. CASE Carries(page.inbox, hist[j].id) \/ Carries(down, hist[j].id)
    BY <2>1, <2>2, <2>3
  <2>4. CASE /\ link = "broken" /\ ~page.paused
             /\ \A l \in DOMAIN down : down[l].kind # "limited"
    BY <1>1, <2>1, <2>2, <2>4
  <2> QED
    BY <2>2, <2>3, <2>4
<1>10. AcceptedOnce'
  BY DEF IInv, AcceptedOnce
<1> QED
  BY <1>3, <1>4, <1>5, <1>6, <1>7, <1>8, <1>9, <1>10 DEF IInv

\* Steps that send some of the queued writes of the page p
LEMMA SendKeeps ==
    ASSUME IInv, NEW p, IsPage(p), NEW n \in Nat,
           IsPage(page'), page'.buffer = Pumped(p, n).buffer,
           page'.inbox = page.inbox, page'.paused = p.paused, ~page'.awaiting,
           p.paused => page.paused /\ n = 0 /\ Sub(p.buffer, page.buffer),
           up' = Sent(Messages(p, n)),
           UNCHANGED <<hist, link, unacked>>, link \in {"joined", "broken"},
           left' \in Bounds, left'.own <= left.own, left'.others = left.others,
           \A k \in DOMAIN p.buffer : p.buffer[k].m.id[2] > left'.own,
           SentOnce(p.buffer), Heard(p.buffer),
           down' = down \/ (down # << >> /\ Head(down).kind = "batch" /\ down' = Tail(down)),
           down' = down => ~page.awaiting,
           page.paused => p.paused
    PROVE  IInv'
<1> DEFINE ms == Messages(p, n)
           b == page'.buffer
<1>1. /\ down' \in Seq(Sendings)
      /\ \A k \in DOMAIN down' : \E i \in DOMAIN down : down'[k] = down[i]
      /\ \A k \in DOMAIN down' : down'[k].kind = "limited" =>
            link = "broken" /\ \A j \in DOMAIN down' : j <= k
      /\ \A k \in DOMAIN down' : down'[k].kind # "batch"
  BY DownKept
<1>2. /\ DOMAIN b = DOMAIN p.buffer
      /\ \A k \in DOMAIN p.buffer :
            /\ b[k].m = p.buffer[k].m
            /\ IF k \in First(Queued(p.buffer), n) THEN ~b[k].queued ELSE b[k] = p.buffer[k]
  BY PumpedFacts
<1>3. /\ ms \in Seq(OwnMutations)
      /\ \A k \in DOMAIN ms : \E i \in First(Queued(p.buffer), n) :
            i \in DOMAIN p.buffer /\ p.buffer[i].queued /\ ms[k] = p.buffer[i].m
      /\ \A j, k \in DOMAIN ms : ms[j].id = ms[k].id => j = k
  BY MessagesFacts
<1> HIDE DEF ms, b
<1>4. up \in Seq(OwnMutations) /\ (link # "joined" => up = << >>)
  BY DEF IInv, TypeInv, LinkInv
<1>5. PICK l \in Nat :
        /\ up' \in Seq(OwnMutations)
        /\ \A k \in DOMAIN up' :
              \/ k \in DOMAIN up /\ up'[k] = up[k]
              \/ /\ k \notin DOMAIN up /\ k - l \in DOMAIN ms /\ up'[k] = ms[k - l]
                 /\ link = "joined"
        /\ \A k \in DOMAIN up' : k \in Nat
  <2>1. CASE link = "joined"
    <3>1. up' = up \o ms
      BY <2>1 DEF Sent, ms
    <3>2. PICK l \in Nat :
            /\ DOMAIN up = 1 .. l
            /\ \A k \in DOMAIN (up \o ms) :
                  \/ k \in DOMAIN up /\ (up \o ms)[k] = up[k]
                  \/ k \notin DOMAIN up /\ k - l \in DOMAIN ms /\ (up \o ms)[k] = ms[k - l]
            /\ \A k \in DOMAIN (up \o ms) : k \in Nat
      BY <1>3, <1>4, Extended
    <3>3. up' \in Seq(OwnMutations)
      BY <1>3, <1>4, <3>1, Extended
    <3>4. \A k \in DOMAIN up' :
             \/ k \in DOMAIN up /\ up'[k] = up[k]
             \/ /\ k \notin DOMAIN up /\ k - l \in DOMAIN ms /\ up'[k] = ms[k - l]
                /\ link = "joined"
      BY <2>1, <3>1, <3>2
    <3> QED
      BY <3>1, <3>2, <3>3, <3>4
  <2>2. CASE link # "joined"
    <3>1. up' = up
      BY <2>2 DEF Sent
    <3>2. \A k \in DOMAIN up : k \in Nat
      BY <1>4
    <3> QED
      BY <1>4, <3>1, <3>2
  <2> QED
    BY <2>1, <2>2
<1>6. \A k \in DOMAIN up' :
         \/ k \in DOMAIN up /\ up'[k] = up[k]
         \/ \E i \in DOMAIN p.buffer :
               /\ i \in First(Queued(p.buffer), n) /\ p.buffer[i].queued
               /\ up'[k] = p.buffer[i].m /\ link = "joined"
  BY <1>3, <1>5
<1>7. TypeInv'
  BY <1>1, <1>5 DEF IInv, TypeInv
<1>8. NumberInv'
  <2>1. left.own \in Nat /\ left'.own \in Nat
    BY DEF IInv, TypeInv, Bounds
  <2>2. \A x \in Nat : x > left.own => x > left'.own
    BY <2>1
  <2>3. \A k \in DOMAIN up : up[k].id[2] > left.own /\ up[k].id[2] \in Nat
    <3>1. \A k \in DOMAIN up : up[k] \in OwnMutations
      BY <1>4
    <3> QED
      BY <3>1 DEF IInv, NumberInv, OwnMutations, Mutations, MutationIds
  <2>4. \A k \in DOMAIN hist : hist[k].id[2] \in Nat
    <3>1. \A k \in DOMAIN hist : hist[k] \in Mutations
      BY DEF IInv, TypeInv
    <3> QED
      BY <3>1 DEF Mutations, MutationIds
  <2>5. \A k \in DOMAIN hist : hist[k].id[1] = "own" => hist[k].id[2] > left'.own
    BY <2>2, <2>4 DEF IInv, NumberInv
  <2>6. \A k \in DOMAIN up' : up'[k].id[2] > left'.own
    BY <1>6, <2>2, <2>3
  <2>7. \A k \in DOMAIN b : b[k].m.id[2] > left'.own
    BY <1>2
  <2>8. \A k \in DOMAIN hist : hist[k].id[1] = "others" => hist[k].id[2] > left'.others
    BY DEF IInv, NumberInv
  <2> QED
    BY <2>5, <2>6, <2>7, <2>8 DEF NumberInv, b
<1>9. LinkInv'
  <2>1. link # "joined" => up' = << >>
    BY <1>4 DEF Sent
  <2> QED
    BY <1>1, <2>1 DEF LinkInv
<1>10. AwaitInv'
  BY <1>1 DEF AwaitInv
<1>11. PauseInv'
  <2> SUFFICES ASSUME page'.paused
               PROVE  /\ up' = << >>
                      /\ \A k \in DOMAIN b : b[k].redraw
                      /\ \A k \in DOMAIN down' : down'[k].kind = "cast" => ~down'[k].own
    BY DEF PauseInv, b
  <2>1. /\ up = << >>
        /\ \A k \in DOMAIN page.buffer : page.buffer[k].redraw
        /\ \A k \in DOMAIN down : down[k].kind = "cast" => ~down[k].own
    BY DEF IInv, PauseInv
  <2>2. First(Queued(p.buffer), n) = {}
    <3>1. PICK c \in Nat : DOMAIN p.buffer = 1 .. c
      BY DEF IsPage
    <3>2. Queued(p.buffer) \in SUBSET (1 .. c)
      BY <3>1 DEF Queued
    <3>3. PICK d \in Nat : d = Cardinality(Queued(p.buffer))
      BY <3>2, Ranks
    <3>4. \A i \in Queued(p.buffer) : Rank(Queued(p.buffer), i) \in 0 .. d - 1
      BY <3>2, <3>3, Ranks
    <3>5. \A x \in 0 .. d - 1 : ~(x < 0)
      BY <3>3
    <3> QED
      BY <3>4, <3>5 DEF First
  <2>3. \A k \in DOMAIN up' : FALSE
    BY <1>6, <2>1, <2>2
  <2>4. up' = << >>
    BY <1>5, <2>3
  <2>5. \A k \in DOMAIN b : b[k] = p.buffer[k] /\ k \in DOMAIN p.buffer
    BY <1>2, <2>2
  <2>6. \A k \in DOMAIN b : b[k].redraw
    BY <2>1, <2>5 DEF Sub
  <2> QED
    BY <1>1, <2>1, <2>4, <2>6
<1>12. UpInv'
  <2>1. \A j, k \in DOMAIN up : up[j].id = up[k].id => j = k
    BY DEF IInv, UpInv
  <2>2. \A j \in DOMAIN up, k \in DOMAIN p.buffer :
           up[j].id = p.buffer[k].m.id => ~p.buffer[k].queued
    BY DEF SentOnce
  <2>3. \A j, k \in DOMAIN up' : up'[j].id = up'[k].id => j = k
    <3> SUFFICES ASSUME NEW j \in DOMAIN up', NEW k \in DOMAIN up', up'[j].id = up'[k].id
                 PROVE  j = k
      OBVIOUS
    <3>1. CASE j \in DOMAIN up /\ up'[j] = up[j] /\ k \in DOMAIN up /\ up'[k] = up[k]
      BY <2>1, <3>1
    <3>2. CASE j \in DOMAIN up /\ up'[j] = up[j] /\ k \notin DOMAIN up
      BY <1>6, <2>2, <3>2
    <3>3. CASE k \in DOMAIN up /\ up'[k] = up[k] /\ j \notin DOMAIN up
      BY <1>6, <2>2, <3>3
    <3>4. CASE j \notin DOMAIN up /\ k \notin DOMAIN up
      <4>1. j - l \in DOMAIN ms /\ k - l \in DOMAIN ms /\ ms[j - l].id = ms[k - l].id
        BY <1>5, <3>4
      <4>2. j - l = k - l
        BY <1>3, <4>1
      <4>3. j \in Nat /\ k \in Nat
        BY <1>5
      <4> QED
        BY <4>2, <4>3
    <3> QED
      BY <1>5, <3>1, <3>2, <3>3, <3>4
  <2>4. \A j \in DOMAIN up', k \in DOMAIN b : up'[j].id = b[k].m.id => ~b[k].queued
    <3> SUFFICES ASSUME NEW j \in DOMAIN up', NEW k \in DOMAIN b, up'[j].id = b[k].m.id,
                        b[k].queued
                 PROVE  FALSE
      BY DEF IInv, TypeInv, IsPage, Writes, b
    <3>1. k \in DOMAIN p.buffer /\ k \notin First(Queued(p.buffer), n) /\ b[k] = p.buffer[k]
      BY <1>2
    <3>2. CASE j \in DOMAIN up /\ up'[j] = up[j]
      BY <2>2, <3>1, <3>2
    <3>3. CASE \E i \in DOMAIN p.buffer :
                 /\ i \in First(Queued(p.buffer), n) /\ p.buffer[i].queued
                 /\ up'[j] = p.buffer[i].m
      <4>1. \A i \in DOMAIN p.buffer : p.buffer[i].m.id = p.buffer[k].m.id => i = k
        BY <3>1 DEF IsPage, Distinct
      <4> QED
        BY <3>1, <3>3, <4>1
    <3> QED
      BY <1>6, <3>2, <3>3
  <2>5. \A j \in DOMAIN up', k \in DOMAIN hist :
           up'[j].id = hist[k].id => up'[j].id \in unacked
    <3>1. \A j \in DOMAIN up, k \in DOMAIN hist : up[j].id = hist[k].id => up[j].id \in unacked
      BY DEF IInv, UpInv
    <3>2. \A i \in DOMAIN p.buffer, k \in DOMAIN hist :
             p.buffer[i].queued /\ link = "joined" /\ p.buffer[i].m.id = hist[k].id =>
                hist[k].id \in unacked
      BY DEF Heard
    <3> QED
      BY <1>6, <3>1, <3>2
  <2> QED
    BY <2>3, <2>4, <2>5 DEF UpInv, SentOnce, b
<1>13. HeardInv'
  <2>1. \A id : Carries(down, id) => Carries(down', id)
    <3>1. CASE down' = down
      BY <3>1
    <3>2. CASE down # << >> /\ Head(down).kind = "batch" /\ down' = Tail(down)
      <4>1. down \in Seq(Sendings)
        BY DEF IInv, TypeInv
      <4>2. \A k \in DOMAIN down :
               k = 1 \/ (k - 1 \in DOMAIN Tail(down) /\ Tail(down)[k - 1] = down[k])
        BY <3>2, <4>1, Popped
      <4>3. down[1].kind = "batch"
        BY <3>2, <4>1, Popped
      <4> QED
        BY <3>2, <4>2, <4>3 DEF Carries
    <3> QED
      BY <3>1, <3>2
  <2> SUFFICES ASSUME NEW j \in DOMAIN hist, NEW k \in DOMAIN b,
                      hist[j].id = b[k].m.id, hist[j].id \notin unacked
               PROVE  /\ b[k].queued => link = "broken"
                      /\ \/ Carries(page'.inbox, hist[j].id)
                         \/ Carries(down', hist[j].id)
                         \/ /\ link = "broken" /\ ~page'.paused
                            /\ \A i \in DOMAIN down' : down'[i].kind # "limited"
    BY DEF HeardInv, Heard, b
  <2>2. k \in DOMAIN p.buffer /\ p.buffer[k].m.id = hist[j].id
        /\ (b[k].queued => p.buffer[k].queued)
    BY <1>2
  <2>3. /\ p.buffer[k].queued => link = "broken"
        /\ \/ Carries(page.inbox, hist[j].id)
           \/ Carries(down, hist[j].id)
           \/ /\ link = "broken" /\ ~page.paused
              /\ \A i \in DOMAIN down : down[i].kind # "limited"
    BY <2>2 DEF Heard
  <2>4. (\A i \in DOMAIN down : down[i].kind # "limited") =>
           \A i \in DOMAIN down' : down'[i].kind # "limited"
    BY <1>1
  <2> QED
    BY <2>1, <2>2, <2>3, <2>4
<1>14. AcceptedOnce'
  BY DEF IInv, AcceptedOnce
<1> QED
  BY <1>7, <1>8, <1>9, <1>10, <1>11, <1>12, <1>13, <1>14 DEF IInv

-----------------------------------------------------------------------------
(* The page hears *)

\* The facts about the connection that the steps of the page need
LEMMA Hearing ==
    ASSUME IInv, down # << >>
    PROVE  /\ down \in Seq(Sendings) /\ Head(down) = down[1] /\ 1 \in DOMAIN down
           /\ Head(down) \in Sendings
           /\ link \in {"joined", "broken"}
           /\ Head(down).kind # "batch" => ~page.awaiting
           /\ Head(down).kind = "batch" =>
                 page.awaiting /\ up = << >> /\ page.waiting = << >> /\ page.inbox = << >>
<1>1. /\ down \in Seq(Sendings) /\ Head(down) = down[1] /\ 1 \in DOMAIN down
      /\ Head(down) \in Sendings
  BY Popped DEF IInv, TypeInv
<1>2. link \in {"joined", "broken"}
  BY DEF IInv, TypeInv, LinkInv
<1> QED
  BY <1>1, <1>2 DEF IInv, AwaitInv, TypeInv, IsPage

\* A cast that is no longer in the list it was heard from had that identifier.
LEMMA CarriesAfter ==
    ASSUME NEW S, NEW s \in Seq(S), s # << >>, NEW id, Carries(s, id)
    PROVE  \/ Carries(Tail(s), id)
           \/ Head(s).kind = "cast" /\ Head(s).own /\ Head(s).m.id = id
<1>1. /\ Head(s) = s[1]
      /\ \A k \in DOMAIN s :
            k = 1 \/ (k - 1 \in DOMAIN Tail(s) /\ Tail(s)[k - 1] = s[k])
  BY Popped
<1> QED
  BY <1>1 DEF Carries

\* A page with nothing in its buffer, and nothing under way (beginAuthoritativeResync)
LEMMA StartOverKeeps ==
    ASSUME IInv, IsPage(page'), page'.buffer = << >>, page'.inbox = << >>,
           page'.waiting = << >>, page'.awaiting, page'.paused = page.paused,
           up' = << >>, down' = << >>, link' = "none", UNCHANGED <<hist, left>>,
           unacked \subseteq unacked'
    PROVE  IInv'
<1>1. DOMAIN << >> = {} /\ \A S : << >> \in Seq(S)
  OBVIOUS
<1>2. TypeInv'
  BY <1>1 DEF IInv, TypeInv
<1>3. NumberInv'
  BY <1>1 DEF IInv, NumberInv
<1>4. LinkInv' /\ AwaitInv' /\ PauseInv'
  BY <1>1 DEF LinkInv, AwaitInv, PauseInv
<1>5. UpInv' /\ HeardInv'
  BY <1>1 DEF UpInv, SentOnce, HeardInv, Heard
<1>6. AcceptedOnce'
  BY DEF IInv, AcceptedOnce
<1> QED
  BY <1>2, <1>3, <1>4, <1>5, <1>6 DEF IInv

\* A page that starts over because of a gap
LEMMA ApplyGapKeeps ==
    ASSUME IInv, NEW p, IsPage(p), p.paused = page.paused, NEW c, ApplyGap(p, c),
           down' = << >>, UNCHANGED hist
    PROVE  IInv'
<1>1. page' = Resync(p, FALSE) /\ link' = "none" /\ up' = << >> /\ UNCHANGED left
      /\ unacked \subseteq unacked'
  BY DEF ApplyGap
<1>2. page' = [p EXCEPT !.journal = << >>, !.buffer = << >>, !.inbox = << >>,
                        !.waiting = << >>, !.pending = << >>, !.awaiting = TRUE]
  BY <1>1 DEF Resync
<1>3. /\ DOMAIN page' = PageFields /\ page'.seq = p.seq /\ page'.paused = p.paused
      /\ page'.buffer = << >> /\ page'.inbox = << >> /\ page'.waiting = << >>
      /\ page'.awaiting = TRUE
  BY <1>2 DEF IsPage, PageFields
<1>4. IsPage(page')
  <2>1. << >> \in Seq(Writes) /\ << >> \in Seq(Casts) /\ DOMAIN << >> = {}
    OBVIOUS
  <2>2. Distinct(<< >>)
    BY <2>1 DEF Distinct
  <2> QED
    BY <1>3, <2>1, <2>2 DEF IsPage
<1> QED
  BY <1>1, <1>3, <1>4, StartOverKeeps

\* The replay after a connection
LEMMA ApplyReplayKeeps ==
    ASSUME IInv, down # << >>, page.waiting = << >>, ApplyReplay(page, Head(down)),
           down' = IF link' = "none" THEN << >> ELSE Tail(down), UNCHANGED hist
    PROVE  IInv'
<1> DEFINE b == Head(down)
           q == Replayed(page, b)
           t == PruneBuffer(page.buffer, b.ms)
<1>1. b.kind = "batch" /\ UNCHANGED <<link, left, unacked>>
  BY DEF ApplyReplay
<1>2. PICK n \in 0 .. IF q.paused THEN 0 ELSE Cardinality(Queued(q.buffer)) :
         page' = Pumped(q, n) /\ up' = Sent(Messages(q, n))
  BY DEF ApplyReplay
<1>3. /\ b \in Sendings /\ link \in {"joined", "broken"}
      /\ page.awaiting /\ up = << >> /\ page.inbox = << >>
  BY <1>1, Hearing
<1>4. b \in Batches
  BY <1>1, <1>3 DEF Sendings, Casts, Answers, Batches
<1>5. IsPage(page)
  BY DEF IInv, TypeInv
<1>6. t \in Seq(Writes) /\ Distinct(t) /\ Sub(t, page.buffer)
  BY <1>5, PruneBufferFacts DEF IsPage
<1> HIDE DEF t
<1>7. PICK v : q = [page EXCEPT !.view = v, !.seq = page.seq + Len(b.ms), !.awaiting = FALSE,
                                !.buffer = t]
  BY DEF Replayed, t
<1>8. page.seq + Len(b.ms) \in Nat
  <2>1. b.ms \in Seq(Mutations)
    BY <1>4 DEF Batches
  <2>2. PICK x \in Nat : x = Len(b.ms)
    BY <2>1, LenProperties
  <2>3. page.seq \in Nat
    BY <1>5 DEF IsPage
  <2> QED
    BY <2>2, <2>3
<1> HIDE DEF q, b
<1>9. IsPage(q) /\ q.buffer = t /\ ~q.awaiting /\ q.paused = page.paused
      /\ q.inbox = page.inbox
  BY <1>5, <1>6, <1>7, <1>8 DEF IsPage, PageFields
<1>10. n \in Nat /\ (q.paused => n = 0)
  <2>1. CASE q.paused
    BY <1>2, <2>1
  <2>2. CASE ~q.paused
    <3>1. PICK c \in Nat : DOMAIN q.buffer = 1 .. c
      BY <1>9 DEF IsPage
    <3>2. Queued(q.buffer) \in SUBSET (1 .. c)
      BY <3>1 DEF Queued
    <3>3. PICK d \in Nat : d = Cardinality(Queued(q.buffer))
      BY <3>2, Ranks
    <3> QED
      BY <1>2, <2>2, <3>3
  <2> QED
    BY <2>1, <2>2
<1>11. IsPage(page') /\ page'.inbox = page.inbox /\ page'.paused = q.paused /\ ~page'.awaiting
       /\ page'.buffer = Pumped(q, n).buffer
  BY <1>2, <1>9, PumpedFacts
<1>12. \A k \in DOMAIN t : \E i \in DOMAIN page.buffer : t[k] = page.buffer[i]
  BY <1>6 DEF Sub
<1>13. \A k \in DOMAIN q.buffer : q.buffer[k].m.id[2] > left'.own
  BY <1>1, <1>9, <1>12 DEF IInv, NumberInv
<1>14. SentOnce(q.buffer)
  BY <1>9, <1>12 DEF IInv, UpInv, SentOnce
<1>15. Heard(q.buffer)
  BY <1>9, <1>12 DEF IInv, HeardInv, Heard
<1>16. down' = Tail(down) /\ down' # down
  <2>1. down' = Tail(down)
    BY <1>1, <1>3
  <2>2. down \in Seq(Sendings)
    BY DEF IInv, TypeInv
  <2>3. PICK x \in Nat : x = Len(down)
    BY <2>2, LenProperties
  <2>4. Len(Tail(down)) = x - 1
    BY <2>2, <2>3, HeadTailProperties
  <2> QED
    BY <2>1, <2>3, <2>4
<1>17. left' \in Bounds /\ left'.own <= left.own /\ left'.others = left.others
  BY <1>1 DEF IInv, TypeInv, Bounds
<1>18. Head(down).kind = "batch"
  BY <1>1 DEF b
<1>19. UNCHANGED <<hist, link, unacked>>
  BY <1>1
<1> QED
  BY <1>2, <1>3, <1>6, <1>9, <1>10, <1>11, <1>13, <1>14, <1>15, <1>16, <1>17, <1>18, <1>19,
     SendKeeps

\* A broadcast is applied, or waits behind one that waits for its tool.
LEMMA HearBroadcastKeeps ==
    ASSUME IInv, HearBroadcast
    PROVE  IInv'
<1>1. /\ EventLoop /\ down # << >> /\ Head(down).kind \in {"cast", "batch"}
      /\ down' = (IF link' = "none" THEN << >> ELSE Tail(down))
      /\ UNCHANGED <<hist, stored, used>>
  BY DEF HearBroadcast
<1>2. IsPage(page) /\ left \in Bounds /\ down \in Seq(Sendings)
  BY DEF IInv, TypeInv
<1>3. /\ Head(down) \in Sendings /\ link \in {"joined", "broken"}
      /\ Head(down).kind # "batch" => ~page.awaiting
      /\ Head(down).kind = "batch" => page.awaiting /\ page.waiting = << >>
  BY <1>1, Hearing
<1>4. CASE page.waiting = << >>
  <2>1. Apply(page, Head(down)) /\ page.inbox = << >>
    BY <1>1, <1>4 DEF HearBroadcast, EventLoop
  <2>2. CASE ApplyReplay(page, Head(down))
    BY <1>1, <1>4, <2>2, ApplyReplayKeeps
  <2>3. CASE ApplyCast(page, Head(down))
    <3> DEFINE c == Head(down)
    <3>1. /\ Filtered(page', page) /\ c.kind = "cast"
          /\ c.own => \A k \in DOMAIN page'.buffer : page'.buffer[k].m.id # c.m.id
          /\ UNCHANGED <<up, link, unacked>> /\ SameNumbers
      BY <1>2, <2>3, ApplyCastFacts
    <3>2. down' = Tail(down) /\ ~page.awaiting
      BY <1>1, <1>3, <3>1
    <3>3. /\ IsPage(page') /\ page'.awaiting = page.awaiting /\ page'.paused = page.paused
          /\ page'.inbox = page.inbox /\ Sub(page'.buffer, page.buffer)
      BY <3>1 DEF Filtered
    <3>4. \A k \in DOMAIN page'.buffer :
             LET id == page'.buffer[k].m.id
             IN  Carries(page.inbox, id) \/ Carries(down, id) =>
                    Carries(page'.inbox, id) \/ Carries(down', id)
      BY <1>1, <1>2, <3>1, <3>2, <3>3, CarriesAfter
    <3> QED
      BY <1>1, <3>1, <3>2, <3>3, <3>4, FilterKeeps
  <2>4. CASE ApplyGap(page, Head(down))
    <3>1. link' = "none"
      BY <2>4 DEF ApplyGap
    <3> QED
      BY <1>1, <1>2, <2>4, <3>1, ApplyGapKeeps
  <2> QED
    BY <2>1, <2>2, <2>3, <2>4 DEF Apply
<1>5. CASE page.waiting # << >>
  <2> DEFINE c == Head(down)
             t == Append(page.inbox, c)
  <2>1. page' = [page EXCEPT !.inbox = t] /\ UNCHANGED <<up, link, left, unacked>>
    BY <1>5 DEF HearBroadcast
  <2>2. c.kind = "cast" /\ ~page.awaiting
    BY <1>1, <1>3, <1>5
  <2>3. c \in Casts
    BY <1>3, <2>2 DEF Sendings, Batches, Answers
  <2>4. /\ t \in Seq(Casts)
        /\ \A k \in DOMAIN page.inbox : k \in DOMAIN t /\ t[k] = page.inbox[k]
        /\ \E l \in DOMAIN t : t[l] = c
    BY <1>2, <2>3, Appended DEF IsPage
  <2>5. down' = Tail(down)
    BY <1>1, <1>3, <2>1
  <2> HIDE DEF t
  <2>6. /\ IsPage(page') /\ page'.awaiting = page.awaiting /\ page'.paused = page.paused
        /\ page'.inbox = t /\ page'.buffer = page.buffer
    BY <1>2, <2>1, <2>4 DEF IsPage, PageFields
  <2>7. \A id : Carries(page.inbox, id) \/ Carries(down, id) =>
                   Carries(page'.inbox, id) \/ Carries(down', id)
    <3> SUFFICES ASSUME NEW id, Carries(page.inbox, id) \/ Carries(down, id)
                 PROVE  Carries(t, id) \/ Carries(Tail(down), id)
      BY <2>5, <2>6
    <3>1. CASE Carries(page.inbox, id)
      BY <2>4, <3>1 DEF Carries
    <3>2. CASE Carries(down, id)
      <4>1. \/ Carries(Tail(down), id)
            \/ c.kind = "cast" /\ c.own /\ c.m.id = id
        BY <1>1, <1>2, <3>2, CarriesAfter
      <4> QED
        BY <2>4, <4>1 DEF Carries
    <3> QED
      BY <3>1, <3>2
  <2>8. Sub(page'.buffer, page.buffer)
    BY <2>6 DEF Sub
  <2>9. SameNumbers
    BY <1>2, <2>1 DEF SameNumbers
  <2> QED
    BY <1>1, <2>1, <2>2, <2>5, <2>6, <2>7, <2>8, <2>9, FilterKeeps
<1> QED
  BY <1>4, <1>5

\* What waits in the queue of the page is applied.
LEMMA DrainInboxKeeps ==
    ASSUME IInv, DrainInbox
    PROVE  IInv'
<1> DEFINE c == Head(page.inbox)
           t == Tail(page.inbox)
           p == [page EXCEPT !.inbox = t]
<1>1. /\ page.inbox # << >> /\ page.waiting = << >> /\ Apply(p, c)
      /\ down' = (IF link' = "none" THEN << >> ELSE down)
      /\ UNCHANGED <<hist, stored, used>>
  BY DEF DrainInbox, EventLoop
<1>2. IsPage(page) /\ left \in Bounds
  BY DEF IInv, TypeInv
<1>3. page.inbox \in Seq(Casts)
  BY <1>2 DEF IsPage
<1>4. c \in Casts /\ t \in Seq(Casts)
  BY <1>1, <1>3, Popped
<1>5. ~page.awaiting
  BY <1>1, <1>2 DEF IInv, AwaitInv, IsPage
<1>6. \A id : Carries(page.inbox, id) =>
                 Carries(t, id) \/ (c.kind = "cast" /\ c.own /\ c.m.id = id)
  BY <1>1, <1>3, CarriesAfter
<1> HIDE DEF t, c
<1>7. /\ IsPage(p) /\ p.inbox = t /\ p.buffer = page.buffer
      /\ p.awaiting = page.awaiting /\ p.paused = page.paused
  BY <1>2, <1>4 DEF IsPage, PageFields
<1> HIDE DEF p
<1>8. CASE ApplyReplay(p, c)
  BY <1>4, <1>8 DEF ApplyReplay, Casts
<1>9. CASE ApplyCast(p, c)
  <2>1. /\ Filtered(page', p) /\ c.kind = "cast"
        /\ c.own => \A k \in DOMAIN page'.buffer : page'.buffer[k].m.id # c.m.id
        /\ UNCHANGED <<up, link, unacked>> /\ SameNumbers
    BY <1>2, <1>7, <1>9, ApplyCastFacts
  <2>2. /\ IsPage(page') /\ page'.awaiting = page.awaiting /\ page'.paused = page.paused
        /\ page'.inbox = t /\ Sub(page'.buffer, page.buffer)
    BY <1>7, <2>1 DEF Filtered
  <2>3. link # "none"
    BY <1>1 DEF IInv, LinkInv
  <2>4. down' = down
    BY <1>1, <2>1, <2>3
  <2>5. \A k \in DOMAIN page'.buffer :
             LET id == page'.buffer[k].m.id
             IN  Carries(page.inbox, id) \/ Carries(down, id) =>
                    Carries(page'.inbox, id) \/ Carries(down', id)
    BY <1>6, <2>1, <2>2, <2>4
  <2> QED
    BY <1>1, <1>5, <2>1, <2>2, <2>4, <2>5, FilterKeeps
<1>10. CASE ApplyGap(p, c)
  <2>1. link' = "none"
    BY <1>10 DEF ApplyGap
  <2> QED
    BY <1>1, <1>7, <1>10, <2>1, ApplyGapKeeps
<1> QED
  BY <1>1, <1>8, <1>9, <1>10 DEF Apply

\* A page that dropped some of its writes because of what is not a cast, or none
LEMMA QuietKeeps ==
    ASSUME IInv, Filtered(page', page), UNCHANGED <<hist, up, link, left, unacked>>,
           ~page.awaiting,
           down' = down \/ (down # << >> /\ Head(down).kind # "cast" /\ down' = Tail(down))
    PROVE  IInv'
<1>1. /\ IsPage(page') /\ page'.awaiting = page.awaiting /\ page'.paused = page.paused
      /\ page'.inbox = page.inbox /\ Sub(page'.buffer, page.buffer)
  BY DEF Filtered
<1>2. \A id : Carries(down, id) => Carries(down', id)
  <2>1. down \in Seq(Sendings)
    BY DEF IInv, TypeInv
  <2> QED
    BY <2>1, CarriesAfter
<1>3. \A k \in DOMAIN page'.buffer :
         LET id == page'.buffer[k].m.id
         IN  Carries(page.inbox, id) \/ Carries(down, id) =>
                Carries(page'.inbox, id) \/ Carries(down', id)
  BY <1>1, <1>2
<1>4. SameNumbers
  BY DEF SameNumbers, IInv, TypeInv
<1> QED
  BY <1>1, <1>3, <1>4, FilterKeeps

\* A tool draws what waited for it.
LEMMA ToolReadyKeeps ==
    ASSUME IInv, ToolReady
    PROVE  IInv'
<1> DEFINE p == [page EXCEPT !.waiting = << >>]
<1>1. page.waiting # << >> /\ Draw(p, Head(page.waiting))
      /\ UNCHANGED <<hist, up, down, link, left, unacked>>
  BY DEF ToolReady
<1>2. IsPage(page)
  BY DEF IInv, TypeInv
<1>3. ~page.awaiting
  BY <1>1, <1>2 DEF IInv, AwaitInv, IsPage
<1>4. IsPage(p) /\ Filtered(p, page)
  BY <1>2 DEF IsPage, PageFields, Filtered, Sub
<1> HIDE DEF p
<1>5. Filtered(page', page)
  BY <1>1, <1>4, DrawFacts, FilteredTwice
<1> QED
  BY <1>1, <1>3, <1>5, QuietKeeps

\* A rejected write and what depends on it are dropped.
LEMMA HearRejectionKeeps ==
    ASSUME IInv, HearRejection
    PROVE  IInv'
<1>1. /\ down # << >> /\ Head(down).kind = "rejected" /\ down' = Tail(down)
      /\ page' = Reject(page, Head(down).id)
      /\ UNCHANGED <<hist, up, link, left, unacked>>
  BY DEF HearRejection
<1>2. IsPage(page)
  BY DEF IInv, TypeInv
<1>3. ~page.awaiting
  BY <1>1, Hearing
<1>4. Filtered(page', page)
  BY <1>1, <1>2, RejectFacts
<1> QED
  BY <1>1, <1>3, <1>4, QuietKeeps

\* A page that wrote too fast holds its buffer back; nothing else follows on that
\* connection.
LEMMA HearLimitKeeps ==
    ASSUME IInv, HearLimit
    PROVE  IInv'
<1> DEFINE b == [k \in DOMAIN page.buffer |->
                   [m |-> page.buffer[k].m, queued |-> TRUE, redraw |-> TRUE]]
<1>1. /\ down # << >> /\ Head(down).kind = "limited" /\ down' = Tail(down)
      /\ page' = [page EXCEPT !.paused = TRUE, !.buffer = b]
      /\ UNCHANGED <<hist, up, link, left, unacked>>
  BY DEF HearLimit
<1>2. IsPage(page) /\ down \in Seq(Sendings)
  BY DEF IInv, TypeInv
<1>3. down[1].kind = "limited" /\ 1 \in DOMAIN down /\ ~page.awaiting
  BY <1>1, Hearing
<1>4. link = "broken" /\ \A j \in DOMAIN down : j <= 1
  BY <1>3 DEF IInv, LinkInv
<1>5. down' = << >>
  <2>1. \A k \in DOMAIN Tail(down) : k \in Nat /\ k + 1 \in DOMAIN down /\ k + 1 # 1
    BY <1>1, <1>2, Popped
  <2>2. \A k \in DOMAIN Tail(down) : FALSE
    BY <1>4, <2>1
  <2>3. Tail(down) \in Seq(Sendings)
    BY <1>1, <1>2, Popped
  <2> QED
    BY <1>1, <2>2, <2>3
<1>6. \A id : ~Carries(down, id)
  <2>1. \A j \in DOMAIN down : j \in Nat
    BY <1>2
  <2>2. \A j \in DOMAIN down : j = 1 \/ j = 0
    BY <1>4, <2>1
  <2>3. 0 \notin DOMAIN down
    BY <1>2
  <2> QED
    BY <1>3, <2>2, <2>3 DEF Carries
<1>7. \A k \in DOMAIN page.buffer : page.buffer[k].m \in OwnMutations
  <2>1. \A k \in DOMAIN page.buffer : page.buffer[k] \in Writes
    BY <1>2 DEF IsPage
  <2> QED
    BY <2>1 DEF Writes
<1>8. /\ DOMAIN b = DOMAIN page.buffer
      /\ \A k \in DOMAIN page.buffer :
            b[k].m = page.buffer[k].m /\ b[k].redraw /\ b[k].queued /\ b[k] \in Writes
  BY <1>7 DEF Writes
<1>9. b \in Seq(Writes)
  <2>1. PICK l \in Nat : DOMAIN page.buffer = 1 .. l
    BY <1>2 DEF IsPage
  <2> HIDE DEF b
  <2>2. b \in [1 .. l -> Writes]
    BY <1>8, <2>1 DEF b
  <2> QED
    BY <2>2, SeqDef
<1>10. Distinct(b)
  <2>1. Distinct(page.buffer)
    BY <1>2 DEF IsPage
  <2> HIDE DEF b
  <2> QED
    BY <1>8, <2>1 DEF Distinct
<1> HIDE DEF b
<1>11. /\ IsPage(page') /\ page'.buffer = b /\ page'.paused /\ page'.inbox = page.inbox
       /\ page'.awaiting = page.awaiting
  BY <1>1, <1>2, <1>9, <1>10 DEF IsPage, PageFields
<1>12. DOMAIN << >> = {} /\ << >> \in Seq(Sendings)
  OBVIOUS
<1>13. up = << >>
  BY <1>4 DEF IInv, LinkInv
<1>14. TypeInv'
  BY <1>1, <1>5, <1>11, <1>12 DEF IInv, TypeInv
<1>15. NumberInv'
  BY <1>1, <1>8, <1>11 DEF IInv, NumberInv
<1>16. LinkInv' /\ AwaitInv'
  BY <1>1, <1>3, <1>4, <1>5, <1>11, <1>12, <1>13 DEF LinkInv, AwaitInv
<1>17. PauseInv'
  BY <1>1, <1>5, <1>8, <1>11, <1>12, <1>13 DEF PauseInv
<1>18. UpInv'
  BY <1>1, <1>12, <1>13 DEF UpInv, SentOnce
<1>19. HeardInv'
  <2>1. \A j \in DOMAIN hist, k \in DOMAIN page.buffer :
           hist[j].id = page.buffer[k].m.id /\ hist[j].id \notin unacked =>
              Carries(page.inbox, hist[j].id)
    BY <1>3, <1>6 DEF IInv, HeardInv, Heard
  <2> QED
    BY <1>1, <1>4, <1>8, <1>11, <2>1 DEF HeardInv, Heard
<1>20. AcceptedOnce'
  BY <1>1 DEF IInv, AcceptedOnce
<1> QED
  BY <1>14, <1>15, <1>16, <1>17, <1>18, <1>19, <1>20 DEF IInv

\* The pause ends.
LEMMA PauseEndsKeeps ==
    ASSUME IInv, PauseEnds
    PROVE  IInv'
<1>1. /\ page' = [page EXCEPT !.paused = FALSE]
      /\ UNCHANGED <<hist, up, down, link, left, unacked>>
  BY DEF PauseEnds
<1>2. IsPage(page)
  BY DEF IInv, TypeInv
<1>3. /\ IsPage(page') /\ ~page'.paused /\ page'.awaiting = page.awaiting
      /\ page'.inbox = page.inbox /\ page'.buffer = page.buffer /\ page'.waiting = page.waiting
  BY <1>1, <1>2 DEF IsPage, PageFields
<1>4. page.awaiting => page.waiting = << >> /\ page.inbox = << >>
  BY DEF IInv, AwaitInv
<1>5. Sub(page'.buffer, page.buffer)
  BY <1>3 DEF Sub
<1>6. SameNumbers
  BY <1>1 DEF SameNumbers, IInv, TypeInv
<1> QED
  BY <1>1, <1>3, <1>4, <1>5, <1>6, FilterKeeps

-----------------------------------------------------------------------------
(* The page connects again *)

\* A page without a connection keeps its writes only if they are held back, and none of
\* them was accepted but for those that it gave up hearing of.
LEMMA RestartKeeps ==
    ASSUME IInv, IsPage(page'), page'.inbox = << >>, page'.waiting = << >>, page'.awaiting,
           page'.paused = page.paused,
           page'.buffer = IF page.paused THEN page.buffer ELSE << >>,
           link # "joined", down = << >>, down' = << >>, up' = up,
           link' \in {"none", "connecting"}, UNCHANGED <<hist, left>>,
           unacked \subseteq unacked',
           \A id : Carries(page.inbox, id) => id \in unacked'
    PROVE  IInv'
<1>1. DOMAIN << >> = {} /\ << >> \in Seq(Sendings)
  OBVIOUS
<1>2. up = << >>
  BY DEF IInv, LinkInv
<1>3. \A k \in DOMAIN page'.buffer : page.paused /\ page'.buffer = page.buffer
  BY <1>1
<1>4. TypeInv'
  BY <1>1 DEF IInv, TypeInv
<1>5. NumberInv'
  BY <1>2, <1>3 DEF IInv, NumberInv
<1>6. LinkInv' /\ AwaitInv'
  BY <1>1, <1>2 DEF LinkInv, AwaitInv
<1>7. PauseInv'
  <2>1. page.paused => \A k \in DOMAIN page.buffer : page.buffer[k].redraw
    BY DEF IInv, PauseInv
  <2> QED
    BY <1>1, <1>2, <1>3, <2>1 DEF PauseInv
<1>8. UpInv'
  BY <1>1, <1>2 DEF UpInv, SentOnce
<1>9. HeardInv'
  <2> SUFFICES ASSUME NEW j \in DOMAIN hist, NEW k \in DOMAIN page'.buffer,
                      hist[j].id = page'.buffer[k].m.id, hist[j].id \notin unacked'
               PROVE  FALSE
    BY DEF HeardInv, Heard
  <2>1. page.paused /\ page'.buffer = page.buffer /\ hist[j].id \notin unacked
    BY <1>3
  <2>2. Carries(page.inbox, hist[j].id) \/ Carries(down, hist[j].id)
    BY <2>1 DEF IInv, HeardInv, Heard
  <2>3. ~Carries(down, hist[j].id)
    BY <1>1 DEF Carries
  <2> QED
    BY <2>2, <2>3
<1>10. AcceptedOnce'
  BY DEF IInv, AcceptedOnce
<1> QED
  BY <1>4, <1>5, <1>6, <1>7, <1>8, <1>9, <1>10 DEF IInv

\* beginAuthoritativeResync of a page
LEMMA ResyncFacts ==
    ASSUME NEW p, IsPage(p), NEW keep
    PROVE  /\ IsPage(Resync(p, keep)) /\ Resync(p, keep).inbox = << >>
           /\ Resync(p, keep).waiting = << >> /\ Resync(p, keep).awaiting
           /\ Resync(p, keep).paused = p.paused /\ Resync(p, keep).pending = << >>
           /\ Resync(p, keep).stray = p.stray
           /\ Resync(p, keep).buffer = IF keep THEN p.buffer ELSE << >>
<1> DEFINE b == IF keep THEN p.buffer ELSE << >>
<1>1. << >> \in Seq(Writes) /\ << >> \in Seq(Casts) /\ DOMAIN << >> = {}
  OBVIOUS
<1>2. Distinct(<< >>)
  BY <1>1 DEF Distinct
<1>3. b \in Seq(Writes) /\ Distinct(b)
  BY <1>1, <1>2 DEF IsPage
<1>4. Resync(p, keep) = [p EXCEPT !.journal = << >>, !.buffer = b, !.inbox = << >>,
                                  !.waiting = << >>, !.pending = << >>, !.awaiting = TRUE]
  BY DEF Resync
<1> HIDE DEF b
<1>5. /\ IsPage(Resync(p, keep)) /\ Resync(p, keep).inbox = << >>
      /\ Resync(p, keep).waiting = << >> /\ Resync(p, keep).awaiting
      /\ Resync(p, keep).paused = p.paused /\ Resync(p, keep).pending = << >>
      /\ Resync(p, keep).stray = p.stray
      /\ Resync(p, keep).buffer = b
  BY <1>1, <1>3, <1>4 DEF IsPage, PageFields
<1> QED
  BY <1>5 DEF b

\* DISCONNECT
LEMMA DisconnectedKeeps ==
    ASSUME IInv, Disconnected
    PROVE  IInv'
<1>1. /\ link = "broken" /\ down = << >> /\ link' = "none"
      /\ page' = Resync(page, page.paused) /\ unacked' = unacked \cup Dropped(page)
      /\ UNCHANGED <<hist, up, down, left>>
  BY DEF Disconnected
<1>2. IsPage(page)
  BY DEF IInv, TypeInv
<1>3. /\ IsPage(page') /\ page'.inbox = << >> /\ page'.waiting = << >> /\ page'.awaiting
      /\ page'.paused = page.paused
      /\ page'.buffer = IF page.paused THEN page.buffer ELSE << >>
  BY <1>1, <1>2, ResyncFacts
<1>4. \A id : Carries(page.inbox, id) => id \in unacked'
  BY <1>1 DEF Carries, Dropped
<1> QED
  BY <1>1, <1>3, <1>4, RestartKeeps

\* The page begins again from a baseline.
LEMMA StartKeeps ==
    ASSUME IInv, NEW n \in Nat, Start(n)
    PROVE  IInv'
<1> DEFINE r == Resync(page, page.paused)
<1>1. /\ link = "none" /\ link' = "connecting"
      /\ page' = [r EXCEPT !.view = Board[n], !.seq = n, !.crossed = FALSE]
      /\ UNCHANGED <<hist, up, down, left, unacked>>
  BY DEF Start
<1>2. IsPage(page)
  BY DEF IInv, TypeInv
<1>3. /\ IsPage(r) /\ r.inbox = << >> /\ r.waiting = << >> /\ r.awaiting
      /\ r.paused = page.paused
      /\ r.buffer = IF page.paused THEN page.buffer ELSE << >>
  BY <1>2, ResyncFacts
<1> HIDE DEF r
<1>4. /\ IsPage(page') /\ page'.inbox = << >> /\ page'.waiting = << >> /\ page'.awaiting
      /\ page'.paused = page.paused
      /\ page'.buffer = IF page.paused THEN page.buffer ELSE << >>
  BY <1>1, <1>3 DEF IsPage, PageFields
<1>5. down = << >> /\ page.inbox = << >>
  BY <1>1 DEF IInv, LinkInv
<1>6. \A id : ~Carries(page.inbox, id)
  BY <1>5 DEF Carries
<1> QED
  BY <1>1, <1>4, <1>5, <1>6, RestartKeeps

\* The handshake replays what the baseline lacks.
LEMMA JoinKeeps ==
    ASSUME IInv, Join
    PROVE  IInv'
<1> DEFINE ms == SubSeq(hist, page.seq + 1, Len(hist))
           b == [kind |-> "batch", ms |-> ms]
<1>1. /\ link = "connecting" /\ link' = "joined" /\ up' = << >> /\ down' = <<b>>
      /\ UNCHANGED <<hist, page, left, unacked>>
  BY DEF Join
<1>2. page.awaiting /\ down = << >> /\ page.inbox = << >> /\ up = << >>
  BY <1>1 DEF IInv, LinkInv
<1>3. hist \in Seq(Mutations) /\ page.seq \in Nat
  BY DEF IInv, TypeInv, IsPage
<1>4. ms \in Seq(Mutations)
  <2>1. PICK l \in Nat : l = Len(hist) /\ DOMAIN hist = 1 .. l
    BY <1>3, LenProperties
  <2>2. PICK x \in Nat : x = page.seq + 1 /\ x > 0
    BY <1>3
  <2>3. \A i \in x .. l : i \in 1 .. l
    BY <2>1, <2>2
  <2>4. \A i \in x .. l : hist[i] \in Mutations
    BY <1>3, <2>1, <2>3, ElementOfSeq
  <2>5. x \in Int /\ l \in Int
    BY <2>1, <2>2
  <2>6. SubSeq(hist, x, l) \in Seq(Mutations)
    BY <2>4, <2>5, SubSeqProperties
  <2> QED
    BY <2>1, <2>2, <2>6
<1> HIDE DEF ms
<1>5. b \in Sendings
  BY <1>4 DEF Sendings, Batches
<1>6. b.kind = "batch"
  OBVIOUS
<1> HIDE DEF b
<1>7. down' \in Seq(Sendings) /\ \A k \in DOMAIN down' : k = 1 /\ down'[k].kind = "batch"
  BY <1>1, <1>5, <1>6
<1>8. DOMAIN << >> = {} /\ << >> \in Seq(OwnMutations)
  OBVIOUS
<1>9. TypeInv'
  BY <1>1, <1>7, <1>8 DEF IInv, TypeInv
<1>10. NumberInv'
  BY <1>1, <1>8 DEF IInv, NumberInv
<1>11. LinkInv'
  BY <1>1, <1>7 DEF LinkInv
<1>12. AwaitInv'
  <2>1. down'[1].kind = "batch"
    BY <1>1, <1>6
  <2>2. page.waiting = << >>
    BY <1>2 DEF IInv, AwaitInv
  <2>3. down' # << >>
    BY <1>1
  <2> QED
    BY <1>1, <1>2, <1>7, <2>1, <2>2, <2>3 DEF AwaitInv
<1>13. PauseInv'
  BY <1>1, <1>7 DEF IInv, PauseInv
<1>14. UpInv'
  BY <1>1, <1>8 DEF UpInv, SentOnce
<1>15. HeardInv'
  <2>1. \A j \in DOMAIN hist, k \in DOMAIN page.buffer :
           ~(hist[j].id = page.buffer[k].m.id /\ hist[j].id \notin unacked)
    BY <1>1, <1>2 DEF IInv, HeardInv, Heard, Carries
  <2> QED
    BY <1>1, <2>1 DEF HeardInv, Heard
<1>16. AcceptedOnce'
  BY <1>1 DEF IInv, AcceptedOnce
<1> QED
  BY <1>9, <1>10, <1>11, <1>12, <1>13, <1>14, <1>15, <1>16 DEF IInv

-----------------------------------------------------------------------------
(* The page writes *)

\* The mutations that a page can make are numbered as what remains of its bound.
LEMMA MakesFacts ==
    ASSUME NEW who \in Writers, left[who] \in Nat, NEW view, NEW m \in Makes(who, view)
    PROVE  m \in Mutations /\ m.id = <<who, left[who]>>
<1>1. <<who, left[who]>> \in MutationIds
  BY DEF MutationIds
<1>2. \A op \in {"create", "update", "copy", "delete", "clear"},
         on \in SUBSET Items, to \in SUBSET Items :
         LET n == Mutation(NewId(who), op, on, to)
         IN  n \in Mutations /\ n.id = <<who, left[who]>>
  BY <1>1 DEF Mutation, NewId, Mutations
<1>3. Fresh \subseteq Items /\ Shown(view) \subseteq Items /\ {} \in SUBSET Items
      /\ \A i \in Items : {i} \in SUBSET Items
  BY DEF Fresh, Shown
<1>4. \/ \E i \in Fresh : m = Mutation(NewId(who), "create", {i}, {})
      \/ \E i \in Shown(view) : m = Mutation(NewId(who), "update", {i}, {})
      \/ \E i \in Shown(view), j \in Fresh : m = Mutation(NewId(who), "copy", {i}, {j})
      \/ \E S \in SUBSET Shown(view) : m = Mutation(NewId(who), "delete", S, {})
      \/ m = Mutation(NewId(who), "clear", {}, {})
  BY DEF Makes
<1>5. ASSUME NEW i \in Fresh, m = Mutation(NewId(who), "create", {i}, {})
      PROVE  m \in Mutations /\ m.id = <<who, left[who]>>
  BY <1>2, <1>3, <1>5
<1>6. ASSUME NEW i \in Shown(view), m = Mutation(NewId(who), "update", {i}, {})
      PROVE  m \in Mutations /\ m.id = <<who, left[who]>>
  BY <1>2, <1>3, <1>6
<1>7. ASSUME NEW i \in Shown(view), NEW j \in Fresh, m = Mutation(NewId(who), "copy", {i}, {j})
      PROVE  m \in Mutations /\ m.id = <<who, left[who]>>
  BY <1>2, <1>3, <1>7
<1>8. ASSUME NEW S \in SUBSET Shown(view), m = Mutation(NewId(who), "delete", S, {})
      PROVE  m \in Mutations /\ m.id = <<who, left[who]>>
  <2>1. S \in SUBSET Items
    BY <1>3
  <2> QED
    BY <1>2, <1>3, <1>8, <2>1
<1>9. ASSUME m = Mutation(NewId(who), "clear", {}, {})
      PROVE  m \in Mutations /\ m.id = <<who, left[who]>>
  BY <1>2, <1>3, <1>9
<1> QED
  BY <1>4, <1>5, <1>6, <1>7, <1>8, <1>9

\* drawAndSend
LEMMA DrawAndSendKeeps ==
    ASSUME IInv, NEW m \in Makes("own", page.view), NEW n \in Nat, DrawAndSend(m, n)
    PROVE  IInv'
<1> DEFINE w == [m |-> m, queued |-> TRUE, redraw |-> FALSE]
           b == Append(page.buffer, w)
           drawn == [page EXCEPT !.view = Drawn(@, m), !.buffer = b]
           sent == Pumped(drawn, n)
<1>1. /\ Connected /\ ~page.awaiting /\ ~page.paused /\ Spend("own")
      /\ up' = Sent(Messages(drawn, n)) /\ UNCHANGED <<hist, down, link, unacked>>
  BY DEF DrawAndSend, CanWrite
<1>2. PICK j, x : page' = [sent EXCEPT !.journal = j, !.crossed = x]
  BY DEF DrawAndSend
<1>3. IsPage(page) /\ left \in Bounds
  BY DEF IInv, TypeInv
<1>4. /\ left' \in Bounds /\ left.own \in Nat /\ left'.own \in Nat /\ left.own > left'.own
      /\ left'.others = left.others
  <2>1. DOMAIN left = Spent \cup {"guarded"}
    BY <1>3 DEF Bounds, Spent
  <2> QED
    BY <1>1, <1>3, <2>1, SpendFacts DEF Spent
<1>5. m \in OwnMutations /\ m.id = <<"own", left.own>>
  <2>1. m \in Mutations /\ m.id = <<"own", left.own>>
    BY <1>4, MakesFacts DEF Writers
  <2> QED
    BY <2>1 DEF OwnMutations
<1>6. w \in Writes /\ w.m = m
  BY <1>5 DEF Writes
<1> HIDE DEF w
<1>7. /\ b \in Seq(Writes)
      /\ \E l \in DOMAIN b :
            /\ l \notin DOMAIN page.buffer /\ b[l] = w
            /\ \A k \in DOMAIN b : k \in DOMAIN page.buffer \/ k = l
      /\ \A k \in DOMAIN page.buffer : k \in DOMAIN b /\ b[k] = page.buffer[k]
  BY <1>3, <1>6, Appended DEF IsPage
<1> HIDE DEF b
<1>8. PICK l \in DOMAIN b :
         /\ b[l] = w /\ \A k \in DOMAIN b : k \in DOMAIN page.buffer \/ k = l
         /\ l \notin DOMAIN page.buffer
  BY <1>7
<1>9. \A k \in DOMAIN b : (k \in DOMAIN page.buffer /\ b[k] = page.buffer[k]) \/ (k = l /\ b[k].m = m)
  BY <1>6, <1>7, <1>8
<1>10. \A k \in DOMAIN page.buffer : page.buffer[k].m.id[2] > left.own /\ page.buffer[k].m.id[2] \in Nat
  <2>1. \A k \in DOMAIN page.buffer : page.buffer[k] \in Writes
    BY <1>3 DEF IsPage
  <2>2. \A k \in DOMAIN page.buffer : page.buffer[k].m.id[2] \in Nat
    BY <2>1 DEF Writes, OwnMutations, Mutations, MutationIds
  <2> QED
    BY <2>2 DEF IInv, NumberInv
<1>11. \A y \in Nat : y > left.own => y # left.own /\ y > left'.own
  BY <1>4
<1>12. m.id[2] = left.own /\ m.id[1] = "own"
  BY <1>5
<1>13. Distinct(b)
  <2>1. \A k \in DOMAIN page.buffer : page.buffer[k].m.id # m.id
    BY <1>10, <1>11, <1>12
  <2>2. Distinct(page.buffer)
    BY <1>3 DEF IsPage
  <2>3. SUFFICES ASSUME NEW i \in DOMAIN b, NEW k \in DOMAIN b, b[i].m.id = b[k].m.id
                 PROVE  i = k
    BY DEF Distinct
  <2> QED
    BY <1>9, <2>1, <2>2, <2>3 DEF Distinct
<1>14. \A k \in DOMAIN b : b[k].m.id[2] > left'.own
  <2>1. m.id[2] > left'.own
    BY <1>4, <1>12
  <2> QED
    BY <1>9, <1>10, <1>11, <2>1
<1>15. SentOnce(b)
  <2>1. \A k \in DOMAIN up : up[k].id[2] > left.own /\ up[k].id[2] \in Nat
    <3>1. \A k \in DOMAIN up : up[k] \in OwnMutations
      BY DEF IInv, TypeInv
    <3> QED
      BY <3>1 DEF IInv, NumberInv, OwnMutations, Mutations, MutationIds
  <2>2. \A k \in DOMAIN up : up[k].id # m.id
    BY <1>11, <1>12, <2>1
  <2>3. SUFFICES ASSUME NEW i \in DOMAIN up, NEW k \in DOMAIN b, up[i].id = b[k].m.id
                 PROVE  ~b[k].queued
    BY DEF SentOnce
  <2>4. k \in DOMAIN page.buffer /\ b[k] = page.buffer[k]
    BY <1>9, <2>2, <2>3
  <2> QED
    BY <2>3, <2>4 DEF IInv, UpInv, SentOnce
<1>16. Heard(b)
  <2>1. \A k \in DOMAIN hist : hist[k].id # m.id
    <3>1. \A k \in DOMAIN hist : hist[k] \in Mutations
      BY DEF IInv, TypeInv
    <3>2. \A k \in DOMAIN hist : hist[k].id[2] \in Nat
      BY <3>1 DEF Mutations, MutationIds
    <3> QED
      BY <1>11, <1>12, <3>2 DEF IInv, NumberInv
  <2>2. SUFFICES ASSUME NEW i \in DOMAIN hist, NEW k \in DOMAIN b,
                        hist[i].id = b[k].m.id, hist[i].id \notin unacked
                 PROVE  /\ b[k].queued => link = "broken"
                        /\ \/ Carries(page.inbox, hist[i].id)
                           \/ Carries(down, hist[i].id)
                           \/ /\ link = "broken" /\ ~page.paused
                              /\ \A d \in DOMAIN down : down[d].kind # "limited"
    BY DEF Heard
  <2>3. k \in DOMAIN page.buffer /\ b[k] = page.buffer[k]
    BY <1>9, <2>1, <2>2
  <2> QED
    BY <2>2, <2>3 DEF IInv, HeardInv, Heard
<1>17. /\ IsPage(drawn) /\ drawn.buffer = b /\ drawn.awaiting = page.awaiting
       /\ drawn.paused = page.paused /\ drawn.inbox = page.inbox
  BY <1>3, <1>7, <1>13 DEF IsPage, PageFields
<1> HIDE DEF drawn
<1>18. /\ IsPage(sent) /\ sent.awaiting = page.awaiting /\ sent.paused = page.paused
       /\ sent.inbox = page.inbox
  BY <1>17, PumpedFacts
<1> HIDE DEF sent
<1>19. /\ IsPage(page') /\ page'.buffer = sent.buffer /\ page'.inbox = page.inbox
       /\ page'.paused = page.paused /\ page'.awaiting = page.awaiting
  BY <1>2, <1>18 DEF IsPage, PageFields
<1>20. page'.buffer = Pumped(drawn, n).buffer
  BY <1>19 DEF sent
<1>21. link \in {"joined", "broken"} /\ left'.own <= left.own
  BY <1>1, <1>4 DEF Connected
<1> QED
  BY <1>1, <1>4, <1>14, <1>15, <1>16, <1>17, <1>19, <1>20, <1>21, SendKeeps

\* The timer of the buffer
LEMMA PumpKeeps ==
    ASSUME IInv, NEW n \in Nat, PumpBufferedWrites(n)
    PROVE  IInv'
<1>1. /\ Connected /\ ~page.awaiting /\ ~page.paused /\ page' = Pumped(page, n)
      /\ up' = Sent(Messages(page, n)) /\ UNCHANGED <<hist, down, link, left, unacked>>
  BY DEF PumpBufferedWrites, CanWrite
<1>2. IsPage(page) /\ left \in Bounds
  BY DEF IInv, TypeInv
<1>3. /\ IsPage(page') /\ page'.inbox = page.inbox /\ page'.paused = page.paused
      /\ page'.awaiting = page.awaiting
  BY <1>1, <1>2, PumpedFacts
<1>4. left'.own <= left.own /\ left'.others = left.others /\ left' \in Bounds
  BY <1>1, <1>2 DEF Bounds
<1>5. \A k \in DOMAIN page.buffer : page.buffer[k].m.id[2] > left'.own
  BY <1>1 DEF IInv, NumberInv
<1>6. SentOnce(page.buffer) /\ Heard(page.buffer) /\ link \in {"joined", "broken"}
  BY <1>1 DEF IInv, UpInv, HeardInv, Connected
<1> QED
  BY <1>1, <1>2, <1>3, <1>4, <1>5, <1>6, SendKeeps

-----------------------------------------------------------------------------
(* The server answers, others write, and the connection breaks *)

\* What a page that wrote something is: on a connection, with no replay or pause ahead.
LEMMA Writing ==
    ASSUME IInv, up # << >>
    PROVE  /\ up \in Seq(OwnMutations) /\ Head(up) \in OwnMutations /\ Head(up) = up[1]
           /\ 1 \in DOMAIN up /\ Tail(up) \in Seq(OwnMutations)
           /\ \A k \in DOMAIN Tail(up) :
                 k \in Nat /\ k + 1 \in DOMAIN up /\ Tail(up)[k] = up[k + 1] /\ k + 1 # 1
           /\ link = "joined" /\ ~page.awaiting /\ ~page.paused
           /\ \A k \in DOMAIN down : down[k].kind \notin {"limited", "batch"}
           /\ down \in Seq(Sendings) /\ hist \in Seq(Mutations)
<1>1. up \in Seq(OwnMutations) /\ down \in Seq(Sendings) /\ hist \in Seq(Mutations)
      /\ page.awaiting \in BOOLEAN /\ page.paused \in BOOLEAN
  BY DEF IInv, TypeInv, IsPage
<1>2. link = "joined" /\ ~page.awaiting /\ ~page.paused
  BY <1>1 DEF IInv, LinkInv, AwaitInv, PauseInv
<1>3. \A k \in DOMAIN down : down[k].kind # "limited"
  BY <1>2 DEF IInv, LinkInv
<1>4. \A k \in DOMAIN down : down[k].kind # "batch"
  BY <1>2 DEF IInv, AwaitInv
<1> QED
  BY <1>1, <1>2, <1>3, <1>4, Popped

\* One more is under way to the page.
LEMMA DownGrows ==
    ASSUME IInv, NEW d \in Sendings, down' = Append(down, d), d.kind # "batch"
    PROVE  /\ down' \in Seq(Sendings) /\ down' # << >>
           /\ \A id : Carries(down, id) => Carries(down', id)
           /\ \A k \in DOMAIN down' : (k \in DOMAIN down /\ down'[k] = down[k]) \/ down'[k] = d
           /\ down # << >> => down'[1] = down[1]
           /\ \E l \in DOMAIN down' :
                 /\ down'[l] = d
                 /\ \A k \in DOMAIN down' :
                       k <= l /\ (k = l \/ (k \in DOMAIN down /\ down'[k] = down[k]))
<1>1. down \in Seq(Sendings)
  BY DEF IInv, TypeInv
<1>2. /\ down' \in Seq(Sendings)
      /\ \A k \in DOMAIN down : k \in DOMAIN down' /\ down'[k] = down[k]
      /\ \E l \in DOMAIN down' :
            /\ l \notin DOMAIN down /\ down'[l] = d
            /\ \A k \in DOMAIN down' : k <= l /\ (k \in DOMAIN down \/ k = l)
            /\ down = << >> => l = 1
      /\ down # << >> => 1 \in DOMAIN down
  BY <1>1, Appended
<1>3. \A id : Carries(down, id) => Carries(down', id)
  BY <1>2 DEF Carries
<1>4. down' # << >>
  BY <1>2
<1> QED
  BY <1>2, <1>3, <1>4

\* A mutation is accepted that was not under way twice.
LEMMA AcceptKeeps ==
    ASSUME IInv, Accept
    PROVE  IInv'
<1> DEFINE m == Head(up)
           c == Cast(m, TRUE)
<1>1. /\ up # << >> /\ hist' = Append(hist, m) /\ up' = Tail(up) /\ down' = Append(down, c)
      /\ UNCHANGED <<page, link, left, unacked>>
  BY DEF Accept
<1>2. /\ up \in Seq(OwnMutations) /\ m \in OwnMutations /\ m = up[1]
      /\ 1 \in DOMAIN up /\ Tail(up) \in Seq(OwnMutations)
      /\ \A k \in DOMAIN Tail(up) :
            k \in Nat /\ k + 1 \in DOMAIN up /\ Tail(up)[k] = up[k + 1] /\ k + 1 # 1
      /\ link = "joined" /\ ~page.awaiting /\ ~page.paused
      /\ \A k \in DOMAIN down : down[k].kind \notin {"limited", "batch"}
      /\ down \in Seq(Sendings) /\ hist \in Seq(Mutations)
  BY <1>1, Writing
<1>3. m \in Mutations /\ m.id[1] = "own"
  BY <1>2 DEF OwnMutations
<1>4. c \in Casts /\ c.kind = "cast" /\ c.own /\ c.m = m
  <2>1. PICK x \in Nat : x = Len(hist) + 1
    BY <1>2, LenProperties
  <2>2. c = [kind |-> "cast", m |-> m, own |-> TRUE, seq |-> x]
    BY <2>1 DEF Cast
  <2> HIDE DEF m, c
  <2> QED
    BY <1>3, <2>2 DEF Casts
<1> HIDE DEF c
<1>5. c \in Sendings /\ c.kind # "batch"
  BY <1>4 DEF Sendings
<1>6. /\ down' \in Seq(Sendings) /\ down' # << >>
      /\ \A id : Carries(down, id) => Carries(down', id)
      /\ \A k \in DOMAIN down' : (k \in DOMAIN down /\ down'[k] = down[k]) \/ down'[k] = c
      /\ \E l \in DOMAIN down' : down'[l] = c
  BY <1>1, <1>5, DownGrows
<1>7. PICK l \in DOMAIN hist' :
         /\ hist' \in Seq(Mutations) /\ hist'[l] = m
         /\ \A k \in DOMAIN hist' : k = l \/ (k \in DOMAIN hist /\ hist'[k] = hist[k])
  <2> DEFINE h == Append(hist, m)
  <2>1. /\ h \in Seq(Mutations)
        /\ \A k \in DOMAIN hist : k \in DOMAIN h /\ h[k] = hist[k]
        /\ \E l \in DOMAIN h : h[l] = m /\ \A k \in DOMAIN h : k \in DOMAIN hist \/ k = l
    BY <1>2, <1>3, Appended
  <2>2. hist' = h
    BY <1>1
  <2> HIDE DEF h
  <2> QED
    BY <2>1, <2>2
<1> HIDE DEF m
<1>8. Carries(down', m.id)
  BY <1>4, <1>6 DEF Carries
<1>9. \A k \in DOMAIN down' : down'[k].kind \notin {"limited", "batch"}
  BY <1>2, <1>4, <1>6
<1>10. \A j \in DOMAIN up' : up'[j].id # m.id /\ \E i \in DOMAIN up : up'[j] = up[i]
  <2> SUFFICES ASSUME NEW j \in DOMAIN up'
               PROVE  up'[j].id # m.id /\ \E i \in DOMAIN up : up'[j] = up[i]
    OBVIOUS
  <2>1. j + 1 \in DOMAIN up /\ up'[j] = up[j + 1] /\ j + 1 # 1
    BY <1>1, <1>2
  <2>2. up[j + 1].id # up[1].id
    BY <1>2, <2>1 DEF IInv, UpInv
  <2> QED
    BY <1>2, <2>1, <2>2
<1>11. TypeInv'
  BY <1>1, <1>2, <1>6, <1>7 DEF IInv, TypeInv
<1>12. NumberInv'
  <2>1. m.id[2] > left.own
    BY <1>2 DEF IInv, NumberInv
  <2> QED
    BY <1>1, <1>3, <1>7, <1>10, <2>1 DEF IInv, NumberInv
<1>13. LinkInv' /\ AwaitInv' /\ PauseInv'
  BY <1>1, <1>2, <1>9 DEF LinkInv, AwaitInv, PauseInv
<1>14. UpInv'
  <2>1. \A j, k \in DOMAIN up' : up'[j].id = up'[k].id => j = k
    <3> SUFFICES ASSUME NEW j \in DOMAIN up', NEW k \in DOMAIN up', up'[j].id = up'[k].id
                 PROVE  j = k
      OBVIOUS
    <3>1. j + 1 \in DOMAIN up /\ k + 1 \in DOMAIN up /\ up[j + 1].id = up[k + 1].id
          /\ j \in Nat /\ k \in Nat
      BY <1>1, <1>2
    <3>2. j + 1 = k + 1
      BY <3>1 DEF IInv, UpInv
    <3> QED
      BY <3>1, <3>2
  <2>2. SentOnce(page.buffer)'
    BY <1>1, <1>10 DEF IInv, UpInv, SentOnce
  <2>3. \A j \in DOMAIN up', k \in DOMAIN hist' :
           up'[j].id = hist'[k].id => up'[j].id \in unacked
    BY <1>7, <1>10 DEF IInv, UpInv
  <2> QED
    BY <1>1, <2>1, <2>2, <2>3 DEF UpInv
<1>15. HeardInv'
  <2> SUFFICES ASSUME NEW j \in DOMAIN hist', NEW k \in DOMAIN page.buffer,
                      hist'[j].id = page.buffer[k].m.id, hist'[j].id \notin unacked
               PROVE  /\ ~page.buffer[k].queued
                      /\ Carries(page.inbox, hist'[j].id) \/ Carries(down', hist'[j].id)
    BY <1>1 DEF HeardInv, Heard
  <2>1. CASE j = l
    <3>1. up[1].id = page.buffer[k].m.id
      BY <1>2, <1>7, <2>1
    <3>2. ~page.buffer[k].queued
      BY <1>2, <3>1 DEF IInv, UpInv, SentOnce
    <3> QED
      BY <1>7, <1>8, <2>1, <3>2
  <2>2. CASE j \in DOMAIN hist /\ hist'[j] = hist[j]
    BY <1>2, <1>6, <2>2 DEF IInv, HeardInv, Heard
  <2> QED
    BY <1>7, <2>1, <2>2
<1>16. AcceptedOnce'
  <2>1. \A k \in DOMAIN hist : m.id = hist[k].id => m.id \in unacked
    BY <1>2 DEF IInv, UpInv
  <2> QED
    BY <1>1, <1>7, <2>1 DEF IInv, AcceptedOnce
<1> QED
  BY <1>11, <1>12, <1>13, <1>14, <1>15, <1>16 DEF IInv

\* A mutation is refused, and its answer is under way.
LEMMA RefuseKeeps ==
    ASSUME IInv, Refuse
    PROVE  IInv'
<1> DEFINE m == Head(up)
           d == [kind |-> "rejected", id |-> m.id]
<1>1. /\ up # << >> /\ up' = Tail(up) /\ down' = Append(down, d)
      /\ IF Applies(m) THEN Spend("refusals") ELSE UNCHANGED left
      /\ UNCHANGED <<hist, page, link, unacked>>
  BY DEF Refuse
<1>2. /\ up \in Seq(OwnMutations) /\ m \in OwnMutations /\ Tail(up) \in Seq(OwnMutations)
      /\ \A k \in DOMAIN Tail(up) :
            k \in Nat /\ k + 1 \in DOMAIN up /\ Tail(up)[k] = up[k + 1] /\ k + 1 # 1
      /\ link = "joined" /\ ~page.awaiting /\ ~page.paused
      /\ \A k \in DOMAIN down : down[k].kind \notin {"limited", "batch"}
  BY <1>1, Writing
<1>3. m.id \in MutationIds
  BY <1>2 DEF OwnMutations, Mutations
<1>4. d \in Sendings /\ d.kind = "rejected"
  BY <1>3 DEF Sendings, Answers
<1> HIDE DEF d
<1>5. SameNumbers
  <2>1. left \in Bounds /\ DOMAIN left = Spent \cup {"guarded"}
    BY DEF IInv, TypeInv, Bounds, Spent
  <2>2. CASE Applies(m)
    <3>1. Spend("refusals")
      BY <1>1, <2>2
    <3> QED
      BY <2>1, <3>1, SpendFacts DEF SameNumbers, Spent
  <2>3. CASE ~Applies(m)
    BY <1>1, <2>1, <2>3 DEF SameNumbers
  <2> QED
    BY <2>2, <2>3
<1>6. /\ down' \in Seq(Sendings)
      /\ \A id : Carries(down, id) => Carries(down', id)
      /\ \A k \in DOMAIN down' : (k \in DOMAIN down /\ down'[k] = down[k]) \/ down'[k] = d
  BY <1>1, <1>4, DownGrows
<1>7. \A k \in DOMAIN down' : down'[k].kind \notin {"limited", "batch"}
  BY <1>2, <1>4, <1>6
<1>8. \A j \in DOMAIN up' : \E i \in DOMAIN up : up'[j] = up[i]
  BY <1>1, <1>2
<1>9. TypeInv'
  BY <1>1, <1>2, <1>5, <1>6 DEF IInv, TypeInv, SameNumbers
<1>10. NumberInv'
  BY <1>1, <1>5, <1>8 DEF IInv, NumberInv, SameNumbers
<1>11. LinkInv' /\ AwaitInv' /\ PauseInv'
  BY <1>1, <1>2, <1>7 DEF LinkInv, AwaitInv, PauseInv
<1>12. UpInv'
  <2>1. \A j, k \in DOMAIN up' : up'[j].id = up'[k].id => j = k
    <3> SUFFICES ASSUME NEW j \in DOMAIN up', NEW k \in DOMAIN up', up'[j].id = up'[k].id
                 PROVE  j = k
      OBVIOUS
    <3>1. j + 1 \in DOMAIN up /\ k + 1 \in DOMAIN up /\ up[j + 1].id = up[k + 1].id
          /\ j \in Nat /\ k \in Nat
      BY <1>1, <1>2
    <3>2. j + 1 = k + 1
      BY <3>1 DEF IInv, UpInv
    <3> QED
      BY <3>1, <3>2
  <2> QED
    BY <1>1, <1>8, <2>1 DEF IInv, UpInv, SentOnce
<1>13. HeardInv'
  BY <1>1, <1>2, <1>6 DEF IInv, HeardInv, Heard
<1>14. AcceptedOnce'
  BY <1>1 DEF IInv, AcceptedOnce
<1> QED
  BY <1>9, <1>10, <1>11, <1>12, <1>13, <1>14 DEF IInv

\* The page is told that it writes too fast, and is cut off.
LEMMA LimitKeeps ==
    ASSUME IInv, Limit
    PROVE  IInv'
<1> DEFINE d == [kind |-> "limited"]
<1>1. /\ up # << >> /\ Spend("limits") /\ up' = << >> /\ down' = Append(down, d)
      /\ link' = "broken" /\ UNCHANGED <<hist, page, unacked>>
  BY DEF Limit
<1>2. /\ link = "joined" /\ ~page.awaiting /\ ~page.paused
      /\ \A k \in DOMAIN down : down[k].kind \notin {"limited", "batch"}
  BY <1>1, Writing
<1>3. d \in Sendings /\ d.kind = "limited"
  BY DEF Sendings, Answers
<1> HIDE DEF d
<1>4. SameNumbers
  <2>1. left \in Bounds /\ DOMAIN left = Spent \cup {"guarded"}
    BY DEF IInv, TypeInv, Bounds, Spent
  <2> QED
    BY <1>1, <2>1, SpendFacts DEF SameNumbers, Spent
<1>5. /\ down' \in Seq(Sendings)
      /\ \A id : Carries(down, id) => Carries(down', id)
      /\ \E l \in DOMAIN down' :
            /\ down'[l] = d
            /\ \A k \in DOMAIN down' :
                  k <= l /\ (k = l \/ (k \in DOMAIN down /\ down'[k] = down[k]))
  BY <1>1, <1>3, DownGrows
<1>6. \A k \in DOMAIN down' :
         /\ down'[k].kind # "batch"
         /\ down'[k].kind = "limited" => \A j \in DOMAIN down' : j <= k
  BY <1>2, <1>3, <1>5
<1>7. DOMAIN << >> = {} /\ << >> \in Seq(OwnMutations)
  OBVIOUS
<1>8. TypeInv'
  BY <1>1, <1>4, <1>5, <1>7 DEF IInv, TypeInv, SameNumbers
<1>9. NumberInv'
  BY <1>1, <1>4, <1>7 DEF IInv, NumberInv, SameNumbers
<1>10. LinkInv' /\ AwaitInv' /\ PauseInv'
  BY <1>1, <1>2, <1>6 DEF LinkInv, AwaitInv, PauseInv
<1>11. UpInv'
  BY <1>1, <1>7 DEF UpInv, SentOnce
<1>12. HeardInv'
  BY <1>1, <1>2, <1>5 DEF IInv, HeardInv, Heard
<1>13. AcceptedOnce'
  BY <1>1 DEF IInv, AcceptedOnce
<1> QED
  BY <1>8, <1>9, <1>10, <1>11, <1>12, <1>13 DEF IInv

\* Somebody else's mutation is accepted.
LEMMA OtherWritesKeeps ==
    ASSUME IInv, NEW m \in Makes("others", Now), OtherWrites(m)
    PROVE  IInv'
<1> DEFINE c == Cast(m, FALSE)
<1>1. /\ Spend("others") /\ hist' = Append(hist, m)
      /\ down' = (IF link = "joined" THEN Append(down, c) ELSE down)
      /\ UNCHANGED <<page, up, link, unacked>>
  BY DEF OtherWrites
<1>2. /\ left \in Bounds /\ hist \in Seq(Mutations) /\ down \in Seq(Sendings)
      /\ up \in Seq(OwnMutations) /\ IsPage(page)
  BY DEF IInv, TypeInv
<1>3. /\ left' \in Bounds /\ left.others \in Nat /\ left'.others \in Nat
      /\ left.others > left'.others /\ left'.own = left.own
  <2>1. DOMAIN left = Spent \cup {"guarded"}
    BY <1>2 DEF Bounds, Spent
  <2> QED
    BY <1>1, <1>2, <2>1, SpendFacts DEF Spent
<1>4. m \in Mutations /\ m.id[1] = "others" /\ m.id[2] = left.others
  <2>1. m \in Mutations /\ m.id = <<"others", left.others>>
    BY <1>3, MakesFacts DEF Writers
  <2> QED
    BY <2>1
<1>5. c \in Casts /\ c.kind = "cast" /\ ~c.own
  <2>1. PICK x \in Nat : x = Len(hist) + 1
    BY <1>2, LenProperties
  <2>2. c = [kind |-> "cast", m |-> m, own |-> FALSE, seq |-> x]
    BY <2>1 DEF Cast
  <2> HIDE DEF c
  <2> QED
    BY <1>4, <2>2 DEF Casts
<1> HIDE DEF c
<1>6. c \in Sendings
  BY <1>5 DEF Sendings
<1>7. /\ down' \in Seq(Sendings)
      /\ \A id : Carries(down, id) => Carries(down', id)
      /\ \A k \in DOMAIN down' : (k \in DOMAIN down /\ down'[k] = down[k]) \/ down'[k] = c
      /\ link = "joined" => down' # << >>
      /\ down # << >> => down' # << >> /\ down'[1] = down[1]
      /\ link # "joined" => down' = down
  <2>1. CASE link = "joined"
    <3>1. down' = Append(down, c) /\ c.kind # "batch"
      BY <1>1, <1>5, <2>1
    <3> QED
      BY <1>6, <2>1, <3>1, DownGrows
  <2>2. CASE link # "joined"
    BY <1>1, <1>2, <2>2
  <2> QED
    BY <2>1, <2>2
<1>8. PICK l \in DOMAIN hist' :
         /\ hist' \in Seq(Mutations) /\ hist'[l] = m
         /\ \A k \in DOMAIN hist' : k = l \/ (k \in DOMAIN hist /\ hist'[k] = hist[k])
  <2> DEFINE h == Append(hist, m)
  <2>1. /\ h \in Seq(Mutations)
        /\ \E l \in DOMAIN h :
              /\ l \notin DOMAIN hist /\ h[l] = m
              /\ \A k \in DOMAIN h : k <= l /\ (k \in DOMAIN hist \/ k = l)
              /\ hist = << >> => l = 1
        /\ \A k \in DOMAIN hist : k \in DOMAIN h /\ h[k] = hist[k]
    BY <1>2, <1>4, Appended
  <2>2. hist' = h
    BY <1>1
  <2> HIDE DEF h
  <2> QED
    BY <2>1, <2>2
<1>9. \A k \in DOMAIN hist : hist[k].id[2] \in Nat
  <2>1. \A k \in DOMAIN hist : hist[k] \in Mutations
    BY <1>2
  <2> QED
    BY <2>1 DEF Mutations, MutationIds
<1>10. \A k \in DOMAIN up : up[k].id[1] = "own"
  BY <1>2 DEF OwnMutations
<1>11. \A k \in DOMAIN page.buffer : page.buffer[k].m.id[1] = "own"
  <2>1. \A k \in DOMAIN page.buffer : page.buffer[k] \in Writes
    BY <1>2 DEF IsPage
  <2> QED
    BY <2>1 DEF Writes, OwnMutations
<1>12. TypeInv'
  BY <1>1, <1>3, <1>7, <1>8 DEF IInv, TypeInv
<1>13. NumberInv'
  <2>1. \A k \in DOMAIN hist' : hist'[k].id[1] = "own" => hist'[k].id[2] > left'.own
    BY <1>3, <1>4, <1>8 DEF IInv, NumberInv
  <2>2. \A x \in Nat : x > left.others => x > left'.others
    BY <1>3
  <2>3. m.id[2] > left'.others
    BY <1>3, <1>4
  <2>4. \A k \in DOMAIN hist' : hist'[k].id[1] = "others" => hist'[k].id[2] > left'.others
    BY <1>8, <1>9, <2>2, <2>3 DEF IInv, NumberInv
  <2> QED
    BY <1>1, <1>3, <2>1, <2>4 DEF IInv, NumberInv
<1>14. LinkInv'
  <2>1. \A k \in DOMAIN down' : down'[k].kind = "limited" =>
           link = "broken" /\ \A j \in DOMAIN down' : j <= k
    BY <1>5, <1>7 DEF IInv, LinkInv
  <2> QED
    BY <1>1, <1>7, <2>1 DEF IInv, LinkInv
<1>15. AwaitInv'
  <2>1. \A k \in DOMAIN down' : down'[k].kind = "batch" => k = 1 /\ page.awaiting
    BY <1>5, <1>7 DEF IInv, AwaitInv
  <2>2. page.awaiting =>
           /\ up = << >> /\ page.waiting = << >> /\ page.inbox = << >>
           /\ IF down = << >> THEN link # "joined" ELSE down[1].kind = "batch"
    BY DEF IInv, AwaitInv
  <2>3. page.awaiting => IF down' = << >> THEN link # "joined" ELSE down'[1].kind = "batch"
    BY <1>7, <2>2
  <2> QED
    BY <1>1, <2>1, <2>2, <2>3 DEF AwaitInv
<1>16. PauseInv'
  BY <1>1, <1>5, <1>7 DEF IInv, PauseInv
<1>17. UpInv'
  BY <1>1, <1>4, <1>8, <1>10 DEF IInv, UpInv, SentOnce
<1>18. HeardInv'
  <2> SUFFICES ASSUME NEW j \in DOMAIN hist', NEW k \in DOMAIN page.buffer,
                      hist'[j].id = page.buffer[k].m.id, hist'[j].id \notin unacked
               PROVE  /\ page.buffer[k].queued => link = "broken"
                      /\ \/ Carries(page.inbox, hist'[j].id)
                         \/ Carries(down', hist'[j].id)
                         \/ /\ link = "broken" /\ ~page.paused
                            /\ \A i \in DOMAIN down' : down'[i].kind # "limited"
    BY <1>1 DEF HeardInv, Heard
  <2>1. j \in DOMAIN hist /\ hist'[j] = hist[j]
    BY <1>4, <1>8, <1>11
  <2> QED
    BY <1>7, <2>1 DEF IInv, HeardInv, Heard
<1>19. AcceptedOnce'
  <2>1. \A k \in DOMAIN hist : hist[k].id # m.id
    <3>1. \A k \in DOMAIN hist : hist[k].id[1] = "others" => hist[k].id[2] > left.others
      BY DEF IInv, NumberInv
    <3>2. \A x \in Nat : x > left.others => x # left.others
      BY <1>3
    <3> QED
      BY <1>4, <1>9, <3>1, <3>2
  <2> QED
    BY <1>1, <1>8, <2>1 DEF IInv, AcceptedOnce
<1> QED
  BY <1>12, <1>13, <1>14, <1>15, <1>16, <1>17, <1>18, <1>19 DEF IInv

\* The connection breaks: what was under way to the server is lost, and a part of what
\* was under way to the page.
LEMMA CutKeeps ==
    ASSUME IInv, NEW arrives, Cut(arrives)
    PROVE  IInv'
<1> DEFINE t == SubSeq(down, 1, arrives)
<1>1. /\ link = "joined" /\ Spend("cuts") /\ arrives \in 0 .. Len(down) /\ down' = t
      /\ up' = << >> /\ link' = "broken" /\ UNCHANGED <<hist, page, unacked>>
  BY DEF Cut
<1>2. down \in Seq(Sendings) /\ left \in Bounds /\ IsPage(page)
  BY DEF IInv, TypeInv
<1>3. /\ t \in Seq(Sendings) /\ \A k \in DOMAIN t : k \in DOMAIN down /\ t[k] = down[k]
      /\ t # << >> => 1 \in DOMAIN t
  BY <1>1, <1>2, Shortened
<1> HIDE DEF t
<1>4. SameNumbers
  <2>1. DOMAIN left = Spent \cup {"guarded"}
    BY <1>2 DEF Bounds, Spent
  <2> QED
    BY <1>1, <1>2, <2>1, SpendFacts DEF SameNumbers, Spent
<1>5. \A k \in DOMAIN t : t[k].kind # "limited"
  BY <1>1, <1>3 DEF IInv, LinkInv
<1>6. DOMAIN << >> = {} /\ << >> \in Seq(OwnMutations)
  OBVIOUS
<1>7. TypeInv'
  BY <1>1, <1>3, <1>4, <1>6 DEF IInv, TypeInv, SameNumbers
<1>8. NumberInv'
  BY <1>1, <1>4, <1>6 DEF IInv, NumberInv, SameNumbers
<1>9. LinkInv'
  BY <1>1, <1>5 DEF LinkInv
<1>10. AwaitInv'
  <2>1. t # << >> => down # << >> /\ t[1] = down[1]
    BY <1>3
  <2> QED
    BY <1>1, <1>3, <2>1 DEF IInv, AwaitInv
<1>11. PauseInv'
  BY <1>1, <1>3 DEF IInv, PauseInv
<1>12. UpInv'
  BY <1>1, <1>6 DEF UpInv, SentOnce
<1>13. HeardInv'
  <2>1. page.paused => \A id : ~Carries(down, id)
    BY DEF IInv, PauseInv, Carries
  <2>2. page.paused \in BOOLEAN
    BY <1>2 DEF IsPage
  <2> QED
    BY <1>1, <1>5, <2>1, <2>2 DEF IInv, HeardInv, Heard
<1>14. AcceptedOnce'
  BY <1>1 DEF IInv, AcceptedOnce
<1> QED
  BY <1>7, <1>8, <1>9, <1>10, <1>11, <1>12, <1>13, <1>14 DEF IInv

-----------------------------------------------------------------------------
(* What is kept for the check *)

\* The identifiers of what is buffered, under way to the server, or accepted
Known == Ids(page.buffer) \cup {up[k].id : k \in DOMAIN up} \cup {hist[k].id : k \in DOMAIN hist}

\* What is kept is numbered above what is to come, and nothing of it was sent.
KeptInv ==
    /\ page.pending \in Seq(OwnMutations)
    /\ \A j, k \in DOMAIN page.pending : page.pending[j].id = page.pending[k].id => j = k
    /\ \A k \in DOMAIN page.pending :
          page.pending[k].id[2] > left.own /\ page.pending[k].id \notin Known

\* Steps that neither keep a write nor make a mutation known that could be one
LEMMA KeptStays ==
    ASSUME KeptInv, left.own \in Nat, left'.own \in Nat, left'.own <= left.own,
           page'.pending \in {page.pending, << >>},
           \A x \in Known' : x \in Known \/ x[1] # "own" \/ x[2] = left.own
    PROVE  KeptInv'
<1>1. DOMAIN << >> = {} /\ << >> \in Seq(OwnMutations)
  OBVIOUS
<1>2. CASE page'.pending = << >>
  BY <1>1, <1>2 DEF KeptInv
<1>3. CASE page'.pending = page.pending
  <2> DEFINE s == page.pending
  <2>1. /\ s \in Seq(OwnMutations)
        /\ \A j, k \in DOMAIN s : s[j].id = s[k].id => j = k
        /\ \A k \in DOMAIN s : s[k].id[2] > left.own /\ s[k].id \notin Known
    BY DEF KeptInv
  <2>2. page'.pending = s
    BY <1>3
  <2> HIDE DEF s
  <2>3. \A k \in DOMAIN s : s[k] \in OwnMutations
    BY <2>1
  <2>4. \A k \in DOMAIN s : s[k].id[1] = "own" /\ s[k].id[2] \in Nat
    BY <2>3 DEF OwnMutations, Mutations, MutationIds
  <2>5. \A k \in DOMAIN s : s[k].id[2] > left'.own /\ s[k].id[2] # left.own
    BY <2>1, <2>4
  <2>6. \A k \in DOMAIN s : s[k].id \notin Known'
    BY <2>1, <2>4, <2>5
  <2> QED
    BY <2>1, <2>2, <2>5, <2>6 DEF KeptInv
<1> QED
  BY <1>2, <1>3

\* Steps that only send and drop writes
Quietly ==
    /\ page'.pending \in {page.pending, << >>}
    /\ \A k \in DOMAIN page'.buffer : \E i \in DOMAIN page.buffer :
          page'.buffer[k].m = page.buffer[i].m
    /\ \A k \in DOMAIN up' :
          \/ \E i \in DOMAIN up : up'[k] = up[i]
          \/ \E i \in DOMAIN page.buffer : up'[k] = page.buffer[i].m
    /\ hist' = hist /\ left'.own = left.own

\* They keep what is kept.
LEMMA QuietlyKept ==
    ASSUME IInv, KeptInv, Quietly
    PROVE  KeptInv'
<1>1. left.own \in Nat /\ left'.own \in Nat /\ left'.own <= left.own
  BY DEF IInv, TypeInv, Bounds, Quietly
<1>2. \A x \in Ids(page.buffer)' : x \in Ids(page.buffer)
  BY DEF Ids, Quietly
<1>3. \A k \in DOMAIN up' : up'[k].id \in Known
  BY DEF Known, Ids, Quietly
<1>4. \A x \in Known' : x \in Known
  BY <1>2, <1>3 DEF Known, Quietly
<1> QED
  BY <1>1, <1>4, KeptStays DEF Quietly

\* What is sent was under way, or buffered.
LEMMA SentFacts ==
    ASSUME up \in Seq(OwnMutations), NEW p, IsPage(p), NEW n, up' = Sent(Messages(p, n))
    PROVE  \A k \in DOMAIN up' :
              \/ \E i \in DOMAIN up : up'[k] = up[i]
              \/ \E i \in DOMAIN p.buffer : up'[k] = p.buffer[i].m
<1> DEFINE ms == Messages(p, n)
<1>1. ms \in Seq(OwnMutations)
      /\ \A k \in DOMAIN ms : \E i \in DOMAIN p.buffer : ms[k] = p.buffer[i].m
  BY MessagesFacts
<1> HIDE DEF ms
<1>2. CASE link = "joined"
  <2>1. up' = up \o ms
    BY <1>2 DEF Sent, ms
  <2> DEFINE u == up \o ms
  <2>2. \A k \in DOMAIN u :
           \/ \E i \in DOMAIN up : u[k] = up[i]
           \/ \E i \in DOMAIN ms : u[k] = ms[i]
    <3>1. PICK l \in Nat :
             \A k \in DOMAIN (up \o ms) :
                \/ k \in DOMAIN up /\ (up \o ms)[k] = up[k]
                \/ k \notin DOMAIN up /\ k - l \in DOMAIN ms /\ (up \o ms)[k] = ms[k - l]
      <4>1. /\ up \o ms \in Seq(OwnMutations)
            /\ \E l \in Nat :
                  /\ DOMAIN up = 1 .. l
                  /\ \A k \in DOMAIN (up \o ms) :
                        \/ k \in DOMAIN up /\ (up \o ms)[k] = up[k]
                        \/ k \notin DOMAIN up /\ k - l \in DOMAIN ms
                           /\ (up \o ms)[k] = ms[k - l]
                  /\ \A k \in DOMAIN (up \o ms) : k \in Nat
        BY <1>1, Extended
      <4> QED
        BY <4>1, Zenon
    <3>2. \A k \in DOMAIN u :
             (k \in DOMAIN up /\ u[k] = up[k]) \/ (k - l \in DOMAIN ms /\ u[k] = ms[k - l])
      BY <3>1
    <3> HIDE DEF u
    <3> QED
      BY <3>2
  <2>3. up' = u
    BY <2>1
  <2> HIDE DEF u
  <2> QED
    BY <1>1, <2>2, <2>3
<1>3. CASE link # "joined"
  BY <1>3 DEF Sent
<1> QED
  BY <1>2, <1>3

\* A broadcast drops writes, and a replay sends some.
LEMMA ApplyQuietly ==
    ASSUME IInv, NEW p, IsPage(p), p.buffer = page.buffer, p.pending = page.pending,
           NEW msg \in Sendings, Apply(p, msg), UNCHANGED hist
    PROVE  Quietly
<1>1. up \in Seq(OwnMutations) /\ left \in Bounds
  BY DEF IInv, TypeInv
<1>2. CASE ApplyReplay(p, msg)
  <2> DEFINE q == Replayed(p, msg)
             t == PruneBuffer(p.buffer, msg.ms)
  <2>1. msg.kind = "batch" /\ UNCHANGED left
    BY <1>2 DEF ApplyReplay
  <2>2. PICK n : page' = Pumped(q, n) /\ up' = Sent(Messages(q, n))
    BY <1>2 DEF ApplyReplay
  <2>3. msg.ms \in Seq(Mutations)
    BY <2>1 DEF Sendings, Casts, Answers, Batches
  <2>4. PICK x \in Nat : x = Len(msg.ms)
    BY <2>3, LenProperties
  <2>5. p.seq + x \in Nat
    BY <2>4 DEF IsPage
  <2>6. t \in Seq(Writes) /\ Distinct(t) /\ Sub(t, p.buffer)
    BY PruneBufferFacts DEF IsPage
  <2> HIDE DEF t
  <2>7. PICK v : q = [p EXCEPT !.view = v, !.seq = p.seq + x, !.awaiting = FALSE,
                               !.buffer = t]
    BY <2>4 DEF Replayed, t
  <2> HIDE DEF q
  <2>8. IsPage(q) /\ q.buffer = t /\ q.pending = p.pending
    BY <2>5, <2>6, <2>7 DEF IsPage, PageFields
  <2>9. /\ page'.pending = page.pending /\ DOMAIN page'.buffer = DOMAIN t
        /\ \A k \in DOMAIN t : page'.buffer[k].m = t[k].m
    BY <2>2, <2>8, PumpedFacts
  <2>10. \A k \in DOMAIN up' :
            \/ \E i \in DOMAIN up : up'[k] = up[i]
            \/ \E i \in DOMAIN t : up'[k] = t[i].m
    BY <1>1, <2>2, <2>8, SentFacts
  <2>11. \A k \in DOMAIN t : \E i \in DOMAIN page.buffer : t[k] = page.buffer[i]
    BY <2>6 DEF Sub
  <2> QED
    BY <2>1, <2>9, <2>10, <2>11 DEF Quietly
<1>3. CASE ApplyCast(p, msg)
  <2>1. Filtered(page', p) /\ up' = up /\ SameNumbers
    BY <1>1, <1>3, ApplyCastFacts
  <2> QED
    BY <2>1 DEF Filtered, Sub, SameNumbers, Quietly
<1>4. CASE ApplyGap(p, msg)
  <2>1. page' = Resync(p, FALSE) /\ up' = << >> /\ UNCHANGED left
    BY <1>4 DEF ApplyGap
  <2>2. page'.buffer = << >> /\ page'.pending = << >>
    BY <2>1, ResyncFacts
  <2>3. DOMAIN << >> = {}
    OBVIOUS
  <2> QED
    BY <2>1, <2>2, <2>3 DEF Quietly
<1> QED
  BY <1>2, <1>3, <1>4 DEF Apply

\* What the page hears keeps what is kept.
LEMMA HeardKept ==
    ASSUME IInv, KeptInv,
           HearBroadcast \/ ToolReady \/ DrainInbox \/ HearRejection \/ HearLimit \/ PauseEnds
    PROVE  KeptInv'
<1>1. /\ IsPage(page) /\ left \in Bounds /\ down \in Seq(Sendings)
      /\ page.inbox \in Seq(Casts)
  BY DEF IInv, TypeInv, IsPage
<1>2. CASE HearBroadcast
  <2>1. down # << >> /\ UNCHANGED hist
    BY <1>2 DEF HearBroadcast
  <2>2. Head(down) \in Sendings
    BY <1>1, <2>1, Popped
  <2>3. CASE page.waiting = << >>
    <3>1. Apply(page, Head(down))
      BY <1>2, <2>3 DEF HearBroadcast
    <3> QED
      BY <1>1, <2>1, <2>2, <3>1, ApplyQuietly, QuietlyKept
  <2>4. CASE page.waiting # << >>
    <3>1. PICK t : page' = [page EXCEPT !.inbox = t]
      BY <1>2, <2>4 DEF HearBroadcast
    <3>2. UNCHANGED <<up, left>>
      BY <1>2, <2>4 DEF HearBroadcast
    <3>3. page'.buffer = page.buffer /\ page'.pending = page.pending
      BY <1>1, <3>1 DEF IsPage, PageFields
    <3>4. Quietly
      BY <2>1, <3>2, <3>3 DEF Quietly
    <3> QED
      BY <3>4, QuietlyKept
  <2> QED
    BY <2>3, <2>4
<1>3. CASE ToolReady
  <2> DEFINE p == [page EXCEPT !.waiting = << >>]
  <2>1. Draw(p, Head(page.waiting)) /\ UNCHANGED <<hist, up, left>>
    BY <1>3 DEF ToolReady
  <2>2. IsPage(p) /\ p.buffer = page.buffer /\ p.pending = page.pending
    BY <1>1 DEF IsPage, PageFields
  <2> HIDE DEF p
  <2>3. Filtered(page', p)
    BY <2>1, <2>2, DrawFacts
  <2>4. Quietly
    BY <2>1, <2>2, <2>3 DEF Filtered, Sub, Quietly
  <2> QED
    BY <2>4, QuietlyKept
<1>4. CASE DrainInbox
  <2> DEFINE p == [page EXCEPT !.inbox = Tail(@)]
  <2>1. page.inbox # << >> /\ Apply(p, Head(page.inbox)) /\ UNCHANGED hist
    BY <1>4 DEF DrainInbox, EventLoop
  <2>2. Head(page.inbox) \in Casts /\ Tail(page.inbox) \in Seq(Casts)
    BY <1>1, <2>1, Popped
  <2>3. IsPage(p) /\ p.buffer = page.buffer /\ p.pending = page.pending
    BY <1>1, <2>2 DEF IsPage, PageFields
  <2>4. Head(page.inbox) \in Sendings
    BY <2>2 DEF Sendings
  <2> HIDE DEF p
  <2> QED
    BY <2>1, <2>3, <2>4, ApplyQuietly, QuietlyKept
<1>5. CASE HearRejection
  <2>1. page' = Reject(page, Head(down).id) /\ UNCHANGED <<hist, up, left>>
    BY <1>5 DEF HearRejection
  <2>2. Filtered(page', page)
    BY <1>1, <2>1, RejectFacts
  <2>3. Quietly
    BY <2>1, <2>2 DEF Filtered, Sub, Quietly
  <2> QED
    BY <2>3, QuietlyKept
<1>6. CASE HearLimit
  <2> DEFINE b == [k \in DOMAIN page.buffer |->
                     [m |-> page.buffer[k].m, queued |-> TRUE, redraw |-> TRUE]]
  <2>1. page' = [page EXCEPT !.paused = TRUE, !.buffer = b] /\ UNCHANGED <<hist, up, left>>
    BY <1>6 DEF HearLimit
  <2>2. DOMAIN b = DOMAIN page.buffer /\ \A k \in DOMAIN b : b[k].m = page.buffer[k].m
    OBVIOUS
  <2> HIDE DEF b
  <2>3. page'.buffer = b /\ page'.pending = page.pending
    BY <1>1, <2>1 DEF IsPage, PageFields
  <2>4. Quietly
    BY <2>1, <2>2, <2>3 DEF Quietly
  <2> QED
    BY <2>4, QuietlyKept
<1>7. CASE PauseEnds
  <2>1. page' = [page EXCEPT !.paused = FALSE] /\ UNCHANGED <<hist, up, left>>
    BY <1>7 DEF PauseEnds
  <2>2. page'.buffer = page.buffer /\ page'.pending = page.pending
    BY <1>1, <2>1 DEF IsPage, PageFields
  <2>3. Quietly
    BY <2>1, <2>2 DEF Quietly
  <2> QED
    BY <2>3, QuietlyKept
<1> QED
  BY <1>2, <1>3, <1>4, <1>5, <1>6, <1>7

\* A connection that ends, or begins, keeps it, or gives it up.
LEMMA ConnectionKept ==
    ASSUME IInv, KeptInv, Disconnected \/ Join \/ (\E n \in Nat : Start(n))
    PROVE  KeptInv'
<1>1. IsPage(page) /\ up \in Seq(OwnMutations)
  BY DEF IInv, TypeInv
<1>2. DOMAIN << >> = {}
  OBVIOUS
<1> DEFINE r == Resync(page, page.paused)
<1>3. /\ IsPage(r) /\ r.pending = << >>
      /\ \A k \in DOMAIN r.buffer : \E i \in DOMAIN page.buffer : r.buffer[k].m = page.buffer[i].m
  <2>1. IsPage(r) /\ r.pending = << >>
        /\ r.buffer = IF page.paused THEN page.buffer ELSE << >>
    BY <1>1, ResyncFacts
  <2> QED
    BY <1>2, <2>1
<1> HIDE DEF r
<1>4. CASE Disconnected
  <2>1. page' = r /\ UNCHANGED <<hist, up, left>>
    BY <1>4 DEF Disconnected, r
  <2>2. Quietly
    BY <1>3, <2>1 DEF Quietly
  <2> QED
    BY <2>2, QuietlyKept
<1>5. CASE Join
  <2>1. up' = << >> /\ UNCHANGED <<hist, page, left>>
    BY <1>5 DEF Join
  <2>2. Quietly
    BY <1>2, <2>1 DEF Quietly
  <2> QED
    BY <2>2, QuietlyKept
<1>6. ASSUME NEW n \in Nat, Start(n) PROVE KeptInv'
  <2>1. page' = [r EXCEPT !.view = Board[n], !.seq = n, !.crossed = FALSE]
        /\ UNCHANGED <<hist, up, left>>
    BY <1>6 DEF Start, r
  <2>2. page'.pending = r.pending /\ page'.buffer = r.buffer
    BY <1>3, <2>1 DEF IsPage, PageFields
  <2>3. Quietly
    BY <1>3, <2>1, <2>2 DEF Quietly
  <2> QED
    BY <2>3, QuietlyKept
<1> QED
  BY <1>4, <1>5, <1>6

\* The server, and others, do not know what is kept.
LEMMA ServerKept ==
    ASSUME IInv, KeptInv, Accept \/ Refuse \/ Ignore \/ Limit \/ (\E n : Cut(n))
    PROVE  KeptInv'
<1>1. left \in Bounds /\ up \in Seq(OwnMutations) /\ hist \in Seq(Mutations)
  BY DEF IInv, TypeInv
<1>2. DOMAIN left = Spent \cup {"guarded"} /\ DOMAIN << >> = {}
  BY <1>1 DEF Bounds, Spent
<1>3. left'.own = left.own
  BY <1>1, <1>2, SpendFacts DEF Accept, Refuse, Ignore, Limit, Cut, Spent
<1>4. page' = page
  BY DEF Accept, Refuse, Ignore, Limit, Cut
<1>5. \A k \in DOMAIN up' : \E i \in DOMAIN up : up'[k] = up[i]
  <2>1. CASE up # << >> /\ up' = Tail(up)
    BY <1>1, <2>1, Popped
  <2>2. CASE up' = << >>
    BY <1>2, <2>2
  <2> QED
    BY <2>1, <2>2 DEF Accept, Refuse, Ignore, Limit, Cut
<1>6. CASE hist' = hist
  <2>1. Quietly
    BY <1>3, <1>4, <1>5, <1>6 DEF Quietly
  <2> QED
    BY <2>1, QuietlyKept
<1>7. CASE Accept
  <2> DEFINE m == Head(up)
             h == Append(hist, m)
  <2>1. up # << >> /\ hist' = h
    BY <1>7 DEF Accept
  <2>2. m \in OwnMutations /\ 1 \in DOMAIN up /\ m = up[1]
    BY <1>1, <2>1, Popped
  <2>3. m \in Mutations
    BY <2>2 DEF OwnMutations
  <2>4. \A k \in DOMAIN h : h[k] = m \/ (k \in DOMAIN hist /\ h[k] = hist[k])
    BY <1>1, <2>3, Appended
  <2>5. m.id \in Known
    BY <2>2 DEF Known
  <2> HIDE DEF m, h
  <2>6. \A k \in DOMAIN hist' : hist'[k].id \in Known
    BY <2>1, <2>4, <2>5 DEF Known
  <2>7. \A k \in DOMAIN up' : up'[k].id \in Known
    BY <1>5 DEF Known
  <2>8. Ids(page.buffer)' = Ids(page.buffer)
    BY <1>4
  <2>9. \A x \in Known' : x \in Known
    BY <2>6, <2>7, <2>8 DEF Known
  <2>10. left.own \in Nat /\ left'.own \in Nat /\ left'.own <= left.own
    BY <1>1, <1>3 DEF Bounds
  <2> QED
    BY <1>4, <2>9, <2>10, KeptStays
<1> QED
  BY <1>6, <1>7 DEF Accept, Refuse, Ignore, Limit, Cut

\* Others' mutations are not own ones.
LEMMA OthersKept ==
    ASSUME IInv, KeptInv, NEW m \in Makes("others", Now), OtherWrites(m)
    PROVE  KeptInv'
<1>1. left \in Bounds /\ hist \in Seq(Mutations)
  BY DEF IInv, TypeInv
<1>2. Spend("others") /\ hist' = Append(hist, m) /\ UNCHANGED <<page, up>>
  BY DEF OtherWrites
<1>3. left.own \in Nat /\ left'.own = left.own /\ left.others \in Nat
  <2>1. DOMAIN left = Spent \cup {"guarded"}
    BY <1>1 DEF Bounds, Spent
  <2> QED
    BY <1>1, <1>2, <2>1, SpendFacts DEF Spent, Bounds
<1>4. m \in Mutations /\ m.id[1] # "own"
  <2>1. m \in Mutations /\ m.id = <<"others", left.others>>
    BY <1>3, MakesFacts DEF Writers
  <2> QED
    BY <2>1
<1> DEFINE h == Append(hist, m)
<1>5. \A k \in DOMAIN h : h[k] = m \/ (k \in DOMAIN hist /\ h[k] = hist[k])
  BY <1>1, <1>4, Appended
<1> HIDE DEF h
<1>6. hist' = h
  BY <1>2 DEF h
<1>7. \A k \in DOMAIN hist' : hist'[k].id \in Known \/ hist'[k].id[1] # "own"
  BY <1>4, <1>5, <1>6 DEF Known
<1>8. Ids(page.buffer)' = Ids(page.buffer) /\ \A k \in DOMAIN up' : up'[k].id \in Known
  BY <1>2 DEF Known
<1>9. \A x \in Known' : x \in Known \/ x[1] # "own"
  BY <1>7, <1>8 DEF Known
<1>10. left'.own \in Nat /\ left'.own <= left.own
  BY <1>3
<1> QED
  BY <1>2, <1>3, <1>9, <1>10, KeptStays

\* A new own write has a number of its own.
LEMMA OwnNumber ==
    ASSUME IInv, NEW m \in Makes("own", page.view), Spend("own")
    PROVE  /\ m \in OwnMutations /\ m.id[1] = "own" /\ m.id[2] = left.own
           /\ left.own \in Nat /\ left'.own \in Nat /\ left.own > left'.own
           /\ left' \in Bounds /\ left'.others = left.others
<1>1. left \in Bounds
  BY DEF IInv, TypeInv
<1>2. DOMAIN left = Spent \cup {"guarded"}
  BY <1>1 DEF Bounds, Spent
<1>3. /\ left' \in Bounds /\ left.own \in Nat /\ left'.own \in Nat /\ left.own > left'.own
      /\ left'.others = left.others
  BY <1>1, <1>2, SpendFacts DEF Spent
<1>4. m \in Mutations /\ m.id = <<"own", left.own>>
  BY <1>3, MakesFacts DEF Writers
<1>5. m.id[1] = "own" /\ m.id[2] = left.own
  BY <1>4
<1> QED
  BY <1>3, <1>4, <1>5 DEF OwnMutations

\* A page that sends what it writes keeps what it kept.
LEMMA DrawAndSendKept ==
    ASSUME IInv, KeptInv, NEW m \in Makes("own", page.view), NEW n, DrawAndSend(m, n)
    PROVE  KeptInv'
<1> DEFINE w == [m |-> m, queued |-> TRUE, redraw |-> FALSE]
           b == Append(page.buffer, w)
           drawn == [page EXCEPT !.view = Drawn(@, m), !.buffer = b]
           sent == Pumped(drawn, n)
<1>1. Spend("own") /\ up' = Sent(Messages(drawn, n)) /\ UNCHANGED hist
  BY DEF DrawAndSend
<1>2. PICK j, y : page' = [sent EXCEPT !.journal = j, !.crossed = y]
  BY DEF DrawAndSend
<1>3. IsPage(page) /\ up \in Seq(OwnMutations)
  BY DEF IInv, TypeInv
<1>4. /\ m \in OwnMutations /\ m.id[1] = "own" /\ m.id[2] = left.own
      /\ left.own \in Nat /\ left'.own \in Nat /\ left.own > left'.own
  BY <1>1, OwnNumber
<1>5. w \in Writes /\ w.m = m
  BY <1>4 DEF Writes
<1> HIDE DEF w
<1>6. b \in Seq(Writes) /\ \A k \in DOMAIN b : b[k] = w \/ (k \in DOMAIN page.buffer /\ b[k] = page.buffer[k])
  BY <1>3, <1>5, Appended DEF IsPage
<1>7. \E l \in DOMAIN b :
         /\ b[l] = w
         /\ \A k \in DOMAIN b : k = l \/ (k \in DOMAIN page.buffer /\ b[k] = page.buffer[k])
  BY <1>3, <1>5, Appended DEF IsPage
<1> HIDE DEF b
<1>8. \A k \in DOMAIN page.buffer : page.buffer[k].m.id[2] # left.own
  <2>1. \A k \in DOMAIN page.buffer : page.buffer[k] \in Writes
    BY <1>3 DEF IsPage
  <2>2. \A k \in DOMAIN page.buffer : page.buffer[k].m.id[2] \in Nat
    BY <2>1 DEF Writes, OwnMutations, Mutations, MutationIds
  <2> QED
    BY <1>4, <2>2 DEF IInv, NumberInv
<1>9. Distinct(b)
  <2>1. PICK l \in DOMAIN b :
           /\ b[l] = w
           /\ \A k \in DOMAIN b : k = l \/ (k \in DOMAIN page.buffer /\ b[k] = page.buffer[k])
    BY <1>7
  <2>2. SUFFICES ASSUME NEW i \in DOMAIN b, NEW k \in DOMAIN b, b[i].m.id = b[k].m.id
                 PROVE  i = k
    BY DEF Distinct
  <2>3. Distinct(page.buffer)
    BY <1>3 DEF IsPage
  <2> QED
    BY <1>4, <1>5, <1>8, <2>1, <2>2, <2>3 DEF Distinct
<1>10. IsPage(drawn) /\ drawn.buffer = b /\ drawn.pending = page.pending
  BY <1>3, <1>6, <1>9 DEF IsPage, PageFields
<1> HIDE DEF drawn
<1>11. /\ IsPage(sent) /\ sent.pending = page.pending /\ DOMAIN sent.buffer = DOMAIN b
       /\ \A k \in DOMAIN b : sent.buffer[k].m = b[k].m
  BY <1>10, PumpedFacts
<1> HIDE DEF sent
<1>12. page'.buffer = sent.buffer /\ page'.pending = page.pending
  BY <1>2, <1>11 DEF IsPage, PageFields
<1>13. \A k \in DOMAIN b : b[k].m.id \in Known \/ b[k].m.id[2] = left.own
  BY <1>4, <1>5, <1>6 DEF Known, Ids
<1>14. \A x \in Ids(page.buffer)' : x \in Known \/ x[2] = left.own
  BY <1>11, <1>12, <1>13 DEF Ids
<1>15. \A k \in DOMAIN up' : up'[k].id \in Known \/ up'[k].id[2] = left.own
  <2>1. \A k \in DOMAIN up' :
           \/ \E i \in DOMAIN up : up'[k] = up[i]
           \/ \E i \in DOMAIN b : up'[k] = b[i].m
    BY <1>1, <1>3, <1>10, SentFacts
  <2> QED
    BY <1>13, <2>1 DEF Known
<1>16. \A x \in Known' : x \in Known \/ x[2] = left.own
  BY <1>1, <1>14, <1>15 DEF Known
<1>17. left'.own <= left.own
  BY <1>4
<1> QED
  BY <1>4, <1>12, <1>16, <1>17, KeptStays

\* A write that is kept is new.
LEMMA DrawAndKeepKept ==
    ASSUME IInv, KeptInv, NEW m \in Makes("own", page.view), DrawAndKeep(m)
    PROVE  IInv' /\ KeptInv'
<1> DEFINE s == page.pending
           t == Append(s, m)
<1>1. /\ ~page.awaiting /\ Spend("own") /\ UNCHANGED <<hist, up, down, link, unacked>>
  BY DEF DrawAndKeep, CanWrite
<1>2. PICK j, v, x : page' = [page EXCEPT !.view = v, !.journal = j, !.pending = t, !.crossed = x]
  <2>1. page' = [page EXCEPT !.view = Drawn(@, m), !.journal = Track(@, Entry(m, @, page.view)),
                             !.pending = t, !.crossed = @ \/ Overtakes(m)]
    BY DEF DrawAndKeep
  <2> HIDE DEF t
  <2> QED
    BY <2>1, Zenon
<1>3. IsPage(page) /\ left \in Bounds /\ up \in Seq(OwnMutations) /\ hist \in Seq(Mutations)
  BY DEF IInv, TypeInv
<1>4. /\ m \in OwnMutations /\ m.id[1] = "own" /\ m.id[2] = left.own
      /\ left.own \in Nat /\ left'.own \in Nat /\ left.own > left'.own
      /\ left' \in Bounds /\ left'.others = left.others
  BY <1>1, OwnNumber
<1>5. /\ s \in Seq(OwnMutations)
      /\ \A i, k \in DOMAIN s : s[i].id = s[k].id => i = k
      /\ \A k \in DOMAIN s : s[k].id[2] > left.own /\ s[k].id \notin Known
  BY DEF KeptInv
<1> HIDE DEF s
<1>6. /\ t \in Seq(OwnMutations)
      /\ \E l \in DOMAIN t :
            t[l] = m /\ \A k \in DOMAIN t : k = l \/ (k \in DOMAIN s /\ t[k] = s[k])
  BY <1>4, <1>5, Appended
<1> HIDE DEF t
<1>7. /\ IsPage(page') /\ page'.buffer = page.buffer /\ page'.inbox = page.inbox
      /\ page'.awaiting = page.awaiting /\ page'.paused = page.paused
      /\ page'.waiting = page.waiting /\ page'.pending = t
  BY <1>2, <1>3 DEF IsPage, PageFields
<1>8. \A y \in Nat : y > left.own => y > left'.own /\ y # left.own
  BY <1>4
<1>9. \A y \in Known : y[1] = "own" => y[2] \in Nat /\ y[2] > left.own
  <2>1. \A k \in DOMAIN page.buffer : page.buffer[k].m.id[2] \in Nat
    <3>1. \A k \in DOMAIN page.buffer : page.buffer[k] \in Writes
      BY <1>3 DEF IsPage
    <3> QED
      BY <3>1 DEF Writes, OwnMutations, Mutations, MutationIds
  <2>2. \A k \in DOMAIN up : up[k].id[2] \in Nat
    <3>1. \A k \in DOMAIN up : up[k] \in OwnMutations
      BY <1>3
    <3> QED
      BY <3>1 DEF OwnMutations, Mutations, MutationIds
  <2>3. \A k \in DOMAIN hist : hist[k].id[2] \in Nat
    <3>1. \A k \in DOMAIN hist : hist[k] \in Mutations
      BY <1>3
    <3> QED
      BY <3>1 DEF Mutations, MutationIds
  <2> QED
    BY <2>1, <2>2, <2>3 DEF IInv, NumberInv, Known, Ids
<1>10. KeptInv'
  <2>1. PICK l \in DOMAIN t :
           t[l] = m /\ \A k \in DOMAIN t : k = l \/ (k \in DOMAIN s /\ t[k] = s[k])
    BY <1>6
  <2>2. \A k \in DOMAIN s : s[k].id[2] \in Nat
    <3>1. \A k \in DOMAIN s : s[k] \in OwnMutations
      BY <1>5
    <3> QED
      BY <3>1 DEF OwnMutations, Mutations, MutationIds
  <2>3. \A k \in DOMAIN s : s[k].id # m.id
    BY <1>4, <1>5, <1>8, <2>2
  <2>4. \A i, k \in DOMAIN t : t[i].id = t[k].id => i = k
    BY <1>5, <2>1, <2>3
  <2>5. m.id \notin Known
    BY <1>4, <1>8, <1>9
  <2>6. Known' = Known
    BY <1>1, <1>7 DEF Known
  <2>7. \A k \in DOMAIN t : t[k].id[2] > left'.own /\ t[k].id \notin Known
    BY <1>4, <1>5, <1>8, <2>1, <2>2, <2>5
  <2> QED
    BY <1>6, <1>7, <2>4, <2>6, <2>7 DEF KeptInv
<1>11. TypeInv'
  BY <1>1, <1>4, <1>7 DEF IInv, TypeInv
<1>12. NumberInv'
  <2>1. \A k \in DOMAIN page.buffer : page.buffer[k].m.id[2] > left'.own
    <3>1. \A k \in DOMAIN page.buffer : page.buffer[k] \in Writes
      BY <1>3 DEF IsPage
    <3>2. \A k \in DOMAIN page.buffer : page.buffer[k].m.id[2] \in Nat
      BY <3>1 DEF Writes, OwnMutations, Mutations, MutationIds
    <3> QED
      BY <1>8, <3>2 DEF IInv, NumberInv
  <2>2. \A k \in DOMAIN up : up[k].id[2] > left'.own
    <3>1. \A k \in DOMAIN up : up[k] \in OwnMutations
      BY <1>3
    <3>2. \A k \in DOMAIN up : up[k].id[2] \in Nat
      BY <3>1 DEF OwnMutations, Mutations, MutationIds
    <3> QED
      BY <1>8, <3>2 DEF IInv, NumberInv
  <2>3. \A k \in DOMAIN hist : hist[k].id[1] = "own" => hist[k].id[2] > left'.own
    BY <1>8, <1>9 DEF Known
  <2> QED
    BY <1>1, <1>4, <1>7, <2>1, <2>2, <2>3 DEF IInv, NumberInv
<1>13. LinkInv' /\ AwaitInv' /\ PauseInv'
  BY <1>1, <1>7 DEF IInv, LinkInv, AwaitInv, PauseInv
<1>14. UpInv' /\ HeardInv' /\ AcceptedOnce'
  BY <1>1, <1>7 DEF IInv, UpInv, SentOnce, HeardInv, Heard, Carries, AcceptedOnce
<1> QED
  BY <1>10, <1>11, <1>12, <1>13, <1>14 DEF IInv

\* What was kept is buffered, and sent for the first time.
LEMMA FlushKept ==
    ASSUME IInv, KeptInv, NEW n \in Nat, FlushPendingWrites(n)
    PROVE  IInv' /\ KeptInv'
<1> DEFINE s == page.pending
           w == [k \in DOMAIN s |-> [m |-> s[k], queued |-> TRUE, redraw |-> FALSE]]
           b == page.buffer \o w
           q == Released(page)
<1>1. /\ Connected /\ ~page.awaiting /\ ~page.paused /\ page' = Pumped(q, n)
      /\ up' = Sent(Messages(q, n)) /\ UNCHANGED <<hist, down, link, left, unacked>>
  BY DEF FlushPendingWrites, CanWrite
<1>2. /\ IsPage(page) /\ left \in Bounds /\ up \in Seq(OwnMutations)
      /\ hist \in Seq(Mutations)
  BY DEF IInv, TypeInv
<1>3. /\ s \in Seq(OwnMutations)
      /\ \A i, k \in DOMAIN s : s[i].id = s[k].id => i = k
      /\ \A k \in DOMAIN s : s[k].id[2] > left.own /\ s[k].id \notin Known
  BY DEF KeptInv
<1>4. PICK x : q = [page EXCEPT !.buffer = b, !.pending = << >>, !.stray = x]
  BY DEF Released
<1> HIDE DEF q, s
<1>5. DOMAIN w = DOMAIN s /\ \A k \in DOMAIN s : w[k].m = s[k] /\ w[k] \in Writes
  <2>1. \A k \in DOMAIN s : s[k] \in OwnMutations
    BY <1>3
  <2> QED
    BY <2>1 DEF Writes
<1>6. w \in Seq(Writes)
  <2>1. PICK l \in Nat : DOMAIN s = 1 .. l
    BY <1>3
  <2> HIDE DEF w
  <2>2. w \in [1 .. l -> Writes]
    BY <1>5, <2>1 DEF w
  <2> QED
    BY <2>2, SeqDef
<1> HIDE DEF w
<1>7. page.buffer \in Seq(Writes) /\ Distinct(page.buffer)
  BY <1>2 DEF IsPage
<1>8. PICK l \in Nat :
         /\ DOMAIN page.buffer = 1 .. l
         /\ \A k \in DOMAIN b :
               \/ k \in DOMAIN page.buffer /\ b[k] = page.buffer[k]
               \/ k \notin DOMAIN page.buffer /\ k - l \in DOMAIN w /\ b[k] = w[k - l]
         /\ \A k \in DOMAIN b : k \in Nat
  BY <1>6, <1>7, Extended
<1>9. b \in Seq(Writes)
  BY <1>6, <1>7, Extended
<1> HIDE DEF b
<1>10. \A k \in DOMAIN b :
          \/ k \in DOMAIN page.buffer /\ b[k] = page.buffer[k] /\ b[k].m.id \in Known
          \/ /\ k \notin DOMAIN page.buffer /\ k - l \in DOMAIN s /\ b[k].m = s[k - l]
             /\ b[k].m.id \notin Known /\ b[k].m.id[2] > left.own
  BY <1>3, <1>5, <1>8 DEF Known, Ids
<1>11. Distinct(b)
  <2> SUFFICES ASSUME NEW i \in DOMAIN b, NEW k \in DOMAIN b, b[i].m.id = b[k].m.id
               PROVE  i = k
    BY DEF Distinct
  <2>1. CASE b[i].m.id \in Known
    BY <1>7, <1>10, <2>1 DEF Distinct
  <2>2. CASE b[i].m.id \notin Known
    <3>1. i - l = k - l
      BY <1>3, <1>10, <2>2
    <3>2. i \in Nat /\ k \in Nat
      BY <1>8
    <3> QED
      BY <3>1, <3>2
  <2> QED
    BY <2>1, <2>2
<1>12. /\ IsPage(q) /\ q.buffer = b /\ q.awaiting = page.awaiting /\ q.paused = page.paused
       /\ q.inbox = page.inbox /\ q.pending = << >>
  BY <1>2, <1>4, <1>9, <1>11 DEF IsPage, PageFields
<1>13. /\ IsPage(page') /\ page'.buffer = Pumped(q, n).buffer /\ page'.inbox = page.inbox
       /\ page'.paused = q.paused /\ page'.awaiting = page.awaiting /\ page'.pending = << >>
  BY <1>1, <1>12, PumpedFacts
<1>14. \A k \in DOMAIN b : b[k].m.id[2] > left'.own
  BY <1>1, <1>10 DEF IInv, NumberInv
<1>15. SentOnce(b)
  BY <1>10 DEF IInv, UpInv, SentOnce, Known
<1>16. Heard(b)
  BY <1>10 DEF IInv, HeardInv, Heard, Known
<1>17. link \in {"joined", "broken"} /\ left' \in Bounds /\ left'.own <= left.own
       /\ left'.others = left.others
  BY <1>1, <1>2 DEF Connected, Bounds
<1>18. IInv'
  BY <1>1, <1>12, <1>13, <1>14, <1>15, <1>16, <1>17, SendKeeps
<1>19. KeptInv'
  <2>1. DOMAIN << >> = {} /\ << >> \in Seq(OwnMutations)
    OBVIOUS
  <2> QED
    BY <1>13, <2>1 DEF KeptInv
<1> QED
  BY <1>18, <1>19

\* A write is dropped, and nobody is told.
LEMMA IgnoreKeeps ==
    ASSUME IInv, Ignore
    PROVE  IInv'
<1>1. up # << >> /\ up' = Tail(up) /\ UNCHANGED <<hist, page, down, link, left, unacked>>
  BY DEF Ignore
<1>2. /\ up \in Seq(OwnMutations) /\ Tail(up) \in Seq(OwnMutations)
      /\ \A k \in DOMAIN Tail(up) :
            k \in Nat /\ k + 1 \in DOMAIN up /\ Tail(up)[k] = up[k + 1] /\ k + 1 # 1
      /\ link = "joined" /\ ~page.awaiting /\ ~page.paused
      /\ \A k \in DOMAIN down : down[k].kind \notin {"limited", "batch"}
  BY <1>1, Writing
<1>3. \A j \in DOMAIN up' : \E i \in DOMAIN up : up'[j] = up[i]
  BY <1>1, <1>2
<1>4. TypeInv' /\ NumberInv'
  BY <1>1, <1>2, <1>3 DEF IInv, TypeInv, NumberInv
<1>5. LinkInv' /\ AwaitInv' /\ PauseInv'
  BY <1>1, <1>2 DEF LinkInv, AwaitInv, PauseInv
<1>6. UpInv'
  <2>1. \A j, k \in DOMAIN up' : up'[j].id = up'[k].id => j = k
    <3> SUFFICES ASSUME NEW j \in DOMAIN up', NEW k \in DOMAIN up', up'[j].id = up'[k].id
                 PROVE  j = k
      OBVIOUS
    <3>1. j + 1 \in DOMAIN up /\ k + 1 \in DOMAIN up /\ up[j + 1].id = up[k + 1].id
          /\ j \in Nat /\ k \in Nat
      BY <1>1, <1>2
    <3>2. j + 1 = k + 1
      BY <3>1 DEF IInv, UpInv
    <3> QED
      BY <3>1, <3>2
  <2> QED
    BY <1>1, <1>3, <2>1 DEF IInv, UpInv, SentOnce
<1>7. HeardInv' /\ AcceptedOnce'
  BY <1>1 DEF IInv, HeardInv, Heard, Carries, AcceptedOnce
<1> QED
  BY <1>4, <1>5, <1>6, <1>7 DEF IInv

\* Steps that only change what is known of the check
LEMMA GateKept ==
    ASSUME IInv, KeptInv, UNCHANGED <<hist, page, up, down, link, left, unacked>>
    PROVE  IInv' /\ KeptInv'
<1>1. IInv'
  BY DEF IInv, TypeInv, NumberInv, LinkInv, AwaitInv, PauseInv, UpInv, SentOnce,
         HeardInv, Heard, AcceptedOnce, IsPage, Distinct, Carries
<1>2. Known' = Known
  BY DEF Known
<1>3. KeptInv'
  BY <1>2 DEF KeptInv
<1> QED
  BY <1>1, <1>3

-----------------------------------------------------------------------------
(* The theorems *)

\* At first nothing was written.
LEMMA InitIInv == Init => IInv /\ KeptInv
<1> SUFFICES ASSUME Init PROVE IInv /\ KeptInv
  OBVIOUS
<1>1. DOMAIN << >> = {} /\ \A S : << >> \in Seq(S)
  OBVIOUS
<1>2. /\ hist = << >> /\ up = << >> /\ down = << >> /\ link = "joined" /\ left \in Scenarios
      /\ page = [view |-> Opened, seq |-> 0, awaiting |-> FALSE, paused |-> FALSE,
                 journal |-> << >>, buffer |-> << >>, inbox |-> << >>,
                 waiting |-> << >>, pending |-> << >>, stray |-> {}, crossed |-> FALSE]
  BY DEF Init
<1>3. /\ DOMAIN page = PageFields /\ page.seq = 0 /\ page.awaiting = FALSE
      /\ page.paused = FALSE /\ page.buffer = << >> /\ page.inbox = << >>
  BY <1>2 DEF PageFields
<1>4. left \in Bounds
  BY <1>2, OptimisticWritesAssumption DEF Bounds
<1>5. IsPage(page)
  <2>1. << >> \in Seq(Writes) /\ << >> \in Seq(Casts) /\ DOMAIN << >> = {}
    OBVIOUS
  <2>2. Distinct(<< >>)
    BY <2>1 DEF Distinct
  <2>3. page.seq \in Nat /\ page.awaiting \in BOOLEAN /\ page.paused \in BOOLEAN
    BY <1>2
  <2>4. page.buffer \in Seq(Writes) /\ Distinct(page.buffer) /\ page.inbox \in Seq(Casts)
    BY <1>3, <2>1, <2>2
  <2> QED
    BY <1>3, <2>3, <2>4 DEF IsPage
<1>6. TypeInv
  BY <1>1, <1>2, <1>4, <1>5 DEF TypeInv
<1>7. NumberInv /\ LinkInv /\ AwaitInv /\ PauseInv
  BY <1>1, <1>2, <1>3 DEF NumberInv, LinkInv, AwaitInv, PauseInv
<1>8. UpInv /\ HeardInv /\ AcceptedOnce
  BY <1>1, <1>2, <1>3 DEF UpInv, SentOnce, HeardInv, Heard, AcceptedOnce
<1>9. KeptInv
  BY <1>1, <1>2 DEF KeptInv
<1> QED
  BY <1>6, <1>7, <1>8, <1>9 DEF IInv

\* What is stored of the board is a number of mutations.
LEMMA StoredKept == stored \in Nat /\ IInv /\ [Next]_vars => (stored \in Nat)'
<1> SUFFICES ASSUME stored \in Nat, IInv, [Next]_vars PROVE stored' \in Nat
  OBVIOUS
<1>1. ASSUME NEW n \in stored .. Len(hist), Start(n)
      PROVE  stored' \in Nat
  <2>1. PICK l \in Nat : l = Len(hist)
    BY LenProperties DEF IInv, TypeInv
  <2>2. n \in Nat
    BY <2>1
  <2> QED
    BY <1>1, <2>2 DEF Start
<1>2. CASE UNCHANGED stored
  BY <1>2
<1> QED
  BY <1>1, <1>2 DEF Next, vars, DrawAndSend, PumpBufferedWrites, Accept, Refuse, Limit,
     OtherWrites, Cut, HearBroadcast, ToolReady, DrainInbox, HearRejection, HearLimit,
     PauseEnds, Disconnected, Join, DrawAndKeep, FlushPendingWrites, ValidationEnds, Ignore,
     VerifyToken, ClearanceEnds

\* Every step keeps the invariant, and what is kept.
LEMMA NextIInv == stored \in Nat /\ IInv /\ KeptInv /\ [Next]_vars => IInv' /\ KeptInv'
<1> SUFFICES ASSUME stored \in Nat, IInv, KeptInv, [Next]_vars PROVE IInv' /\ KeptInv'
  OBVIOUS
<1>1. ASSUME NEW m \in Makes("own", page.view), NEW n \in 0 .. Len(page.buffer) + 1,
             DrawAndSend(m, n)
      PROVE  IInv' /\ KeptInv'
  <2>1. n \in Nat
    BY LenProperties DEF IInv, TypeInv, IsPage
  <2> QED
    BY <1>1, <2>1, DrawAndSendKeeps, DrawAndSendKept
<1>2. ASSUME NEW n \in 1 .. Len(page.buffer), PumpBufferedWrites(n)
      PROVE  IInv' /\ KeptInv'
  <2>1. n \in Nat
    BY LenProperties DEF IInv, TypeInv, IsPage
  <2>2. IsPage(page) /\ up \in Seq(OwnMutations)
    BY DEF IInv, TypeInv
  <2>3. page' = Pumped(page, n) /\ up' = Sent(Messages(page, n)) /\ UNCHANGED <<hist, left>>
    BY <1>2 DEF PumpBufferedWrites
  <2>4. Quietly
    BY <2>2, <2>3, PumpedFacts, SentFacts DEF Quietly
  <2> QED
    BY <1>2, <2>1, <2>4, PumpKeeps, QuietlyKept
<1>3. CASE Accept
  BY <1>3, AcceptKeeps, ServerKept
<1>4. CASE Refuse
  BY <1>4, RefuseKeeps, ServerKept
<1>5. CASE Limit
  BY <1>5, LimitKeeps, ServerKept
<1>6. ASSUME NEW m \in Makes("others", Now), OtherWrites(m)
      PROVE  IInv' /\ KeptInv'
  BY <1>6, OtherWritesKeeps, OthersKept
<1>7. ASSUME NEW n \in 0 .. Len(down), Cut(n)
      PROVE  IInv' /\ KeptInv'
  BY <1>7, CutKeeps, ServerKept
<1>8. CASE HearBroadcast
  BY <1>8, HearBroadcastKeeps, HeardKept
<1>9. CASE ToolReady
  BY <1>9, ToolReadyKeeps, HeardKept
<1>10. CASE DrainInbox
  BY <1>10, DrainInboxKeeps, HeardKept
<1>11. CASE HearRejection
  BY <1>11, HearRejectionKeeps, HeardKept
<1>12. CASE HearLimit
  BY <1>12, HearLimitKeeps, HeardKept
<1>13. CASE PauseEnds
  BY <1>13, PauseEndsKeeps, HeardKept
<1>14. CASE Disconnected
  BY <1>14, DisconnectedKeeps, ConnectionKept
<1>15. ASSUME NEW n \in stored .. Len(hist), Start(n)
       PROVE  IInv' /\ KeptInv'
  <2>1. PICK l \in Nat : l = Len(hist)
    BY LenProperties DEF IInv, TypeInv
  <2>2. n \in Nat
    BY <2>1
  <2> QED
    BY <1>15, <2>2, StartKeeps, ConnectionKept
<1>16. CASE Join
  BY <1>16, JoinKeeps, ConnectionKept
<1>17. ASSUME NEW m \in Makes("own", page.view), DrawAndKeep(m)
       PROVE  IInv' /\ KeptInv'
  BY <1>17, DrawAndKeepKept
<1>18. ASSUME NEW n \in 0 .. Len(page.buffer) + Len(page.pending), FlushPendingWrites(n)
       PROVE  IInv' /\ KeptInv'
  <2>1. page.buffer \in Seq(Writes) /\ page.pending \in Seq(OwnMutations)
    BY DEF IInv, TypeInv, IsPage, KeptInv
  <2>2. PICK c, d \in Nat : c = Len(page.buffer) /\ d = Len(page.pending)
    BY <2>1, LenProperties
  <2>3. n \in Nat
    BY <2>2
  <2> QED
    BY <1>18, <2>3, FlushKept
<1>19. CASE Ignore
  BY <1>19, IgnoreKeeps, ServerKept
<1>20. CASE ValidationEnds \/ VerifyToken \/ ClearanceEnds \/ UNCHANGED vars
  BY <1>20, GateKept DEF ValidationEnds, VerifyToken, ClearanceEnds, vars
<1> QED
  BY <1>1, <1>2, <1>3, <1>4, <1>5, <1>6, <1>7, <1>8, <1>9, <1>10, <1>11, <1>12, <1>13, <1>14,
     <1>15, <1>16, <1>17, <1>18, <1>19, <1>20 DEF Next

\* A write that is sent again after a pause was not accepted before (AcceptedOnce).
THEOREM WritesAreAcceptedOnce == Spec => []AcceptedOnce
<1>1. IInv => AcceptedOnce
  BY DEF IInv
<1>2. Init => stored \in Nat
  BY DEF Init
<1> QED
  BY <1>1, <1>2, InitIInv, NextIInv, StoredKept, PTL DEF Spec

-----------------------------------------------------------------------------
(* Induction and recursion up to a number *)

\* What holds at 0 and is passed on holds up to n.
LEMMA UpTo ==
    ASSUME NEW n \in Nat, NEW S, 0 \in S,
           \A k \in 0 .. n - 1 : k \in S => k + 1 \in S
    PROVE  \A k \in 0 .. n : k \in S
<1> SUFFICES ASSUME NEW x \in 0 .. n, x \notin S PROVE FALSE
  OBVIOUS
<1> DEFINE Out == {k \in 0 .. n : k \notin S}
<1> DEFINE R == OpToRel(<, Nat)
<1>1. Out \subseteq Nat /\ x \in Out
  OBVIOUS
<1>2. IsWellFoundedOn(R, Nat)
  BY NatLessThanWellFounded
<1>3. PICK k \in Out : \A j \in Out : ~(<<j, k>> \in R)
  <2> HIDE DEF Out, R
  <2> QED
    BY <1>1, <1>2, WFMin, Zenon
<1>4. \A j \in Out : ~(j < k)
  BY <1>1, <1>3 DEF OpToRel
<1>5. k \in 0 .. n /\ k \notin S
  OBVIOUS
<1>6. k # 0
  BY <1>5
<1>7. k - 1 \in 0 .. n - 1 /\ k - 1 \in 0 .. n /\ k - 1 < k /\ k - 1 + 1 = k
  BY <1>5, <1>6
<1>8. k - 1 \in S
  BY <1>4, <1>7
<1> QED
  BY <1>5, <1>7, <1>8

\* A function that is defined step by step exists.
Steps(f, n, S, a, step) ==
    /\ f \in [0 .. n -> S] /\ f[0] = a
    /\ \A k \in 1 .. n : f[k] = step[<<k, f[k - 1]>>]

\* Steps that stay in a set make such a function.
LEMMA Stepwise ==
    ASSUME NEW n \in Nat, NEW S, NEW a \in S, NEW step \in [(1 .. n) \X S -> S]
    PROVE  \E f : Steps(f, n, S, a, step)
<1> DEFINE Ok(f, l) == f[0] = a /\ \A k \in 1 .. l : f[k] = step[<<k, f[k - 1]>>]
           G == {l \in 0 .. n : \E f \in [0 .. l -> S] : Ok(f, l)}
<1>1. 0 \in G
  <2> DEFINE f == [i \in 0 .. 0 |-> a]
  <2>1. f \in [0 .. 0 -> S]
    OBVIOUS
  <2>2. f[0] = a /\ 0 \in 0 .. n
    OBVIOUS
  <2>3. \A k \in 1 .. 0 : FALSE
    OBVIOUS
  <2> HIDE DEF f
  <2>4. Ok(f, 0)
    BY <2>2, <2>3
  <2> QED
    BY <2>1, <2>2, <2>4
<1>2. \A l \in 0 .. n - 1 : l \in G => l + 1 \in G
  <2> SUFFICES ASSUME NEW l \in 0 .. n - 1, l \in G
               PROVE  l + 1 \in G
    OBVIOUS
  <2>1. PICK f \in [0 .. l -> S] : Ok(f, l)
    OBVIOUS
  <2> DEFINE g == [i \in 0 .. l + 1 |-> IF i = l + 1 THEN step[<<l + 1, f[l]>>] ELSE f[i]]
  <2>2. l \in 0 .. l /\ l + 1 \in 1 .. n /\ l + 1 \in 0 .. n /\ f[l] \in S
    <3>1. l \in 0 .. l /\ l + 1 \in 1 .. n /\ l + 1 \in 0 .. n
      OBVIOUS
    <3>2. f \in [0 .. l -> S]
      OBVIOUS
    <3> QED
      BY <3>1, <3>2
  <2>3. <<l + 1, f[l]>> \in (1 .. n) \X S
    BY <2>2
  <2>4. step[<<l + 1, f[l]>>] \in S
    BY <2>3
  <2>5. \A i \in 0 .. l : i \in 0 .. l + 1 /\ i # l + 1 /\ g[i] = f[i]
    OBVIOUS
  <2>6. g \in [0 .. l + 1 -> S]
    BY <2>4
  <2>7. g[l + 1] = step[<<l + 1, g[l]>>] /\ l + 1 - 1 = l
    <3>1. l + 1 - 1 = l /\ l + 1 \in 0 .. l + 1
      BY <2>2
    <3>2. g[l] = f[l] /\ g[l + 1] = step[<<l + 1, f[l]>>]
      BY <2>2, <2>5, <3>1
    <3> QED
      BY <3>1, <3>2
  <2>8. g[0] = a
    BY <2>1, <2>5
  <2>9. ASSUME NEW k \in 1 .. l + 1
        PROVE  g[k] = step[<<k, g[k - 1]>>]
    <3>1. CASE k = l + 1
      BY <2>7, <3>1
    <3>2. CASE k # l + 1
      <4>1. k \in 1 .. l /\ k \in 0 .. l /\ k - 1 \in 0 .. l
        BY <3>2
      <4>2. f[k] = step[<<k, f[k - 1]>>]
        BY <2>1, <4>1
      <4> QED
        BY <2>5, <4>1, <4>2
    <3> QED
      BY <3>1, <3>2
  <2> HIDE DEF g
  <2>10. Ok(g, l + 1)
    BY <2>8, <2>9
  <2> QED
    BY <2>2, <2>6, <2>10
<1>3. n \in 0 .. n
  OBVIOUS
<1> HIDE DEF G
<1>4. n \in G
  BY <1>1, <1>2, <1>3, UpTo
<1> QED
  BY <1>4 DEF G, Steps

\* All of a list is the list.
LEMMA PartAll ==
    ASSUME NEW S, NEW seq \in Seq(S)
    PROVE  Part(seq, DOMAIN seq) = seq
<1>1. PICK n \in Nat : n = Len(seq) /\ DOMAIN seq = 1 .. n
  BY LenProperties
<1>2. \A i \in 1 .. n : Rank(1 .. n, i) = i - 1
  <2> SUFFICES ASSUME NEW i \in 1 .. n PROVE Rank(1 .. n, i) = i - 1
    OBVIOUS
  <2>1. {j \in 1 .. n : j < i} = 1 .. i - 1
    OBVIOUS
  <2>2. 1 \in Int /\ i - 1 \in Int
    OBVIOUS
  <2>3. Cardinality(1 .. i - 1) = IF 1 > i - 1 THEN 0 ELSE i - 1 - 1 + 1
    BY <2>2, FS_Interval
  <2>4. Cardinality(1 .. i - 1) = i - 1
    BY <2>3
  <2> QED
    BY <2>1, <2>4 DEF Rank
<1>3. Cardinality(1 .. n) = n
  <2>1. 1 \in Int /\ n \in Int
    OBVIOUS
  <2>2. Cardinality(1 .. n) = IF 1 > n THEN 0 ELSE n - 1 + 1
    BY <2>1, FS_Interval
  <2> QED
    BY <2>2
<1>4. \A k \in 1 .. n : (CHOOSE i \in 1 .. n : Rank(1 .. n, i) = k - 1) = k
  <2> SUFFICES ASSUME NEW k \in 1 .. n
               PROVE  (CHOOSE i \in 1 .. n : Rank(1 .. n, i) = k - 1) = k
    OBVIOUS
  <2>1. PICK x : x = CHOOSE i \in 1 .. n : Rank(1 .. n, i) = k - 1
    OBVIOUS
  <2>2. x \in 1 .. n /\ Rank(1 .. n, x) = k - 1
    BY <1>2, <2>1
  <2>3. x - 1 = k - 1
    BY <1>2, <2>2
  <2> QED
    BY <2>1, <2>2, <2>3
<1>5. Part(seq, DOMAIN seq) = [k \in 1 .. n |-> seq[k]]
  <2> DEFINE K == 1 .. n
             at(k) == CHOOSE i \in K : Rank(K, i) = k - 1
             part == [k \in 1 .. n |-> seq[at(k)]]
  <2>1. Part(seq, K) = part
    BY <1>3 DEF Part
  <2>2. \A k \in 1 .. n : at(k) = k
    BY <1>4
  <2> HIDE DEF at
  <2>3. part = [k \in 1 .. n |-> seq[k]]
    BY <2>2
  <2> QED
    BY <1>1, <2>1, <2>3
<1>6. seq = [k \in 1 .. n |-> seq[k]]
  <2>1. PICK l \in Nat : seq \in [1 .. l -> S]
    BY SeqDef
  <2>2. DOMAIN seq = 1 .. l
    BY <2>1
  <2>3. seq \in [1 .. n -> S]
    BY <1>1, <2>1, <2>2
  <2> QED
    BY <2>3
<1> QED
  BY <1>5, <1>6

-----------------------------------------------------------------------------
(* What mutations do to a drawing *)

Words == MutationIds \cup {<<"stored", 0>>}
Contents == Seq(Words)
Views == [Items -> Contents]

\* A mutation that can be applied: a copy is of an item.
Sound(m) == m \in Mutations /\ (m.op = "copy" => m.on # {})
\* The items that a mutation changes
Cover(m) == IF m.op = "clear" THEN Items ELSE Affected(m)

\* The fields of mutations
LEMMA MutationFacts ==
    ASSUME NEW m \in Mutations
    PROVE  /\ m.id \in MutationIds /\ m.on \in SUBSET Items /\ m.to \in SUBSET Items
           /\ m.op \in {"create", "update", "copy", "delete", "clear"}
           /\ m.id[2] \in Nat
           /\ Affected(m) \subseteq Items /\ Touches(m) \subseteq Items /\ Cover(m) \subseteq Items
           /\ m.op # "clear" => Cover(m) \subseteq Touches(m)
<1>1. /\ m.id \in MutationIds /\ m.on \in SUBSET Items /\ m.to \in SUBSET Items
      /\ m.op \in {"create", "update", "copy", "delete", "clear"}
  BY DEF Mutations
<1>2. m.id[2] \in Nat
  BY <1>1 DEF MutationIds
<1>3. Affected(m) \subseteq Items /\ Depends(m) \subseteq Items
  BY <1>1 DEF Affected, Depends
<1> QED
  BY <1>1, <1>2, <1>3 DEF Touches, Cover

\* Mutations whose order does not matter change what the other does not touch.
LEMMA Apart ==
    ASSUME NEW m, NEW n, Sound(m), Sound(n), ~Collide(m, n)
    PROVE  /\ m.op # "clear" /\ n.op # "clear"
           /\ \A i \in Cover(m) : i \notin Touches(n) /\ i \notin Cover(n)
           /\ \A i \in Touches(m) : i \notin Cover(n)
           /\ \A i \in Cover(n) : i \notin Touches(m) /\ i \notin Cover(m)
           /\ \A i \in Touches(n) : i \notin Cover(m)
           /\ ~Collide(n, m)
<1>1. m.op # "clear" /\ n.op # "clear" /\ Touches(m) \cap Touches(n) = {}
  BY DEF Collide
<1>2. Cover(m) \subseteq Touches(m) /\ Cover(n) \subseteq Touches(n)
  BY <1>1, MutationFacts DEF Sound
<1>3. ~Collide(n, m)
  BY <1>1 DEF Collide
<1> QED
  BY <1>1, <1>2, <1>3

\* A mutation makes a drawing of a drawing, leaves alone what it does not cover, and what
\* it makes of the rest depends on what it touches.
LEMMA DrawnFacts ==
    ASSUME NEW v \in Views, NEW m, Sound(m)
    PROVE  /\ Drawn(v, m) \in Views
           /\ \A i \in Items : i \notin Cover(m) => Drawn(v, m)[i] = v[i]
           /\ \A w \in Views :
                 (m.op # "clear" => \A i \in Touches(m) : v[i] = w[i]) =>
                    \A i \in Cover(m) : Drawn(v, m)[i] = Drawn(w, m)[i]
<1>0. m.id \in Words /\ m.on \in SUBSET Items /\ m.to \in SUBSET Items
      /\ m.op \in {"create", "update", "copy", "delete", "clear"}
  BY MutationFacts DEF Sound, Words
<1>1. m.op = "copy" => TheItem(m.on) \in m.on
  BY DEF Sound, TheItem
<1>2. << >> \in Contents /\ <<m.id>> \in Contents
  BY <1>0 DEF Contents
<1>3. \A c \in Contents : Append(c, m.id) \in Contents
  BY <1>0, AppendProperties DEF Contents
<1> HIDE DEF Contents
<1> DEFINE At(u, i) ==
        IF m.op # "clear" /\ i \notin Affected(m) THEN u[i]
        ELSE CASE m.op \in {"clear", "delete"} -> Blank
               [] m.op = "create" -> <<m.id>>
               [] m.op = "update" -> Append(u[i], m.id)
               [] m.op = "copy" -> Append(u[TheItem(m.on)], m.id)
<1>4. \A u \in Views : Drawn(u, m) = [i \in Items |-> At(u, i)]
  BY DEF Drawn
<1>5. \A u \in Views, i \in Items : u[i] \in Contents
  BY DEF Views
<1>6. \A u \in Views, i \in Items : At(u, i) \in Contents
  <2> SUFFICES ASSUME NEW u \in Views, NEW i \in Items
               PROVE  At(u, i) \in Contents
    OBVIOUS
  <2>1. CASE m.op # "clear" /\ i \notin Affected(m)
    BY <1>5, <2>1
  <2>2. CASE ~(m.op # "clear" /\ i \notin Affected(m))
    <3>1. CASE m.op \in {"clear", "delete"}
      BY <1>2, <2>2, <3>1 DEF Blank
    <3>2. CASE m.op = "create"
      BY <1>2, <2>2, <3>2
    <3>3. CASE m.op = "update"
      BY <1>3, <1>5, <2>2, <3>3
    <3>4. CASE m.op = "copy"
      <4>1. TheItem(m.on) \in Items
        BY <1>0, <1>1, <3>4
      <4>2. Append(u[TheItem(m.on)], m.id) \in Contents
        BY <1>3, <1>5, <4>1
      <4> QED
        BY <2>2, <3>4, <4>2
    <3> QED
      BY <1>0, <3>1, <3>2, <3>3, <3>4
  <2> QED
    BY <2>1, <2>2
<1>7. \A i \in Items : i \notin Cover(m) => At(v, i) = v[i]
  BY DEF Cover
<1>8. ASSUME NEW w \in Views, m.op # "clear" => \A i \in Touches(m) : v[i] = w[i],
             NEW i \in Cover(m)
      PROVE  i \in Items /\ At(v, i) = At(w, i)
  <2>1. i \in Items
    BY MutationFacts DEF Sound
  <2>2. CASE m.op \in {"clear", "delete"}
    BY <2>2, <2>1 DEF Cover
  <2>3. CASE m.op = "create"
    BY <2>3, <2>1 DEF Cover
  <2>4. CASE m.op = "update"
    <3>1. v[i] = w[i]
      BY <1>8, <2>4 DEF Cover, Touches
    <3> QED
      BY <2>1, <2>4, <3>1 DEF Cover
  <2>5. CASE m.op = "copy"
    <3>1. TheItem(m.on) \in Touches(m)
      BY <1>1, <2>5 DEF Touches, Depends
    <3>2. v[TheItem(m.on)] = w[TheItem(m.on)]
      BY <1>8, <2>5, <3>1
    <3> QED
      BY <2>1, <2>5, <3>2 DEF Cover
  <2> QED
    BY <1>0, <2>2, <2>3, <2>4, <2>5
<1> HIDE DEF At
<1>9. Drawn(v, m) \in Views
  BY <1>4, <1>6 DEF Views
<1>10. \A u \in Views, i \in Items : Drawn(u, m)[i] = At(u, i)
  BY <1>4
<1>11. \A i \in Items : i \notin Cover(m) => Drawn(v, m)[i] = v[i]
  BY <1>7, <1>10
<1>12. \A w \in Views :
          (m.op # "clear" => \A i \in Touches(m) : v[i] = w[i]) =>
             \A i \in Cover(m) : Drawn(v, m)[i] = Drawn(w, m)[i]
  BY <1>8, <1>10
<1> QED
  BY <1>9, <1>11, <1>12

\* Two drawings that show the same are the same.
LEMMA SameView ==
    ASSUME NEW v \in Views, NEW w \in Views, \A i \in Items : v[i] = w[i]
    PROVE  v = w
  BY DEF Views

\* Mutations that do not collide can be drawn in either order.
LEMMA DrawnCommute ==
    ASSUME NEW v \in Views, NEW m, NEW n, Sound(m), Sound(n), ~Collide(m, n)
    PROVE  Drawn(Drawn(v, m), n) = Drawn(Drawn(v, n), m)
<1>1. /\ \A i \in Cover(m) : i \notin Cover(n)
      /\ \A i \in Touches(m) : i \notin Cover(n)
      /\ \A i \in Cover(n) : i \notin Cover(m)
      /\ \A i \in Touches(n) : i \notin Cover(m)
  BY Apart
<1>2. Drawn(v, m) \in Views /\ Drawn(v, n) \in Views
  BY DrawnFacts
<1>3. Drawn(Drawn(v, m), n) \in Views /\ Drawn(Drawn(v, n), m) \in Views
  BY <1>2, DrawnFacts
<1>4. Touches(m) \subseteq Items /\ Touches(n) \subseteq Items
  BY MutationFacts DEF Sound
<1>5. ASSUME NEW i \in Items
      PROVE  Drawn(Drawn(v, m), n)[i] = Drawn(Drawn(v, n), m)[i]
  <2>1. CASE i \in Cover(m)
    <3>1. Drawn(Drawn(v, m), n)[i] = Drawn(v, m)[i]
      BY <1>1, <1>2, <2>1, DrawnFacts
    <3>2. \A j \in Touches(m) : Drawn(v, n)[j] = v[j]
      BY <1>1, <1>4, DrawnFacts
    <3>3. Drawn(Drawn(v, n), m)[i] = Drawn(v, m)[i]
      BY <1>2, <2>1, <3>2, DrawnFacts
    <3> QED
      BY <3>1, <3>3
  <2>2. CASE i \in Cover(n)
    <3>1. Drawn(Drawn(v, n), m)[i] = Drawn(v, n)[i]
      BY <1>1, <1>2, <2>2, DrawnFacts
    <3>2. \A j \in Touches(n) : Drawn(v, m)[j] = v[j]
      BY <1>1, <1>4, DrawnFacts
    <3>3. Drawn(Drawn(v, m), n)[i] = Drawn(v, n)[i]
      BY <1>2, <2>2, <3>2, DrawnFacts
    <3> QED
      BY <3>1, <3>3
  <2>3. CASE i \notin Cover(m) /\ i \notin Cover(n)
    <3>1. Drawn(Drawn(v, m), n)[i] = v[i]
      BY <1>2, <2>3, DrawnFacts
    <3>2. Drawn(Drawn(v, n), m)[i] = v[i]
      BY <1>2, <2>3, DrawnFacts
    <3> QED
      BY <3>1, <3>2
  <2> QED
    BY <2>1, <2>2, <2>3
<1> QED
  BY <1>3, <1>5, SameView

-----------------------------------------------------------------------------
(* The journal as a stack of drawings *)

Snaps == UNION {[K -> Contents] : K \in SUBSET Items}
Entries == [m : OwnMutations, deps : SUBSET MutationIds, snap : Snaps]
Journals == {j \in Seq(Entries) : \A k \in DOMAIN j : Sound(j[k].m)}

\* An entry leads from a drawing to the next, and remembers what it replaced.
Step(e, v, w) ==
    /\ w = Drawn(v, e.m)
    /\ DOMAIN e.snap = Cover(e.m)
    /\ \A i \in Cover(e.m) : e.snap[i] = v[i]
\* The drawings between the board b and what is shown, one for each entry
IsStack(D, n, j, b, v) ==
    /\ D \in [0 .. n -> Views] /\ D[0] = b /\ D[n] = v
    /\ \A k \in 1 .. n : Step(j[k], D[k - 1], D[k])
Stack(j, b, v) == \E D : IsStack(D, Len(j), j, b, v)

\* A journal is a list of entries that can be drawn.
LEMMA JournalFacts ==
    ASSUME NEW j \in Journals
    PROVE  \E n \in Nat : n = Len(j) /\ DOMAIN j = 1 .. n
                          /\ \A k \in 1 .. n : j[k] \in Entries /\ Sound(j[k].m)
<1>1. j \in Seq(Entries) /\ \A k \in DOMAIN j : Sound(j[k].m)
  BY DEF Journals
<1>2. PICK n \in Nat : n = Len(j) /\ DOMAIN j = 1 .. n
  BY <1>1, LenProperties
<1>3. \A k \in 1 .. n : j[k] \in Entries
  BY <1>1, <1>2, ElementOfSeq
<1> QED
  BY <1>1, <1>2, <1>3

\* Another's mutation that collides with no entry is drawn under them all.
LEMMA StackUnder ==
    ASSUME NEW j \in Journals, NEW b, NEW v, Stack(j, b, v), NEW m, Sound(m),
           \A k \in DOMAIN j : ~Collide(j[k].m, m)
    PROVE  Stack(j, Drawn(b, m), Drawn(v, m))
<1>1. PICK n \in Nat : n = Len(j) /\ DOMAIN j = 1 .. n
                       /\ \A k \in 1 .. n : j[k] \in Entries /\ Sound(j[k].m)
  BY JournalFacts
<1>2. PICK D : IsStack(D, n, j, b, v)
  BY <1>1 DEF Stack
<1> DEFINE E == [k \in 0 .. n |-> Drawn(D[k], m)]
<1>3. D \in [0 .. n -> Views] /\ D[0] = b /\ D[n] = v /\ 0 \in 0 .. n /\ n \in 0 .. n
  BY <1>2 DEF IsStack
<1>4. E \in [0 .. n -> Views]
  BY <1>3, DrawnFacts
<1>5. \A k \in 0 .. n : E[k] = Drawn(D[k], m)
  OBVIOUS
<1>6. E[0] = Drawn(b, m) /\ E[n] = Drawn(v, m)
  BY <1>3, <1>5
<1> HIDE DEF E
<1>7. ASSUME NEW k \in 1 .. n
      PROVE  Step(j[k], E[k - 1], E[k])
  <2>1. k \in 0 .. n /\ k - 1 \in 0 .. n /\ k \in DOMAIN j
    BY <1>1
  <2>2. D[k - 1] \in Views /\ D[k] \in Views
    BY <1>3, <2>1
  <2>3. Step(j[k], D[k - 1], D[k])
    BY <1>2 DEF IsStack
  <2>4. Sound(j[k].m) /\ ~Collide(j[k].m, m)
    BY <1>1, <2>1
  <2>5. E[k] = Drawn(Drawn(D[k - 1], j[k].m), m)
    BY <1>5, <2>1, <2>3 DEF Step
  <2>6. E[k] = Drawn(E[k - 1], j[k].m)
    BY <1>5, <2>1, <2>2, <2>4, <2>5, DrawnCommute
  <2>7. \A i \in Cover(j[k].m) : i \in Items /\ i \notin Cover(m)
    BY <2>4, Apart, MutationFacts DEF Sound
  <2>8. \A i \in Cover(j[k].m) : E[k - 1][i] = D[k - 1][i]
    BY <1>5, <2>1, <2>2, <2>7, DrawnFacts
  <2> QED
    BY <2>3, <2>6, <2>8 DEF Step
<1>8. IsStack(E, n, j, Drawn(b, m), Drawn(v, m))
  BY <1>4, <1>6, <1>7 DEF IsStack
<1> QED
  BY <1>1, <1>8 DEF Stack

\* A mutation that is drawn on top
LEMMA StackPush ==
    ASSUME NEW j \in Journals, NEW b, NEW v, Stack(j, b, v), NEW e \in Entries, NEW w,
           Sound(e.m), Step(e, v, w)
    PROVE  Append(j, e) \in Journals /\ Stack(Append(j, e), b, w) /\ v \in Views /\ w \in Views
<1>1. PICK n \in Nat : n = Len(j) /\ DOMAIN j = 1 .. n
                       /\ \A k \in 1 .. n : j[k] \in Entries /\ Sound(j[k].m)
  BY JournalFacts
<1>2. PICK D : IsStack(D, n, j, b, v)
  BY <1>1 DEF Stack
<1>3. D \in [0 .. n -> Views] /\ D[0] = b /\ D[n] = v /\ 0 \in 0 .. n /\ n \in 0 .. n
  BY <1>2 DEF IsStack
<1>4. v \in Views
  BY <1>3
<1>5. w \in Views
  BY <1>4, DrawnFacts DEF Step
<1> DEFINE t == Append(j, e)
<1>6. j \in Seq(Entries)
  BY DEF Journals
<1>7. t \in Seq(Entries) /\ Len(t) = n + 1 /\ t[n + 1] = e /\ \A k \in 1 .. n : t[k] = j[k]
  BY <1>1, <1>6, AppendProperties
<1>8. DOMAIN t = 1 .. n + 1
  BY <1>7, LenProperties
<1> HIDE DEF t
<1>9. \A k \in 1 .. n + 1 : k = n + 1 \/ k \in 1 .. n
  OBVIOUS
<1>10. t \in Journals
  BY <1>1, <1>7, <1>8, <1>9 DEF Journals
<1> DEFINE E == [k \in 0 .. n + 1 |-> IF k = n + 1 THEN w ELSE D[k]]
<1>11. \A k \in 0 .. n : E[k] = D[k]
  OBVIOUS
<1>12. E[n + 1] = w /\ E \in [0 .. n + 1 -> Views]
  BY <1>3, <1>5
<1> HIDE DEF E
<1>13. ASSUME NEW k \in 1 .. n + 1
       PROVE  Step(t[k], E[k - 1], E[k])
  <2>1. CASE k = n + 1
    <3>1. k - 1 = n
      BY <2>1
    <3>2. E[k - 1] = v
      BY <1>3, <1>11, <3>1
    <3> QED
      BY <1>7, <1>12, <2>1, <3>2
  <2>2. CASE k # n + 1
    <3>1. k \in 1 .. n /\ k \in 0 .. n /\ k - 1 \in 0 .. n
      BY <2>2
    <3>2. Step(j[k], D[k - 1], D[k])
      BY <1>2, <3>1 DEF IsStack
    <3> QED
      BY <1>7, <1>11, <3>1, <3>2
  <2> QED
    BY <2>1, <2>2
<1>14. E[0] = b
  BY <1>3, <1>11
<1>15. IsStack(E, n + 1, t, b, w)
  BY <1>12, <1>13, <1>14 DEF IsStack
<1>16. Stack(t, b, w)
  BY <1>7, <1>15 DEF Stack
<1> QED
  BY <1>4, <1>5, <1>10, <1>16 DEF t

\* Drawings that stay the same for a while
LEMMA Still ==
    ASSUME NEW n \in Nat, NEW G, NEW a \in 0 .. n, NEW c \in 0 .. n, a <= c,
           \A k \in a + 1 .. c : G[k] = G[k - 1]
    PROVE  G[c] = G[a]
<1> DEFINE S == {k \in 0 .. c - a : G[a + k] = G[a]}
<1>1. 0 \in S
  OBVIOUS
<1>2. \A k \in 0 .. c - a - 1 : k \in S => k + 1 \in S
  <2> SUFFICES ASSUME NEW k \in 0 .. c - a - 1, k \in S
               PROVE  k + 1 \in S
    OBVIOUS
  <2>1. a + (k + 1) \in a + 1 .. c /\ a + (k + 1) - 1 = a + k /\ k + 1 \in 0 .. c - a
    OBVIOUS
  <2>2. G[a + (k + 1)] = G[a + k]
    BY <2>1
  <2> QED
    BY <2>1, <2>2
<1>3. c - a \in Nat /\ c - a \in 0 .. c - a
  OBVIOUS
<1> HIDE DEF S
<1>4. c - a \in S
  BY <1>1, <1>2, <1>3, UpTo
<1>5. a + (c - a) = c
  OBVIOUS
<1> QED
  BY <1>4, <1>5 DEF S

\* The drawings between b and v if only the entries at K are drawn
Skips(G, n, j, K, b, v) ==
    /\ G \in [0 .. n -> Views] /\ G[0] = b /\ G[n] = v
    /\ \A k \in 1 .. n :
          IF k \in K THEN Step(j[k], G[k - 1], G[k]) ELSE G[k] = G[k - 1]

\* Entries that leave the journal, given the drawings that there would be without them.
LEMMA StackPart ==
    ASSUME NEW j \in Journals, NEW K, K \subseteq DOMAIN j, NEW G, NEW b, NEW v,
           Skips(G, Len(j), j, K, b, v)
    PROVE  Part(j, K) \in Journals /\ Stack(Part(j, K), b, v)
<1>1. PICK n \in Nat : n = Len(j) /\ DOMAIN j = 1 .. n
                       /\ \A k \in 1 .. n : j[k] \in Entries /\ Sound(j[k].m)
  BY JournalFacts
<1>2. j \in Seq(Entries)
  BY DEF Journals
<1> DEFINE t == Part(j, K)
<1>3. t \in Seq(Entries)
  BY <1>2, PartFacts
<1>4. PICK o \in [DOMAIN t -> K] :
         /\ \A x, y \in DOMAIN t : o[x] = o[y] => x = y
         /\ \A x, y \in DOMAIN t : x < y => o[x] < o[y]
         /\ \A i \in K : \E k \in DOMAIN t : o[k] = i
         /\ \A k \in DOMAIN t : t[k] = j[o[k]]
  BY <1>2, PartFacts
<1> HIDE DEF t
<1>5. PICK c \in Nat : c = Len(t) /\ DOMAIN t = 1 .. c
  BY <1>3, LenProperties
<1>6. \A k \in 1 .. c : o[k] \in K /\ o[k] \in 1 .. n
  BY <1>1, <1>4, <1>5
<1>7. t \in Journals
  BY <1>1, <1>3, <1>4, <1>5, <1>6 DEF Journals
<1> DEFINE at(k) == IF k = 0 THEN 0 ELSE o[k]
           E == [k \in 0 .. c |-> G[at(k)]]
<1>8. \A k \in 0 .. c : at(k) \in 0 .. n
  BY <1>6
<1>9. E \in [0 .. c -> Views]
  BY <1>1, <1>8 DEF Skips
<1>10. \A k \in 0 .. c : E[k] = G[at(k)]
  OBVIOUS
<1>11. E[0] = b
  BY <1>10 DEF Skips
<1> HIDE DEF E
<1>12. ASSUME NEW k \in 1 .. c
       PROVE  Step(t[k], E[k - 1], E[k])
  <2> DEFINE a == at(k - 1)
             d == o[k] - 1
  <2>1. k \in 0 .. c /\ k - 1 \in 0 .. c
    OBVIOUS
  <2>2. o[k] \in K /\ o[k] \in 1 .. n /\ a \in 0 .. n
    BY <1>6, <1>8, <2>1
  <2>3. a < o[k]
    <3>1. CASE k - 1 = 0
      BY <2>2, <3>1
    <3>2. CASE k - 1 # 0
      <4>1. k - 1 \in 1 .. c /\ k - 1 < k
        BY <3>2
      <4> QED
        BY <1>4, <1>5, <3>2, <4>1
    <3> QED
      BY <3>1, <3>2
  <2>4. d \in 0 .. n /\ a <= d
    BY <2>2, <2>3
  <2>5. ASSUME NEW l \in a + 1 .. d
        PROVE  G[l] = G[l - 1]
    <3>1. l \in 1 .. n /\ l < o[k] /\ a < l
      BY <2>2, <2>4
    <3>2. l \notin K
      <4> SUFFICES ASSUME l \in K PROVE FALSE
        OBVIOUS
      <4>1. PICK x \in 1 .. c : o[x] = l
        BY <1>4, <1>5
      <4>2. CASE x >= k
        <5>1. x = k \/ k < x
          BY <4>2
        <5>2. k < x => o[k] < o[x]
          BY <1>4, <1>5
        <5> QED
          BY <2>2, <3>1, <4>1, <5>1, <5>2
      <4>3. CASE x < k
        <5>1. k - 1 \in 1 .. c /\ k - 1 # 0 /\ (x = k - 1 \/ x < k - 1)
          BY <4>3
        <5>2. x < k - 1 => o[x] < o[k - 1]
          BY <1>4, <1>5, <5>1
        <5>3. a = o[k - 1] /\ o[k - 1] \in 1 .. n
          BY <1>6, <5>1
        <5> QED
          BY <3>1, <4>1, <5>1, <5>2, <5>3
      <4> QED
        BY <4>2, <4>3
    <3> QED
      BY <1>1, <3>1, <3>2 DEF Skips
  <2>6. G[d] = G[a]
    <3>1. \A l \in a + 1 .. d : G[l] = G[l - 1]
      BY <2>5
    <3> HIDE DEF a, d
    <3>2. n \in Nat /\ a \in 0 .. n /\ d \in 0 .. n /\ a <= d
      BY <2>2, <2>4
    <3> QED
      BY <3>1, <3>2, Still
  <2>7. Step(j[o[k]], G[d], G[o[k]])
    BY <1>1, <2>2 DEF Skips
  <2>8. E[k - 1] = G[a] /\ E[k] = G[o[k]]
    BY <1>10, <2>1
  <2>9. t[k] = j[o[k]]
    BY <1>4, <1>5
  <2> QED
    BY <2>6, <2>7, <2>8, <2>9
<1>13. E[c] = v
  <2> DEFINE a == at(c)
  <2>1. a \in 0 .. n /\ a <= n /\ n \in 0 .. n /\ c \in 0 .. c
    BY <1>8
  <2>2. ASSUME NEW l \in a + 1 .. n
        PROVE  G[l] = G[l - 1]
    <3>1. l \in 1 .. n /\ a < l
      BY <2>1
    <3>2. l \notin K
      <4> SUFFICES ASSUME l \in K PROVE FALSE
        OBVIOUS
      <4>1. PICK x \in 1 .. c : o[x] = l
        BY <1>4, <1>5
      <4>2. c # 0 /\ c \in 1 .. c /\ (x = c \/ x < c)
        BY <4>1
      <4>3. x < c => o[x] < o[c]
        BY <1>4, <1>5, <4>2
      <4>4. a = o[c] /\ o[c] \in 1 .. n
        BY <1>6, <4>2
      <4> QED
        BY <3>1, <4>1, <4>2, <4>3, <4>4
    <3> QED
      BY <1>1, <3>1, <3>2 DEF Skips
  <2>3. G[n] = G[a]
    <3>1. \A l \in a + 1 .. n : G[l] = G[l - 1]
      BY <2>2
    <3> HIDE DEF a
    <3>2. n \in Nat /\ a \in 0 .. n /\ n \in 0 .. n /\ a <= n
      BY <2>1
    <3> QED
      BY <3>1, <3>2, Still
  <2> QED
    BY <1>1, <1>10, <2>1, <2>3 DEF Skips
<1>14. IsStack(E, c, t, b, v)
  BY <1>9, <1>11, <1>12, <1>13 DEF IsStack
<1>15. Stack(t, b, v)
  BY <1>5, <1>14 DEF Stack
<1> QED
  BY <1>7, <1>15 DEF t

\* A set of positions has a first one.
LEMMA Earliest ==
    ASSUME NEW n \in Nat, NEW S \in SUBSET (1 .. n), S # {}
    PROVE  \E k \in S : \A l \in S : k <= l
<1> DEFINE R == OpToRel(<, Nat)
<1>1. IsWellFoundedOn(R, Nat)
  BY NatLessThanWellFounded
<1>2. S \subseteq Nat
  OBVIOUS
<1>3. PICK x \in S : TRUE
  OBVIOUS
<1>4. PICK k \in S : \A l \in S : ~(<<l, k>> \in R)
  <2> HIDE DEF R
  <2> QED
    BY <1>1, <1>2, <1>3, WFMin, Zenon
<1>5. \A l \in S : ~(l < k)
  BY <1>2, <1>4 DEF OpToRel
<1> QED
  BY <1>2, <1>5

\* The drawings of a journal, one by one
LEMMA StackFacts ==
    ASSUME NEW n \in Nat, NEW j, NEW D, NEW b, NEW v, IsStack(D, n, j, b, v)
    PROVE  /\ b \in Views /\ v \in Views /\ D[0] = b /\ D[n] = v
           /\ \A k \in 0 .. n : D[k] \in Views
           /\ \A k \in 1 .. n : /\ k \in 0 .. n /\ k - 1 \in 0 .. n
                                /\ D[k - 1] \in Views /\ D[k] \in Views
                                /\ Step(j[k], D[k - 1], D[k])
<1>1. D \in [0 .. n -> Views] /\ D[0] = b /\ D[n] = v
      /\ \A k \in 1 .. n : Step(j[k], D[k - 1], D[k])
  BY DEF IsStack
<1>2. 0 \in 0 .. n /\ n \in 0 .. n /\ \A k \in 1 .. n : k \in 0 .. n /\ k - 1 \in 0 .. n
  OBVIOUS
<1>3. \A k \in 0 .. n : D[k] \in Views
  BY <1>1
<1> QED
  BY <1>1, <1>2, <1>3

\* What an entry draws can be drawn over another's mutation that it does not collide with.
LEMMA StepUnder ==
    ASSUME NEW e, NEW v \in Views, NEW w, Step(e, v, w), Sound(e.m), NEW m, Sound(m),
           ~Collide(e.m, m)
    PROVE  Step(e, Drawn(v, m), Drawn(w, m))
<1>1. w = Drawn(v, e.m) /\ DOMAIN e.snap = Cover(e.m)
      /\ \A i \in Cover(e.m) : e.snap[i] = v[i]
  BY DEF Step
<1>2. Drawn(w, m) = Drawn(Drawn(v, m), e.m)
  BY <1>1, DrawnCommute
<1>3. \A i \in Cover(e.m) : i \in Items /\ i \notin Cover(m)
  BY Apart, MutationFacts DEF Sound
<1>4. \A i \in Cover(e.m) : Drawn(v, m)[i] = v[i]
  BY <1>3, DrawnFacts
<1> QED
  BY <1>1, <1>2, <1>4 DEF Step

\* An own mutation that the server accepted becomes part of the board under those that
\* it has not answered yet.
LEMMA StackAck ==
    ASSUME NEW j \in Journals, NEW b, NEW v, Stack(j, b, v), Distinct(j),
           NEW q \in DOMAIN j,
           \A k \in DOMAIN j : k < q => ~Collide(j[k].m, j[q].m)
    PROVE  /\ Without(j, {j[q].m.id}) \in Journals
           /\ Stack(Without(j, {j[q].m.id}), Drawn(b, j[q].m), v)
<1>1. PICK n \in Nat : n = Len(j) /\ DOMAIN j = 1 .. n
                       /\ \A k \in 1 .. n : j[k] \in Entries /\ Sound(j[k].m)
  BY JournalFacts
<1>2. PICK D : IsStack(D, n, j, b, v)
  BY <1>1 DEF Stack
<1>3. /\ b \in Views /\ v \in Views /\ D[0] = b /\ D[n] = v
      /\ \A k \in 0 .. n : D[k] \in Views
      /\ \A k \in 1 .. n : /\ k \in 0 .. n /\ k - 1 \in 0 .. n
                           /\ D[k - 1] \in Views /\ D[k] \in Views
                           /\ Step(j[k], D[k - 1], D[k])
  BY <1>2, StackFacts
<1> DEFINE m == j[q].m
           K == {k \in DOMAIN j : j[k].m.id \notin {m.id}}
           G == [k \in 0 .. n |-> IF k < q THEN Drawn(D[k], m) ELSE D[k]]
<1>4. q \in 1 .. n /\ Sound(m)
  BY <1>1
<1>5. \A k \in 1 .. n : k \in K <=> k # q
  BY <1>1 DEF Distinct
<1>6. \A k \in 0 .. n : G[k] = IF k < q THEN Drawn(D[k], m) ELSE D[k]
  OBVIOUS
<1>7. G \in [0 .. n -> Views]
  BY <1>3, <1>4, DrawnFacts
<1>8. G[0] = Drawn(b, m) /\ G[n] = v
  BY <1>3, <1>4, <1>6
<1>9. \A k \in 1 .. n : k < q => ~Collide(j[k].m, m)
  BY <1>1
<1> HIDE DEF G, m
<1>10. ASSUME NEW k \in 1 .. n
       PROVE  IF k \in K THEN Step(j[k], G[k - 1], G[k]) ELSE G[k] = G[k - 1]
  <2>1. /\ k \in 0 .. n /\ k - 1 \in 0 .. n /\ D[k - 1] \in Views /\ D[k] \in Views
        /\ Step(j[k], D[k - 1], D[k])
    BY <1>3
  <2>2. CASE k < q
    <3>1. G[k - 1] = Drawn(D[k - 1], m) /\ G[k] = Drawn(D[k], m) /\ k \in K
      BY <1>4, <1>5, <1>6, <2>1, <2>2
    <3>2. Step(j[k], Drawn(D[k - 1], m), Drawn(D[k], m))
      BY <1>1, <1>4, <1>9, <2>1, <2>2, StepUnder
    <3> QED
      BY <3>1, <3>2
  <2>3. CASE k = q
    <3>1. G[k - 1] = Drawn(D[k - 1], m) /\ G[k] = D[k] /\ k \notin K
      BY <1>4, <1>5, <1>6, <2>1, <2>3
    <3>2. D[k] = Drawn(D[k - 1], m)
      BY <2>1, <2>3 DEF Step, m
    <3> QED
      BY <3>1, <3>2
  <2>4. CASE k > q
    <3>1. G[k - 1] = D[k - 1] /\ G[k] = D[k] /\ k \in K
      BY <1>4, <1>5, <1>6, <2>1, <2>4
    <3> QED
      BY <2>1, <3>1
  <2> QED
    BY <1>4, <2>2, <2>3, <2>4
<1>11. K \subseteq DOMAIN j
  OBVIOUS
<1>12. Without(j, {m.id}) = Part(j, K)
  BY DEF Without
<1> HIDE DEF K
<1>13. Skips(G, n, j, K, Drawn(b, m), v)
  BY <1>7, <1>8, <1>10 DEF Skips
<1>14. Part(j, K) \in Journals /\ Stack(Part(j, K), Drawn(b, m), v)
  BY <1>1, <1>11, <1>13, StackPart
<1> QED
  BY <1>12, <1>14 DEF m

\* What was drawn before an own mutation that is undone is restored, and what was drawn
\* since and stays does not depend on it (applyRejectedEntries).
LEMMA StackUndo ==
    ASSUME NEW j \in Journals, NEW b, NEW v, Stack(j, b, v), NEW ids, ~Uncovered(j, ids)
    PROVE  Stack(Without(j, ids), b, Restored(v, j, ids))
<1>1. PICK n \in Nat : n = Len(j) /\ DOMAIN j = 1 .. n
                       /\ \A k \in 1 .. n : j[k] \in Entries /\ Sound(j[k].m)
  BY JournalFacts
<1>2. PICK D : IsStack(D, n, j, b, v)
  BY <1>1 DEF Stack
<1>3. /\ b \in Views /\ v \in Views /\ D[0] = b /\ D[n] = v
      /\ \A k \in 0 .. n : D[k] \in Views
      /\ \A k \in 1 .. n : /\ k \in 0 .. n /\ k - 1 \in 0 .. n
                           /\ D[k - 1] \in Views /\ D[k] \in Views
                           /\ Step(j[k], D[k - 1], D[k])
  BY <1>2, StackFacts
<1> DEFINE U(i) == {k \in DOMAIN j : j[k].m.id \in ids /\ i \in DOMAIN j[k].snap}
           O(i) == CHOOSE k \in U(i) : \A l \in U(i) : k <= l
           K == {k \in DOMAIN j : j[k].m.id \notin ids}
           G == [k \in 0 .. n |-> [i \in Items |->
                   IF U(i) # {} /\ O(i) <= k THEN D[O(i) - 1][i] ELSE D[k][i]]]
<1>4. Restored(v, j, ids) = [i \in Items |-> IF U(i) = {} THEN v[i] ELSE j[O(i)].snap[i]]
  BY DEF Restored
<1>5. \A i, k : k \in U(i) <=> k \in 1 .. n /\ k \notin K /\ i \in Cover(j[k].m)
  BY <1>1, <1>3 DEF Step
<1>6. ASSUME NEW i, U(i) # {}
      PROVE  O(i) \in U(i) /\ \A l \in U(i) : O(i) <= l
  <2>1. U(i) \in SUBSET (1 .. n)
    BY <1>1
  <2> HIDE DEF U
  <2>2. \E k \in U(i) : \A l \in U(i) : k <= l
    BY <1>6, <2>1, Earliest
  <2> QED
    BY <2>2
<1>7. K \subseteq DOMAIN j /\ Without(j, ids) = Part(j, K)
  BY DEF Without
<1>8. \A k \in 0 .. n, i \in Items :
         G[k][i] = IF U(i) # {} /\ O(i) <= k THEN D[O(i) - 1][i] ELSE D[k][i]
  OBVIOUS
<1>9. \A k \in 1 .. n : k \in K <=> j[k].m.id \notin ids
  BY <1>1
<1> HIDE DEF U, O, K
<1>10. \A i : U(i) # {} => O(i) \in 1 .. n /\ O(i) - 1 \in 0 .. n /\ O(i) \notin K
                           /\ i \in Cover(j[O(i)].m)
  BY <1>3, <1>5, <1>6
<1>11. G \in [0 .. n -> Views]
  <2>1. \A k \in 0 .. n, i \in Items : D[k][i] \in Contents
    BY <1>3 DEF Views
  <2>2. \A k \in 0 .. n, i \in Items :
           (IF U(i) # {} /\ O(i) <= k THEN D[O(i) - 1][i] ELSE D[k][i]) \in Contents
    BY <1>10, <2>1
  <2> QED
    BY <2>2 DEF Views
<1> HIDE DEF G
<1>12. G[0] = b
  <2>1. G[0] \in Views /\ 0 \in 0 .. n
    BY <1>11
  <2>2. \A i \in Items : ~(U(i) # {} /\ O(i) <= 0)
    BY <1>10
  <2>3. \A i \in Items : G[0][i] = b[i]
    BY <1>3, <1>8, <2>1, <2>2
  <2> QED
    BY <1>3, <2>1, <2>3, SameView
<1>13. G[n] = Restored(v, j, ids)
  <2> DEFINE r == [i \in Items |-> IF U(i) = {} THEN v[i] ELSE j[O(i)].snap[i]]
  <2>1. G[n] \in Views /\ n \in 0 .. n
    BY <1>11
  <2>2. ASSUME NEW i \in Items
        PROVE  G[n][i] = r[i]
    <3>1. CASE U(i) = {}
      BY <1>3, <1>8, <2>1, <3>1
    <3>2. CASE U(i) # {}
      <4>1. O(i) <= n /\ O(i) \in 1 .. n /\ i \in Cover(j[O(i)].m)
        BY <1>10, <3>2
      <4>2. G[n][i] = D[O(i) - 1][i]
        BY <1>8, <2>1, <3>2, <4>1
      <4>3. j[O(i)].snap[i] = D[O(i) - 1][i]
        BY <1>3, <4>1 DEF Step
      <4> QED
        BY <3>2, <4>2, <4>3
    <3> QED
      BY <3>1, <3>2
  <2>3. r = G[n]
    <3>1. DOMAIN G[n] = Items /\ G[n] = [i \in Items |-> G[n][i]]
      BY <2>1 DEF Views
    <3>2. r = [i \in Items |-> r[i]]
      OBVIOUS
    <3> HIDE DEF r
    <3> QED
      BY <2>2, <3>1, <3>2
  <2> QED
    BY <1>4, <2>3
<1>14. ASSUME NEW k \in 1 .. n
       PROVE  IF k \in K THEN Step(j[k], G[k - 1], G[k]) ELSE G[k] = G[k - 1]
  <2> DEFINE m == j[k].m
  <2>1. /\ k \in 0 .. n /\ k - 1 \in 0 .. n /\ D[k - 1] \in Views /\ D[k] \in Views
        /\ Step(j[k], D[k - 1], D[k]) /\ Sound(m)
        /\ G[k] \in Views /\ G[k - 1] \in Views
    BY <1>1, <1>3, <1>11
  <2>2. D[k] = Drawn(D[k - 1], m) /\ DOMAIN j[k].snap = Cover(m)
        /\ \A i \in Cover(m) : j[k].snap[i] = D[k - 1][i]
    BY <2>1 DEF Step
  <2>3. \A i \in Items : i \notin Cover(m) => D[k][i] = D[k - 1][i]
    BY <2>1, <2>2, DrawnFacts
  <2>4. ASSUME NEW i \in Items, U(i) # {} => O(i) # k
        PROVE  \/ /\ U(i) # {} /\ O(i) <= k /\ O(i) <= k - 1 /\ G[k][i] = G[k - 1][i]
               \/ /\ ~(U(i) # {} /\ O(i) <= k) /\ ~(U(i) # {} /\ O(i) <= k - 1)
                  /\ G[k][i] = D[k][i] /\ G[k - 1][i] = D[k - 1][i]
    <3>1. U(i) # {} => (O(i) <= k <=> O(i) <= k - 1)
      BY <1>10, <2>4
    <3>2. G[k][i] = (IF U(i) # {} /\ O(i) <= k THEN D[O(i) - 1][i] ELSE D[k][i])
          /\ G[k - 1][i] = (IF U(i) # {} /\ O(i) <= k - 1 THEN D[O(i) - 1][i]
                            ELSE D[k - 1][i])
      BY <1>8, <2>1
    <3> QED
      BY <3>1, <3>2
  <2> HIDE DEF m
  <2>5. CASE k \in K
    <3>1. \A i : U(i) # {} => O(i) # k
      BY <1>10, <2>5
    <3>2. ASSUME NEW i \in Items, m.op = "clear" \/ i \in Touches(m)
          PROVE  G[k - 1][i] = D[k - 1][i] /\ G[k][i] = D[k][i]
      <4>1. ~(U(i) # {} /\ O(i) <= k)
        <5> SUFFICES ASSUME U(i) # {}, O(i) <= k PROVE FALSE
          OBVIOUS
        <5> DEFINE o == O(i)
        <5>1. o \in 1 .. n /\ o < k /\ o \notin K /\ i \in Cover(j[o].m)
          BY <1>10, <3>1
        <5> HIDE DEF o
        <5>2. Sound(j[o].m)
          BY <1>1, <5>1
        <5>3. j[o].m.id \in ids /\ j[k].m.id \notin ids
          BY <1>9, <2>5, <5>1
        <5>4. ~Collide(j[o].m, j[k].m)
          BY <1>1, <5>1, <5>3 DEF Uncovered
        <5>5. ~Collide(j[o].m, m)
          BY <5>4 DEF m
        <5>6. m.op # "clear" /\ i \notin Touches(m)
          BY <2>1, <5>1, <5>2, <5>5, Apart
        <5> QED
          BY <3>2, <5>6
      <4> QED
        BY <2>4, <3>1, <4>1
    <3>3. ASSUME NEW i \in Cover(m)
          PROVE  i \in Items /\ G[k - 1][i] = D[k - 1][i] /\ G[k][i] = D[k][i]
      <4>1. i \in Items
        BY <2>1, MutationFacts DEF Sound
      <4>2. m.op = "clear" \/ i \in Touches(m)
        BY <2>1, MutationFacts DEF Sound
      <4> QED
        BY <3>2, <4>1, <4>2
    <3>4. Drawn(G[k - 1], m) \in Views
      BY <2>1, DrawnFacts
    <3>5. ASSUME NEW i \in Items
          PROVE  G[k][i] = Drawn(G[k - 1], m)[i]
      <4>1. CASE i \in Cover(m)
        <5>1. m.op # "clear" => \A l \in Touches(m) : D[k - 1][l] = G[k - 1][l]
          <6>1. Touches(m) \subseteq Items
            BY <2>1, MutationFacts DEF Sound
          <6> QED
            BY <3>2, <6>1
        <5>2. Drawn(D[k - 1], m)[i] = Drawn(G[k - 1], m)[i]
          BY <2>1, <4>1, <5>1, DrawnFacts
        <5> QED
          BY <2>2, <3>3, <4>1, <5>2
      <4>2. CASE i \notin Cover(m)
        <5>1. Drawn(G[k - 1], m)[i] = G[k - 1][i]
          BY <2>1, <4>2, DrawnFacts
        <5>2. G[k][i] = G[k - 1][i]
          BY <2>3, <2>4, <3>1, <4>2
        <5> QED
          BY <5>1, <5>2
      <4> QED
        BY <4>1, <4>2
    <3>6. G[k] = Drawn(G[k - 1], m)
      BY <2>1, <3>4, <3>5, SameView
    <3>7. \A i \in Cover(m) : j[k].snap[i] = G[k - 1][i]
      BY <2>2, <3>3
    <3>8. Step(j[k], G[k - 1], G[k])
      BY <2>2, <3>6, <3>7 DEF Step, m
    <3> QED
      BY <2>5, <3>8
  <2>6. CASE k \notin K
    <3>1. ASSUME NEW i \in Items
          PROVE  G[k][i] = G[k - 1][i]
      <4>1. CASE i \in Cover(m)
        <5>1. k \in U(i)
          BY <1>5, <2>6, <4>1 DEF m
        <5>2. U(i) # {} /\ O(i) <= k
          BY <1>6, <5>1
        <5>3. CASE O(i) = k
          <6>1. O(i) - 1 = k - 1 /\ ~(O(i) <= k - 1)
            BY <5>3
          <6> QED
            BY <1>8, <2>1, <5>2, <6>1
        <5>4. CASE O(i) # k
          BY <2>4, <5>2, <5>4
        <5> QED
          BY <5>3, <5>4
      <4>2. CASE i \notin Cover(m)
        <5>1. U(i) # {} => O(i) # k
          BY <1>10, <4>2 DEF m
        <5> QED
          BY <2>3, <2>4, <4>2, <5>1
      <4> QED
        BY <4>1, <4>2
    <3>2. G[k] = G[k - 1]
      BY <2>1, <3>1, SameView
    <3> QED
      BY <2>6, <3>2
  <2> QED
    BY <2>5, <2>6
<1>15. Skips(G, n, j, K, b, Restored(v, j, ids))
  BY <1>11, <1>12, <1>13, <1>14 DEF Skips
<1>16. Stack(Part(j, K), b, Restored(v, j, ids))
  BY <1>1, <1>7, <1>15, StackPart
<1> QED
  BY <1>7, <1>16

-----------------------------------------------------------------------------
(* What is drawn and what is buffered *)

\* Own mutations are numbered downwards: the older one has the larger number.
Num(m) == m.id[2]

\* The buffer is in the order of writing, what was sent is older than what was not, and
\* what is held was not sent.
BufferOk(b) ==
    /\ \A k \in DOMAIN b : Sound(b[k].m) /\ (b[k].redraw => b[k].queued)
    /\ \A i, k \in DOMAIN b : i < k => Num(b[i].m) > Num(b[k].m)
    /\ \A i, k \in DOMAIN b : ~b[i].queued /\ b[k].queued => Num(b[i].m) > Num(b[k].m)
\* What is drawn is buffered, what is buffered is drawn or held.
Matching(j, b) ==
    /\ \A k \in DOMAIN j : \E i \in DOMAIN b : b[i].m = j[k].m
    /\ \A k \in DOMAIN b : b[k].redraw \/ \E i \in DOMAIN j : j[i].m.id = b[k].m.id
PageInv(p) ==
    /\ p.journal \in Journals /\ Distinct(p.journal)
    /\ p.view \in Views /\ p.crossed \in BOOLEAN
    /\ BufferOk(p.buffer) /\ Matching(p.journal, p.buffer)

\* What is held is not drawn, and drawings whose order matters are in the order of writing.
HeldApart(j, b) ==
    \A i \in DOMAIN j, k \in DOMAIN b : b[k].redraw => j[i].m.id # b[k].m.id
HeldOrder(j, b) ==
    \A i \in DOMAIN j, k \in DOMAIN b :
        b[k].redraw /\ Collide(j[i].m, b[k].m) => Num(j[i].m) > Num(b[k].m)
JournalOrder(j) ==
    \A i, k \in DOMAIN j : i < k /\ Collide(j[i].m, j[k].m) => Num(j[i].m) > Num(j[k].m)
\* A page that shows the board b and over it what is in the journal, unless it was crossed
Follows(p, b) ==
    /\ HeldApart(p.journal, p.buffer)
    /\ ~p.crossed => /\ JournalOrder(p.journal) /\ HeldOrder(p.journal, p.buffer)
                     /\ Stack(p.journal, b, p.view)

\* Entries that leave the journal
LEMMA JournalPart ==
    ASSUME NEW j \in Journals, NEW ids
    PROVE  /\ Without(j, ids) \in Journals
           /\ Distinct(j) => Distinct(Without(j, ids))
           /\ JournalOrder(j) => JournalOrder(Without(j, ids))
           /\ \A k \in DOMAIN Without(j, ids) :
                 \E i \in DOMAIN j : Without(j, ids)[k] = j[i] /\ j[i].m.id \notin ids
           /\ \A i \in DOMAIN j : j[i].m.id \notin ids =>
                 \E k \in DOMAIN Without(j, ids) : Without(j, ids)[k] = j[i]
<1> DEFINE K == {k \in DOMAIN j : j[k].m.id \notin ids}
           t == Part(j, K)
<1>1. Without(j, ids) = t
  BY DEF Without
<1>2. K \subseteq DOMAIN j /\ \A k \in DOMAIN j : k \in K <=> j[k].m.id \notin ids
  OBVIOUS
<1> HIDE DEF K
<1>3. j \in Seq(Entries) /\ \A k \in DOMAIN j : Sound(j[k].m)
  BY DEF Journals
<1>4. t \in Seq(Entries)
  BY <1>2, <1>3, PartFacts
<1>5. PICK o \in [DOMAIN t -> K] :
         /\ \A x, y \in DOMAIN t : o[x] = o[y] => x = y
         /\ \A x, y \in DOMAIN t : x < y => o[x] < o[y]
         /\ \A i \in K : \E k \in DOMAIN t : o[k] = i
         /\ \A k \in DOMAIN t : t[k] = j[o[k]]
  BY <1>2, <1>3, PartFacts
<1> HIDE DEF t
<1>6. \A k \in DOMAIN t : o[k] \in DOMAIN j /\ j[o[k]].m.id \notin ids /\ t[k] = j[o[k]]
  BY <1>2, <1>5
<1>7. t \in Journals
  BY <1>3, <1>4, <1>6 DEF Journals
<1>8. Distinct(j) => Distinct(t)
  BY <1>5, <1>6 DEF Distinct
<1>9. JournalOrder(j) => JournalOrder(t)
  BY <1>5, <1>6 DEF JournalOrder
<1>10. \A i \in DOMAIN j : j[i].m.id \notin ids => \E k \in DOMAIN t : t[k] = j[i]
  BY <1>2, <1>5
<1> QED
  BY <1>1, <1>6, <1>7, <1>8, <1>9, <1>10

\* Writes that leave the buffer
LEMMA BufferPart ==
    ASSUME NEW b \in Seq(Writes), BufferOk(b), NEW K, K \subseteq DOMAIN b
    PROVE  /\ BufferOk(Part(b, K))
           /\ \A k \in DOMAIN Part(b, K) : \E i \in K : Part(b, K)[k] = b[i]
           /\ \A i \in K : \E k \in DOMAIN Part(b, K) : Part(b, K)[k] = b[i]
<1> DEFINE t == Part(b, K)
<1>0. b \in Seq(Writes) /\ K \subseteq DOMAIN b
  OBVIOUS
<1>00. \E order \in [DOMAIN Part(b, K) -> K] :
                 /\ \A j, k \in DOMAIN Part(b, K) : order[j] = order[k] => j = k
                 /\ \A j, k \in DOMAIN Part(b, K) : j < k => order[j] < order[k]
                 /\ \A i \in K : \E k \in DOMAIN Part(b, K) : order[k] = i
                 /\ \A k \in DOMAIN Part(b, K) : Part(b, K)[k] = b[order[k]]
  BY <1>0, PartFacts
<1>1. PICK o \in [DOMAIN t -> K] :
         /\ \A x, y \in DOMAIN t : o[x] = o[y] => x = y
         /\ \A x, y \in DOMAIN t : x < y => o[x] < o[y]
         /\ \A i \in K : \E k \in DOMAIN t : o[k] = i
         /\ \A k \in DOMAIN t : t[k] = b[o[k]]
  BY <1>0, <1>00
<1> HIDE DEF t
<1>2. \A k \in DOMAIN t : o[k] \in K /\ o[k] \in DOMAIN b /\ t[k] = b[o[k]]
  BY <1>1
<1>3. BufferOk(t)
  BY <1>1, <1>2 DEF BufferOk
<1> QED
  BY <1>1, <1>2, <1>3 DEF t

\* What is restored is a drawing, also when it is not the one the board asks for.
LEMMA RestoredView ==
    ASSUME NEW v \in Views, NEW j \in Journals, NEW ids
    PROVE  Restored(v, j, ids) \in Views
<1>1. PICK n \in Nat : n = Len(j) /\ DOMAIN j = 1 .. n
                       /\ \A k \in 1 .. n : j[k] \in Entries /\ Sound(j[k].m)
  BY JournalFacts
<1> DEFINE U(i) == {k \in DOMAIN j : j[k].m.id \in ids /\ i \in DOMAIN j[k].snap}
           O(i) == CHOOSE k \in U(i) : \A l \in U(i) : k <= l
<1>2. Restored(v, j, ids) = [i \in Items |-> IF U(i) = {} THEN v[i] ELSE j[O(i)].snap[i]]
  BY DEF Restored
<1>3. ASSUME NEW i, U(i) # {}
      PROVE  O(i) \in U(i)
  <2>1. U(i) \in SUBSET (1 .. n)
    BY <1>1
  <2> HIDE DEF U
  <2>2. \E k \in U(i) : \A l \in U(i) : k <= l
    BY <1>3, <2>1, Earliest
  <2> QED
    BY <2>2
<1>4. ASSUME NEW k \in 1 .. n, NEW i \in DOMAIN j[k].snap
      PROVE  j[k].snap[i] \in Contents
  <2>1. j[k].snap \in Snaps
    BY <1>1 DEF Entries
  <2>2. PICK C \in SUBSET Items : j[k].snap \in [C -> Contents]
    BY <2>1 DEF Snaps
  <2> QED
    BY <2>2
<1>5. \A i, k : k \in U(i) => k \in 1 .. n /\ i \in DOMAIN j[k].snap
  BY <1>1
<1> HIDE DEF U, O
<1>6. \A i \in Items : v[i] \in Contents
  BY DEF Views
<1>7. \A i \in Items : (IF U(i) = {} THEN v[i] ELSE j[O(i)].snap[i]) \in Contents
  BY <1>3, <1>4, <1>5, <1>6
<1> QED
  BY <1>2, <1>7 DEF Views

-----------------------------------------------------------------------------
(* What the page drops *)

\* The rest of the page
Else(q, p) ==
    /\ q.seq = p.seq /\ q.awaiting = p.awaiting /\ q.paused = p.paused /\ q.inbox = p.inbox
    /\ q.waiting = p.waiting

\* applyRejectedEntries: an own mutation leaves the drawing, the journal and the buffer.
LEMMA UndoKeeps ==
    ASSUME NEW p, IsPage(p), PageInv(p), NEW ids
    PROVE  /\ IsPage(Undo(p, ids)) /\ PageInv(Undo(p, ids)) /\ Else(Undo(p, ids), p)
           /\ Sub(Undo(p, ids).buffer, p.buffer)
           /\ Undo(p, ids).journal = Without(p.journal, ids)
           /\ \A b : Follows(p, b) => Follows(Undo(p, ids), b)
<1> DEFINE j == Without(p.journal, ids)
           w == Without(p.buffer, ids)
           v == Restored(p.view, p.journal, ids)
           c == p.crossed \/ Uncovered(p.journal, ids)
           q == Undo(p, ids)
<1>1. q = [p EXCEPT !.journal = j, !.buffer = w, !.view = v, !.crossed = c]
  BY DEF Undo
<1>2. IsPage(q) /\ Sub(q.buffer, p.buffer)
  BY UndoFacts DEF Filtered
<1>3. /\ j \in Journals /\ Distinct(j)
      /\ JournalOrder(p.journal) => JournalOrder(j)
      /\ \A k \in DOMAIN j :
            \E i \in DOMAIN p.journal : j[k] = p.journal[i] /\ p.journal[i].m.id \notin ids
      /\ \A i \in DOMAIN p.journal : p.journal[i].m.id \notin ids =>
            \E k \in DOMAIN j : j[k] = p.journal[i]
  BY JournalPart DEF PageInv
<1>4. /\ BufferOk(w)
      /\ \A k \in DOMAIN w :
            \E i \in DOMAIN p.buffer : w[k] = p.buffer[i] /\ p.buffer[i].m.id \notin ids
      /\ \A i \in DOMAIN p.buffer : p.buffer[i].m.id \notin ids =>
            \E k \in DOMAIN w : w[k] = p.buffer[i]
  <2> DEFINE K == {k \in DOMAIN p.buffer : p.buffer[k].m.id \notin ids}
  <2>1. w = Part(p.buffer, K) /\ K \subseteq DOMAIN p.buffer
    BY DEF Without
  <2>2. \A k \in DOMAIN p.buffer : k \in K <=> p.buffer[k].m.id \notin ids
    OBVIOUS
  <2> HIDE DEF K, w
  <2>3. p.buffer \in Seq(Writes) /\ BufferOk(p.buffer)
    BY DEF IsPage, PageInv
  <2>4. /\ BufferOk(w)
        /\ \A k \in DOMAIN w : \E i \in K : w[k] = p.buffer[i]
        /\ \A i \in K : \E k \in DOMAIN w : w[k] = p.buffer[i]
    BY <2>1, <2>3, BufferPart
  <2> QED
    BY <2>1, <2>2, <2>4
<1>5. v \in Views
  BY RestoredView DEF PageInv
<1>6. c \in BOOLEAN /\ (~c => ~p.crossed /\ ~Uncovered(p.journal, ids))
  BY DEF PageInv
<1>7. ASSUME NEW b, Stack(p.journal, b, p.view), ~Uncovered(p.journal, ids)
      PROVE  Stack(j, b, v)
  BY <1>7, StackUndo DEF PageInv
<1> HIDE DEF j, w, v, c, q
<1>8. /\ q.journal = j /\ q.buffer = w /\ q.view = v /\ q.crossed = c /\ Else(q, p)
  BY <1>1 DEF IsPage, PageFields, Else
<1>9. Matching(j, w)
  <2>1. Matching(p.journal, p.buffer)
    BY DEF PageInv
  <2>2. \A k \in DOMAIN j : \E i \in DOMAIN w : w[i].m = j[k].m
    <3> SUFFICES ASSUME NEW k \in DOMAIN j
                 PROVE  \E i \in DOMAIN w : w[i].m = j[k].m
      OBVIOUS
    <3>1. PICK i \in DOMAIN p.journal : j[k] = p.journal[i] /\ p.journal[i].m.id \notin ids
      BY <1>3
    <3>2. PICK l \in DOMAIN p.buffer : p.buffer[l].m = p.journal[i].m
      BY <2>1 DEF Matching
    <3>3. PICK x \in DOMAIN w : w[x] = p.buffer[l]
      BY <1>4, <3>1, <3>2
    <3> QED
      BY <3>1, <3>2, <3>3
  <2>3. \A k \in DOMAIN w : w[k].redraw \/ \E i \in DOMAIN j : j[i].m.id = w[k].m.id
    <3> SUFFICES ASSUME NEW k \in DOMAIN w, ~w[k].redraw
                 PROVE  \E i \in DOMAIN j : j[i].m.id = w[k].m.id
      OBVIOUS
    <3>1. PICK l \in DOMAIN p.buffer : w[k] = p.buffer[l] /\ p.buffer[l].m.id \notin ids
      BY <1>4
    <3>2. PICK i \in DOMAIN p.journal : p.journal[i].m.id = p.buffer[l].m.id
      BY <2>1, <3>1 DEF Matching
    <3>3. PICK x \in DOMAIN j : j[x] = p.journal[i]
      BY <1>3, <3>1, <3>2
    <3> QED
      BY <3>1, <3>2, <3>3
  <2> QED
    BY <2>2, <2>3 DEF Matching
<1>10. PageInv(q)
  BY <1>3, <1>4, <1>5, <1>6, <1>8, <1>9 DEF PageInv
<1>11. ASSUME NEW b, Follows(p, b)
       PROVE  Follows(q, b)
  <2>1. HeldApart(j, w)
    BY <1>3, <1>4, <1>11 DEF Follows, HeldApart
  <2>2. HeldOrder(p.journal, p.buffer) => HeldOrder(j, w)
    BY <1>3, <1>4 DEF HeldOrder
  <2>3. ASSUME ~c
        PROVE  JournalOrder(j) /\ HeldOrder(j, w) /\ Stack(j, b, v)
    BY <1>3, <1>6, <1>7, <1>11, <2>2, <2>3 DEF Follows
  <2> QED
    BY <1>8, <2>1, <2>3 DEF Follows
<1> QED
  BY <1>2, <1>8, <1>10, <1>11 DEF q, j

\* What stays in the buffer
Keeping(p, K) == [p EXCEPT !.buffer = Part(p.buffer, K)]

\* Writes that are not drawn leave the buffer.
LEMMA DropKeeps ==
    ASSUME NEW p, IsPage(p), PageInv(p), NEW K, K \subseteq DOMAIN p.buffer,
           \A k \in DOMAIN p.buffer, i \in DOMAIN p.journal :
              k \notin K => p.journal[i].m # p.buffer[k].m
    PROVE  /\ IsPage(Keeping(p, K)) /\ PageInv(Keeping(p, K)) /\ Else(Keeping(p, K), p)
           /\ Sub(Keeping(p, K).buffer, p.buffer)
           /\ \A b : Follows(p, b) => Follows(Keeping(p, K), b)
<1> DEFINE w == Part(p.buffer, K)
           q == Keeping(p, K)
<1>0. K \subseteq DOMAIN p.buffer /\ q = [p EXCEPT !.buffer = w] /\ w = Part(p.buffer, K)
  BY DEF Keeping
<1> HIDE DEF q, w
<1>1. p.buffer \in Seq(Writes) /\ Distinct(p.buffer) /\ BufferOk(p.buffer)
  BY DEF IsPage, PageInv
<1>2. /\ BufferOk(w)
      /\ \A k \in DOMAIN w : \E i \in K : w[k] = p.buffer[i]
      /\ \A i \in K : \E k \in DOMAIN w : w[k] = p.buffer[i]
  BY <1>0, <1>1, BufferPart
<1>3. w \in Seq(Writes) /\ Distinct(w) /\ Sub(w, p.buffer)
  BY <1>0, <1>1, PartOfBuffer
<1>4. /\ q.buffer = w /\ q.journal = p.journal /\ q.view = p.view /\ q.crossed = p.crossed
      /\ Else(q, p)
  BY <1>0 DEF IsPage, PageFields, Else
<1>5. IsPage(q)
  BY <1>0, <1>3 DEF IsPage, PageFields
<1>6. Matching(p.journal, w)
  <2>1. Matching(p.journal, p.buffer)
    BY DEF PageInv
  <2>2. \A k \in DOMAIN p.journal : \E i \in DOMAIN w : w[i].m = p.journal[k].m
    <3> SUFFICES ASSUME NEW k \in DOMAIN p.journal
                 PROVE  \E i \in DOMAIN w : w[i].m = p.journal[k].m
      OBVIOUS
    <3>1. PICK l \in DOMAIN p.buffer : p.buffer[l].m = p.journal[k].m
      BY <2>1 DEF Matching
    <3>2. l \in K
      BY <3>1
    <3>3. PICK x \in DOMAIN w : w[x] = p.buffer[l]
      BY <1>2, <3>2
    <3> QED
      BY <3>1, <3>3
  <2>3. \A k \in DOMAIN w : \E i \in DOMAIN p.buffer : w[k] = p.buffer[i]
    BY <1>2
  <2>4. \A k \in DOMAIN w : w[k].redraw \/ \E i \in DOMAIN p.journal : p.journal[i].m.id = w[k].m.id
    BY <2>1, <2>3 DEF Matching
  <2> QED
    BY <2>2, <2>4 DEF Matching
<1>7. PageInv(q)
  BY <1>2, <1>4, <1>6 DEF PageInv
<1>8. ASSUME NEW b, Follows(p, b)
      PROVE  Follows(q, b)
  <2>1. \A k \in DOMAIN w : \E i \in DOMAIN p.buffer : w[k] = p.buffer[i]
    BY <1>2
  <2>2. HeldApart(p.journal, w)
    BY <1>8, <2>1 DEF Follows, HeldApart
  <2>3. HeldOrder(p.journal, p.buffer) => HeldOrder(p.journal, w)
    BY <2>1 DEF HeldOrder
  <2> QED
    BY <1>4, <1>8, <2>2, <2>3 DEF Follows
<1> QED
  BY <1>3, <1>4, <1>5, <1>7, <1>8 DEF q

\* The rest of the page, twice
LEMMA ElseTwice ==
    ASSUME NEW p, NEW q, NEW r, Else(q, p), Else(r, q)
    PROVE  Else(r, p)
  BY DEF Else

\* rejectMutation: the refused mutation leaves the drawing, the journal and the buffer,
\* and those that depend on it with it.
LEMMA RejectKeeps ==
    ASSUME NEW p, IsPage(p), PageInv(p), NEW id
    PROVE  /\ IsPage(Reject(p, id)) /\ PageInv(Reject(p, id)) /\ Else(Reject(p, id), p)
           /\ Sub(Reject(p, id).buffer, p.buffer)
           /\ Len(p.journal) = 0 => Len(Reject(p, id).journal) = 0
           /\ \A k \in DOMAIN Reject(p, id).buffer : Reject(p, id).buffer[k].m.id # id
           /\ \A b : Follows(p, b) => Follows(Reject(p, id), b)
<1> DEFINE ids == IF id \in Ids(p.journal) THEN Dependents(p.journal, {id}) ELSE {}
           u == Undo(p, ids)
           K == {k \in DOMAIN u.buffer : u.buffer[k].m.id \notin {id}}
           q == Reject(p, id)
<1>1. id \in Ids(p.journal) => id \in ids
  BY DEF Dependents
<1> HIDE DEF ids
<1>2. /\ IsPage(u) /\ PageInv(u) /\ Else(u, p) /\ Sub(u.buffer, p.buffer)
      /\ u.journal = Without(p.journal, ids)
      /\ \A b : Follows(p, b) => Follows(u, b)
  BY UndoKeeps
<1>3. q = Keeping(u, K) /\ K \subseteq DOMAIN u.buffer
  BY DEF Reject, Without, Keeping, ids
<1>4. \A k \in DOMAIN u.buffer : k \notin K => u.buffer[k].m.id = id
  OBVIOUS
<1>5. \A k \in K : u.buffer[k].m.id # id
  OBVIOUS
<1> HIDE DEF u, K, q
<1>6. \A i \in DOMAIN u.journal :
         \E k \in DOMAIN p.journal : u.journal[i] = p.journal[k] /\ p.journal[k].m.id \notin ids
  BY <1>2, JournalPart DEF PageInv
<1>7. \A i \in DOMAIN u.journal : u.journal[i].m.id # id
  BY <1>1, <1>6 DEF Ids
<1>8. \A k \in DOMAIN u.buffer, i \in DOMAIN u.journal :
         k \notin K => u.journal[i].m # u.buffer[k].m
  BY <1>4, <1>7
<1>9. /\ IsPage(q) /\ PageInv(q) /\ Else(q, u) /\ Sub(q.buffer, u.buffer)
      /\ \A b : Follows(u, b) => Follows(q, b)
  BY <1>2, <1>3, <1>8, DropKeeps
<1>10. Sub(q.buffer, p.buffer)
  BY <1>2, <1>9 DEF Sub
<1>11. q.buffer = Part(u.buffer, K) /\ q.journal = u.journal
  BY <1>2, <1>3 DEF IsPage, PageFields, Keeping
<1>12. \A k \in DOMAIN q.buffer : q.buffer[k].m.id # id
  <2>1. u.buffer \in Seq(Writes) /\ BufferOk(u.buffer)
    BY <1>2 DEF IsPage, PageInv
  <2>2. \A k \in DOMAIN Part(u.buffer, K) : \E i \in K : Part(u.buffer, K)[k] = u.buffer[i]
    BY <1>3, <2>1, BufferPart
  <2> QED
    BY <1>5, <1>11, <2>2
<1>13. Else(q, p)
  BY <1>2, <1>9, ElseTwice
<1>14. Len(p.journal) = 0 => Len(q.journal) = 0
  <2>1. p.journal \in Journals /\ u.journal \in Journals
    BY <1>2 DEF PageInv
  <2>2. PICK n \in Nat : n = Len(p.journal) /\ DOMAIN p.journal = 1 .. n
    BY <2>1, JournalFacts
  <2>3. PICK l \in Nat : l = Len(u.journal) /\ DOMAIN u.journal = 1 .. l
    BY <2>1, JournalFacts
  <2>4. n = 0 => l = 0
    <3>1. n = 0 => DOMAIN p.journal = {}
      BY <2>2
    <3>2. l # 0 => 1 \in DOMAIN u.journal
      BY <2>3
    <3> QED
      BY <1>6, <3>1, <3>2
  <2> QED
    BY <1>11, <2>2, <2>3, <2>4
<1> QED
  BY <1>2, <1>9, <1>10, <1>12, <1>13, <1>14 DEF q

\* pruneForAuthoritativeMessage and pruneBufferedWritesForInvalidatingMessage: what
\* another's mutation makes void leaves the drawing, the journal and the buffer.
Pruned(p, m) == [PruneJournal(p, m) EXCEPT !.buffer = PruneBuffer(@, <<m>>)]

\* The page stays in step with what it drew, and follows the board it followed.
LEMMA PruneKeeps ==
    ASSUME NEW p, IsPage(p), PageInv(p), NEW m \in Mutations, m.id[1] = "others"
    PROVE  /\ IsPage(Pruned(p, m)) /\ PageInv(Pruned(p, m)) /\ Else(Pruned(p, m), p)
           /\ Sub(Pruned(p, m).buffer, p.buffer)
           /\ \A b : Follows(p, b) => Follows(Pruned(p, m), b)
<1>0. PICK q : q = Pruned(p, m)
  OBVIOUS
<1> DEFINE hit == {k \in DOMAIN p.journal :
                     Touches(p.journal[k].m) \cap Invalidates(m) # {}}
           H == {p.journal[k].m.id : k \in hit}
           ids == IF m.op = "clear" THEN Ids(p.journal) ELSE Dependents(p.journal, H)
           u == Undo(p, ids)
           K == {k \in DOMAIN u.buffer : ~Voids(m, u.buffer[k].m)}
<1>1. PruneJournal(p, m) = u
  BY DEF PruneJournal
<1>2. \A k \in DOMAIN p.journal : p.journal[k].m.id \notin ids =>
         m.op # "clear" /\ Touches(p.journal[k].m) \cap Invalidates(m) = {}
  <2>1. \A k \in DOMAIN p.journal : p.journal[k].m.id \in Ids(p.journal)
    BY DEF Ids
  <2>2. H \subseteq Dependents(p.journal, H)
    BY DEF Dependents
  <2>3. \A k \in DOMAIN p.journal :
           Touches(p.journal[k].m) \cap Invalidates(m) # {} => p.journal[k].m.id \in H
    OBVIOUS
  <2> QED
    BY <2>1, <2>2, <2>3
<1> HIDE DEF ids
<1>3. /\ IsPage(u) /\ PageInv(u) /\ Else(u, p) /\ Sub(u.buffer, p.buffer)
      /\ u.journal = Without(p.journal, ids)
      /\ \A b : Follows(p, b) => Follows(u, b)
  BY UndoKeeps
<1>4. q = Keeping(u, K) /\ K \subseteq DOMAIN u.buffer
  <2>1. DOMAIN <<m>> = {1} /\ <<m>>[1] = m
    OBVIOUS
  <2>2. PruneBuffer(u.buffer, <<m>>) = Part(u.buffer, K)
    <3>1. {k \in DOMAIN u.buffer : ~\E n \in DOMAIN <<m>> : Voids(<<m>>[n], u.buffer[k].m)} = K
      BY <2>1
    <3> QED
      BY <3>1 DEF PruneBuffer
  <2>3. q = [u EXCEPT !.buffer = PruneBuffer(u.buffer, <<m>>)]
    BY <1>0, <1>1 DEF Pruned
  <2> QED
    BY <2>2, <2>3 DEF Keeping
<1>5. \A k \in DOMAIN u.buffer : k \notin K => Voids(m, u.buffer[k].m)
  OBVIOUS
<1> HIDE DEF u, K
<1>6. \A i \in DOMAIN u.journal :
         \E k \in DOMAIN p.journal : u.journal[i] = p.journal[k] /\ p.journal[k].m.id \notin ids
  BY <1>3, JournalPart DEF PageInv
<1>7. ASSUME NEW i \in DOMAIN u.journal
      PROVE  ~Voids(m, u.journal[i].m)
  <2>1. PICK k \in DOMAIN p.journal :
           u.journal[i] = p.journal[k] /\ p.journal[k].m.id \notin ids
    BY <1>6
  <2>2. p.journal[k] \in Entries
    BY JournalFacts DEF PageInv
  <2>3. p.journal[k].m.id[1] = "own"
    BY <2>2 DEF Entries, OwnMutations
  <2>4. p.journal[k].m.id # m.id
    BY <2>3
  <2> QED
    BY <1>2, <2>1, <2>4 DEF Voids
<1>8. \A k \in DOMAIN u.buffer, i \in DOMAIN u.journal :
         k \notin K => u.journal[i].m # u.buffer[k].m
  BY <1>5, <1>7
<1> DEFINE r == Keeping(u, K)
<1>12. /\ IsPage(r) /\ PageInv(r) /\ Else(r, u) /\ Sub(r.buffer, u.buffer)
      /\ \A b : Follows(u, b) => Follows(r, b)
  BY <1>3, <1>4, <1>8, DropKeeps
<1> HIDE DEF r
<1>9. /\ IsPage(q) /\ PageInv(q) /\ Else(q, u) /\ Sub(q.buffer, u.buffer)
      /\ \A b : Follows(u, b) => Follows(q, b)
  BY <1>4, <1>12 DEF r
<1>10. Sub(q.buffer, p.buffer)
  BY <1>3, <1>9 DEF Sub
<1>11. Else(q, p)
  BY <1>3, <1>9, ElseTwice
<1> QED
  BY <1>0, <1>3, <1>9, <1>10, <1>11

\* Another's mutation is drawn over what the page shows (the drawing of a message).
LEMMA ShowKeeps ==
    ASSUME NEW p, IsPage(p), PageInv(p), NEW m, Sound(m)
    PROVE  /\ IsPage(Show(p, m)) /\ PageInv(Show(p, m))
           /\ Show(p, m).seq = p.seq + 1 /\ Show(p, m).awaiting = p.awaiting
           /\ Show(p, m).paused = p.paused /\ Show(p, m).inbox = p.inbox
           /\ Show(p, m).waiting = p.waiting /\ Show(p, m).buffer = p.buffer
           /\ Show(p, m).journal = p.journal
           /\ \A b : Follows(p, b) => Follows(Show(p, m), Drawn(b, m))
<1> DEFINE q == Show(p, m)
           c == p.crossed \/ \E k \in DOMAIN p.journal : Collide(p.journal[k].m, m)
           v == Drawn(p.view, m)
<1>1. q = [p EXCEPT !.view = v, !.seq = p.seq + 1, !.crossed = c]
  BY DEF Show
<1>2. c \in BOOLEAN /\ (~c => ~p.crossed /\ \A k \in DOMAIN p.journal : ~Collide(p.journal[k].m, m))
  BY DEF PageInv
<1>3. v \in Views
  BY DrawnFacts DEF PageInv
<1>4. ASSUME NEW b, Stack(p.journal, b, p.view), ~c
      PROVE  Stack(p.journal, Drawn(b, m), v)
  BY <1>2, <1>4, StackUnder DEF PageInv
<1> HIDE DEF c, v, q
<1>5. /\ q.view = v /\ q.seq = p.seq + 1 /\ q.crossed = c /\ q.awaiting = p.awaiting
      /\ q.paused = p.paused /\ q.inbox = p.inbox /\ q.waiting = p.waiting
      /\ q.buffer = p.buffer /\ q.journal = p.journal
  BY <1>1 DEF IsPage, PageFields
<1>6. p.seq + 1 \in Nat
  BY DEF IsPage
<1>7. IsPage(q)
  BY <1>1, <1>5, <1>6 DEF IsPage, PageFields
<1>8. PageInv(q)
  BY <1>2, <1>3, <1>5 DEF PageInv
<1>9. \A b : Follows(p, b) => Follows(q, Drawn(b, m))
  BY <1>2, <1>4, <1>5 DEF Follows
<1> QED
  BY <1>5, <1>7, <1>8, <1>9 DEF q

\* An own mutation that the server accepted, the oldest that it had not answered yet,
\* leaves the journal and the buffer, and stays drawn.
LEMMA AcknowledgeKeeps ==
    ASSUME NEW p, IsPage(p), PageInv(p), NEW m,
           \A k \in DOMAIN p.buffer : p.buffer[k].m.id = m.id => p.buffer[k].m = m
    PROVE  /\ IsPage(Acknowledge(p, m)) /\ PageInv(Acknowledge(p, m))
           /\ Acknowledge(p, m).seq = p.seq + 1 /\ Acknowledge(p, m).awaiting = p.awaiting
           /\ Acknowledge(p, m).paused = p.paused /\ Acknowledge(p, m).inbox = p.inbox
           /\ Acknowledge(p, m).waiting = p.waiting
           /\ Sub(Acknowledge(p, m).buffer, p.buffer)
           /\ \A k \in DOMAIN Acknowledge(p, m).buffer :
                 Acknowledge(p, m).buffer[k].m.id # m.id
           /\ Len(p.journal) = 0 => Len(Acknowledge(p, m).journal) = 0
           /\ (\A k \in DOMAIN p.buffer : ~(Num(p.buffer[k].m) > Num(m))) =>
                 \A b : Follows(p, b) => Follows(Acknowledge(p, m), Drawn(b, m))
<1> DEFINE ids == {m.id}
           j == Without(p.journal, ids)
           w == Without(p.buffer, ids)
           c == p.crossed \/ m.id \notin Ids(p.journal)
           q == Acknowledge(p, m)
<1>6. \A i : i \in ids <=> i = m.id
  OBVIOUS
<1>1. q = [p EXCEPT !.journal = j, !.buffer = w, !.seq = p.seq + 1, !.crossed = c]
  BY DEF Acknowledge
<1>2. Filtered(q, p) /\ \A k \in DOMAIN q.buffer : q.buffer[k].m.id # m.id
  BY AcknowledgeFacts
<1> HIDE DEF ids
<1>3. /\ j \in Journals /\ Distinct(j)
      /\ JournalOrder(p.journal) => JournalOrder(j)
      /\ \A k \in DOMAIN j :
            \E i \in DOMAIN p.journal : j[k] = p.journal[i] /\ p.journal[i].m.id \notin ids
      /\ \A i \in DOMAIN p.journal : p.journal[i].m.id \notin ids =>
            \E k \in DOMAIN j : j[k] = p.journal[i]
  BY JournalPart DEF PageInv
<1>4. /\ BufferOk(w)
      /\ \A k \in DOMAIN w :
            \E i \in DOMAIN p.buffer : w[k] = p.buffer[i] /\ p.buffer[i].m.id \notin ids
      /\ \A i \in DOMAIN p.buffer : p.buffer[i].m.id \notin ids =>
            \E k \in DOMAIN w : w[k] = p.buffer[i]
  <2> DEFINE K == {k \in DOMAIN p.buffer : p.buffer[k].m.id \notin ids}
  <2>1. w = Part(p.buffer, K) /\ K \subseteq DOMAIN p.buffer
    BY DEF Without
  <2>2. \A k \in DOMAIN p.buffer : k \in K <=> p.buffer[k].m.id \notin ids
    OBVIOUS
  <2> HIDE DEF K, w
  <2>3. p.buffer \in Seq(Writes) /\ BufferOk(p.buffer)
    BY DEF IsPage, PageInv
  <2>4. /\ BufferOk(w)
        /\ \A k \in DOMAIN w : \E i \in K : w[k] = p.buffer[i]
        /\ \A i \in K : \E k \in DOMAIN w : w[k] = p.buffer[i]
    BY <2>1, <2>3, BufferPart
  <2> QED
    BY <2>1, <2>2, <2>4
<1>5. c \in BOOLEAN /\ (~c => ~p.crossed /\ m.id \in Ids(p.journal))
  BY DEF PageInv
<1> HIDE DEF j, w, c, q
<1>7. /\ q.journal = j /\ q.buffer = w /\ q.view = p.view /\ q.crossed = c
      /\ q.seq = p.seq + 1 /\ q.awaiting = p.awaiting /\ q.paused = p.paused
      /\ q.inbox = p.inbox /\ q.waiting = p.waiting
  BY <1>1 DEF IsPage, PageFields
<1>8. Matching(p.journal, p.buffer)
  BY DEF PageInv
<1>9. Matching(j, w)
  <2>2. \A k \in DOMAIN j : \E i \in DOMAIN w : w[i].m = j[k].m
    <3> SUFFICES ASSUME NEW k \in DOMAIN j
                 PROVE  \E i \in DOMAIN w : w[i].m = j[k].m
      OBVIOUS
    <3>1. PICK i \in DOMAIN p.journal : j[k] = p.journal[i] /\ p.journal[i].m.id \notin ids
      BY <1>3
    <3>2. PICK l \in DOMAIN p.buffer : p.buffer[l].m = p.journal[i].m
      BY <1>8 DEF Matching
    <3>3. PICK x \in DOMAIN w : w[x] = p.buffer[l]
      BY <1>4, <3>1, <3>2
    <3> QED
      BY <3>1, <3>2, <3>3
  <2>3. \A k \in DOMAIN w : w[k].redraw \/ \E i \in DOMAIN j : j[i].m.id = w[k].m.id
    <3> SUFFICES ASSUME NEW k \in DOMAIN w, ~w[k].redraw
                 PROVE  \E i \in DOMAIN j : j[i].m.id = w[k].m.id
      OBVIOUS
    <3>1. PICK l \in DOMAIN p.buffer : w[k] = p.buffer[l] /\ p.buffer[l].m.id \notin ids
      BY <1>4
    <3>2. PICK i \in DOMAIN p.journal : p.journal[i].m.id = p.buffer[l].m.id
      BY <1>8, <3>1 DEF Matching
    <3>3. PICK x \in DOMAIN j : j[x] = p.journal[i]
      BY <1>3, <3>1, <3>2
    <3> QED
      BY <3>1, <3>2, <3>3
  <2> QED
    BY <2>2, <2>3 DEF Matching
<1>10. PageInv(q)
  BY <1>3, <1>4, <1>5, <1>7, <1>9 DEF PageInv
<1>11. ASSUME \A k \in DOMAIN p.buffer : ~(Num(p.buffer[k].m) > Num(m)),
              NEW b, Follows(p, b)
       PROVE  Follows(q, Drawn(b, m))
  <2>1. HeldApart(j, w)
    BY <1>3, <1>4, <1>11 DEF Follows, HeldApart
  <2>2. HeldOrder(p.journal, p.buffer) => HeldOrder(j, w)
    BY <1>3, <1>4 DEF HeldOrder
  <2>3. ASSUME ~c
        PROVE  JournalOrder(j) /\ HeldOrder(j, w) /\ Stack(j, Drawn(b, m), p.view)
    <3>1. JournalOrder(p.journal) /\ HeldOrder(p.journal, p.buffer)
          /\ Stack(p.journal, b, p.view)
      BY <1>5, <1>11, <2>3 DEF Follows
    <3>2. PICK x \in DOMAIN p.journal : p.journal[x].m.id = m.id
      BY <1>5, <2>3 DEF Ids
    <3>3. p.journal[x].m = m
      <4>1. PICK i \in DOMAIN p.buffer : p.buffer[i].m = p.journal[x].m
        BY <1>8, <3>2 DEF Matching
      <4> QED
        BY <3>2, <4>1
    <3>4. \A k \in DOMAIN p.journal : k < x => ~Collide(p.journal[k].m, p.journal[x].m)
      <4> SUFFICES ASSUME NEW k \in DOMAIN p.journal, k < x,
                          Collide(p.journal[k].m, p.journal[x].m)
                   PROVE  FALSE
        OBVIOUS
      <4>1. Num(p.journal[k].m) > Num(m)
        BY <3>1, <3>2, <3>3 DEF JournalOrder
      <4>2. PICK i \in DOMAIN p.buffer : p.buffer[i].m = p.journal[k].m
        BY <1>8 DEF Matching
      <4> QED
        BY <1>11, <4>1, <4>2
    <3>5. p.journal \in Journals /\ Distinct(p.journal)
      BY DEF PageInv
    <3>6. Stack(Without(p.journal, {p.journal[x].m.id}), Drawn(b, p.journal[x].m), p.view)
      BY <3>1, <3>2, <3>4, <3>5, StackAck
    <3>7. Stack(j, Drawn(b, m), p.view)
      BY <3>3, <3>6 DEF j, ids
    <3> QED
      BY <1>3, <2>2, <3>1, <3>7
  <2> QED
    BY <1>7, <2>1, <2>3 DEF Follows
<1>12. Len(p.journal) = 0 => Len(j) = 0
  <2>1. PICK n \in Nat : n = Len(p.journal) /\ DOMAIN p.journal = 1 .. n
    BY JournalFacts DEF PageInv
  <2>2. PICK l \in Nat : l = Len(j) /\ DOMAIN j = 1 .. l
    BY <1>3, JournalFacts
  <2>3. n = 0 => DOMAIN p.journal = {}
    BY <2>1
  <2>4. l # 0 => 1 \in DOMAIN j
    BY <2>2
  <2> QED
    BY <1>3, <2>1, <2>2, <2>3, <2>4
<1>13. IsPage(q) /\ Sub(q.buffer, p.buffer)
  BY <1>2 DEF Filtered
<1> QED
  BY <1>2, <1>7, <1>10, <1>11, <1>12, <1>13 DEF q

-----------------------------------------------------------------------------
(* What the page draws *)

\* A journal entry keeps what its mutation replaces.
LEMMA EntryFacts ==
    ASSUME NEW m \in OwnMutations, Sound(m), NEW j \in Journals, NEW v \in Views
    PROVE  /\ Entry(m, j, v) \in Entries /\ Entry(m, j, v).m = m
           /\ DOMAIN Entry(m, j, v).snap = Cover(m)
           /\ \A i \in Cover(m) : Entry(m, j, v).snap[i] = v[i]
<1> DEFINE C == IF m.op = "clear" THEN Items ELSE Affected(m)
           snap == [i \in C |-> v[i]]
<1>1. PICK n \in Nat : n = Len(j) /\ DOMAIN j = 1 .. n
                       /\ \A k \in 1 .. n : j[k] \in Entries /\ Sound(j[k].m)
  BY JournalFacts
<1>2. PICK L \in SUBSET (1 .. n) :
         Entry(m, j, v) = [m |-> m, deps |-> {j[k].m.id : k \in L}, snap |-> snap]
  <2> DEFINE latest(i) == {k \in DOMAIN j :
                            /\ i \in Affected(j[k].m)
                            /\ \A x \in k + 1 .. Len(j) : i \notin Affected(j[x].m)}
             M == UNION {latest(i) : i \in Depends(m)}
  <2>1. M \in SUBSET (1 .. n)
    BY <1>1
  <2>2. Entry(m, j, v) = [m |-> m, deps |-> {j[k].m.id : k \in M}, snap |-> snap]
    BY DEF Entry
  <2> HIDE DEF M, snap
  <2> QED
    BY <2>1, <2>2
<1>3. C = Cover(m) /\ C \in SUBSET Items
  BY MutationFacts DEF Cover, Sound
<1> HIDE DEF C
<1>4. snap \in Snaps /\ DOMAIN snap = C /\ \A i \in C : snap[i] = v[i]
  <2>1. \A i \in C : v[i] \in Contents
    BY <1>3 DEF Views
  <2>2. snap \in [C -> Contents]
    BY <2>1
  <2> QED
    BY <1>3, <2>2 DEF Snaps
<1> HIDE DEF snap
<1> DEFINE deps == {j[k].m.id : k \in L}
<1>5. deps \in SUBSET MutationIds
  <2>1. \A k \in 1 .. n : j[k].m.id \in MutationIds
    BY <1>1, MutationFacts DEF Sound
  <2> QED
    BY <2>1
<1>6. Entry(m, j, v) = [m |-> m, deps |-> deps, snap |-> snap]
  BY <1>2
<1> HIDE DEF deps
<1>7. Entry(m, j, v) \in Entries
  BY <1>4, <1>5, <1>6 DEF Entries
<1> QED
  BY <1>3, <1>4, <1>6, <1>7

\* An entry is added to the journal, and replaces one of the same mutation.
LEMMA TrackFacts ==
    ASSUME NEW j \in Journals, Distinct(j), NEW e \in Entries, Sound(e.m)
    PROVE  /\ Track(j, e) \in Journals /\ Distinct(Track(j, e))
           /\ \A k \in DOMAIN Track(j, e) :
                 Track(j, e)[k] = e \/ \E i \in DOMAIN j : Track(j, e)[k] = j[i]
           /\ \E k \in DOMAIN Track(j, e) : Track(j, e)[k] = e
           /\ \A i \in DOMAIN j : \E k \in DOMAIN Track(j, e) :
                 Track(j, e)[k].m.id = j[i].m.id
           /\ (\A i \in DOMAIN j : j[i].m.id # e.m.id) =>
                 /\ Track(j, e) = Append(j, e)
                 /\ (JournalOrder(j) /\ \A i \in DOMAIN j : Collide(j[i].m, e.m) =>
                                            Num(j[i].m) > Num(e.m))
                       => JournalOrder(Track(j, e))
<1> DEFINE ids == {e.m.id}
           t == Without(j, ids)
           r == Append(t, e)
<1>1. Track(j, e) = r
  BY DEF Track
<1>2. \A x : x \in ids <=> x = e.m.id
  OBVIOUS
<1>3. (\A i \in DOMAIN j : j[i].m.id # e.m.id) => t = j
  <2> SUFFICES ASSUME \A i \in DOMAIN j : j[i].m.id # e.m.id
               PROVE  t = j
    OBVIOUS
  <2>1. {k \in DOMAIN j : j[k].m.id \notin ids} = DOMAIN j
    OBVIOUS
  <2>2. t = Part(j, DOMAIN j)
    BY <2>1 DEF Without
  <2>3. j \in Seq(Entries)
    BY DEF Journals
  <2> QED
    BY <2>2, <2>3, PartAll
<1> HIDE DEF ids
<1>4. /\ t \in Journals /\ Distinct(t)
      /\ JournalOrder(j) => JournalOrder(t)
      /\ \A k \in DOMAIN t : \E i \in DOMAIN j : t[k] = j[i] /\ j[i].m.id \notin ids
      /\ \A i \in DOMAIN j : j[i].m.id \notin ids => \E k \in DOMAIN t : t[k] = j[i]
  BY JournalPart
<1> HIDE DEF t
<1>5. t \in Seq(Entries) /\ \A k \in DOMAIN t : Sound(t[k].m)
  BY <1>4 DEF Journals
<1>6. /\ r \in Seq(Entries)
      /\ \A k \in DOMAIN t : k \in DOMAIN r /\ r[k] = t[k]
  BY <1>5, Appended
<1>7. PICK l \in DOMAIN r :
         /\ l \notin DOMAIN t /\ r[l] = e
         /\ \A k \in DOMAIN r : k <= l /\ (k \in DOMAIN t \/ k = l)
  BY <1>5, Appended
<1>8. PICK n \in Nat : DOMAIN r = 1 .. n
  BY <1>6, LenProperties
<1> HIDE DEF r
<1>9. r \in Journals
  BY <1>5, <1>6, <1>7 DEF Journals
<1>10. \A k \in DOMAIN t : t[k].m.id # e.m.id
  BY <1>2, <1>4
<1>11. Distinct(r)
  BY <1>4, <1>6, <1>7, <1>10 DEF Distinct
<1>12. \A k \in DOMAIN r : r[k] = e \/ \E i \in DOMAIN j : r[k] = j[i]
  BY <1>4, <1>6, <1>7
<1>13. \A i \in DOMAIN j : \E k \in DOMAIN r : r[k].m.id = j[i].m.id
  BY <1>2, <1>4, <1>6, <1>7
<1>14. ASSUME t = j, JournalOrder(j),
              \A i \in DOMAIN j : Collide(j[i].m, e.m) => Num(j[i].m) > Num(e.m)
       PROVE  JournalOrder(r)
  <2> SUFFICES ASSUME NEW i \in DOMAIN r, NEW k \in DOMAIN r, i < k,
                      Collide(r[i].m, r[k].m)
               PROVE  Num(r[i].m) > Num(r[k].m)
    BY DEF JournalOrder
  <2>1. i # l /\ i \in DOMAIN t
    BY <1>7, <1>8
  <2>2. CASE k = l
    BY <1>6, <1>7, <1>14, <2>1, <2>2
  <2>3. CASE k # l
    <3>1. k \in DOMAIN j /\ i \in DOMAIN j /\ r[k] = j[k] /\ r[i] = j[i]
      BY <1>6, <1>7, <1>14, <2>1, <2>3
    <3> QED
      BY <1>14, <3>1 DEF JournalOrder
  <2> QED
    BY <2>2, <2>3
<1> QED
  BY <1>1, <1>3, <1>7, <1>9, <1>11, <1>12, <1>13, <1>14 DEF r

\* A drawing and its journal
Drawings == [view : Views, journal : Journals]

\* redrawBufferedWriteIfNeeded
LEMMA RedrawnFacts ==
    ASSUME NEW d \in Drawings, Distinct(d.journal), NEW w \in Writes, Sound(w.m)
    PROVE  /\ Redrawn(d, w) \in Drawings /\ Distinct(Redrawn(d, w).journal)
           /\ \A k \in DOMAIN Redrawn(d, w).journal :
                 \/ \E i \in DOMAIN d.journal : Redrawn(d, w).journal[k].m = d.journal[i].m
                 \/ w.redraw /\ Redrawn(d, w).journal[k].m = w.m
           /\ \A i \in DOMAIN d.journal : \E k \in DOMAIN Redrawn(d, w).journal :
                 Redrawn(d, w).journal[k].m.id = d.journal[i].m.id
           /\ w.redraw => \E k \in DOMAIN Redrawn(d, w).journal :
                 Redrawn(d, w).journal[k].m.id = w.m.id
<1>1. d.view \in Views /\ d.journal \in Journals /\ w.m \in OwnMutations
  BY DEF Drawings, Writes
<1>2. CASE ~w.redraw
  <2>1. Redrawn(d, w) = d
    BY <1>2 DEF Redrawn
  <2> QED
    BY <1>2, <2>1
<1>3. CASE w.redraw
  <2> DEFINE e == Entry(w.m, d.journal, d.view)
             t == Track(d.journal, e)
             v == Drawn(d.view, w.m)
  <2>1. Redrawn(d, w) = [view |-> v, journal |-> t]
    BY <1>3 DEF Redrawn
  <2>2. e \in Entries /\ e.m = w.m
    BY <1>1, EntryFacts
  <2> HIDE DEF e
  <2>3. /\ t \in Journals /\ Distinct(t)
        /\ \A k \in DOMAIN t : t[k] = e \/ \E i \in DOMAIN d.journal : t[k] = d.journal[i]
        /\ \E k \in DOMAIN t : t[k] = e
        /\ \A i \in DOMAIN d.journal : \E k \in DOMAIN t : t[k].m.id = d.journal[i].m.id
    BY <1>1, <2>2, TrackFacts
  <2>4. v \in Views
    BY <1>1, DrawnFacts
  <2> HIDE DEF t, v
  <2>5. Redrawn(d, w) \in Drawings /\ Redrawn(d, w).journal = t
    BY <2>1, <2>3, <2>4 DEF Drawings
  <2>6. \A k \in DOMAIN t :
           (\E i \in DOMAIN d.journal : t[k].m = d.journal[i].m) \/ t[k].m = w.m
    BY <2>2, <2>3
  <2>7. \E k \in DOMAIN t : t[k].m.id = w.m.id
    BY <2>2, <2>3
  <2> QED
    BY <1>3, <2>3, <2>5, <2>6, <2>7
<1> QED
  BY <1>2, <1>3

\* What may have been drawn in between: T can be drawn after m as well, and leaves what m
\* covers alone, as m does with the items C.
Through(T, C, m) ==
    /\ \A u \in Views : Drawn(T[u], m) = T[Drawn(u, m)]
    /\ \A u \in Views, i \in Cover(m) : T[u][i] = u[i]
    /\ \A i \in C : i \notin Cover(m)

\* A drawing that is T of what the journal explains, from the board b, with the items C as
\* in v
Over(r, T, C, b, v) ==
    /\ JournalOrder(r.journal)
    /\ \E u \in Views : Stack(r.journal, b, u) /\ r.view = T[u] /\ \A i \in C : u[i] = v[i]
\* A held write that can be drawn over it
Clear(T, C, j, m) ==
    /\ Through(T, C, m)
    /\ \A i \in DOMAIN j :
          /\ j[i].m.id # m.id
          /\ Collide(j[i].m, m) => Num(j[i].m) > Num(m)

\* A held write that is drawn again becomes the last entry of the journal.
LEMMA RedrawnFollows ==
    ASSUME NEW d \in Drawings, Distinct(d.journal), NEW w \in Writes, Sound(w.m),
           NEW T \in [Views -> Views], NEW C \in SUBSET Items, NEW b, NEW x,
           Over(d, T, C, b, x), w.redraw => Clear(T, C, d.journal, w.m)
    PROVE  Over(Redrawn(d, w), T, C, b, x)
<1>0. PICK v \in Views :
         /\ Stack(d.journal, b, v) /\ d.view = T[v] /\ JournalOrder(d.journal)
         /\ \A i \in C : v[i] = x[i]
  BY DEF Over
<1>1. d.view \in Views /\ d.journal \in Journals /\ w.m \in OwnMutations
  BY DEF Drawings, Writes
<1>2. CASE ~w.redraw
  <2>1. Redrawn(d, w) = d
    BY <1>2 DEF Redrawn
  <2> QED
    BY <2>1
<1>3. CASE w.redraw
  <2> DEFINE e == Entry(w.m, d.journal, d.view)
             t == Track(d.journal, e)
             u == Drawn(v, w.m)
  <2>1. Redrawn(d, w).view = Drawn(d.view, w.m) /\ Redrawn(d, w).journal = t
    BY <1>3 DEF Redrawn
  <2>2. /\ e \in Entries /\ e.m = w.m /\ DOMAIN e.snap = Cover(w.m)
        /\ \A i \in Cover(w.m) : e.snap[i] = d.view[i]
    BY <1>1, EntryFacts
  <2> HIDE DEF e
  <2>3. \A i \in DOMAIN d.journal :
           /\ d.journal[i].m.id # e.m.id
           /\ Collide(d.journal[i].m, e.m) => Num(d.journal[i].m) > Num(e.m)
    <3>1. Clear(T, C, d.journal, w.m)
      BY <1>3
    <3>2. \A i \in DOMAIN d.journal :
             /\ d.journal[i].m.id # w.m.id
             /\ Collide(d.journal[i].m, w.m) => Num(d.journal[i].m) > Num(w.m)
      BY <3>1 DEF Clear
    <3> QED
      BY <2>2, <3>2
  <2>4. t = Append(d.journal, e) /\ JournalOrder(t)
    BY <1>0, <1>1, <2>2, <2>3, TrackFacts
  <2>5. u \in Views /\ \A i \in Items : i \notin Cover(w.m) => u[i] = v[i]
    BY DrawnFacts
  <2>6. Through(T, C, w.m)
    BY <1>3 DEF Clear
  <2>7. Step(e, v, u)
    <3>1. \A i \in Cover(w.m) : e.snap[i] = v[i]
      BY <1>0, <2>2, <2>6 DEF Through
    <3> QED
      BY <2>2, <3>1 DEF Step
  <2>8. Stack(Append(d.journal, e), b, u)
    BY <1>0, <1>1, <2>2, <2>7, StackPush
  <2>9. Drawn(d.view, w.m) = T[u]
    BY <1>0, <2>6 DEF Through
  <2>10. \A i \in C : u[i] = x[i]
    BY <1>0, <2>5, <2>6 DEF Through
  <2> HIDE DEF t, u
  <2> QED
    BY <2>1, <2>4, <2>5, <2>8, <2>9, <2>10 DEF Over
<1> QED
  BY <1>2, <1>3

\* The drawings while the writes ws are sent
RedrawnUpTo(d, ws) ==
    CHOOSE f : f = [k \in 0 .. Len(ws) |-> IF k = 0 THEN d ELSE Redrawn(f[k - 1], ws[k])]

OneByOne(F, d, ws, l) ==
    /\ F[0] = d
    /\ \A k \in 0 .. l : F[k] \in Drawings /\ Distinct(F[k].journal)
    /\ \A k \in 1 .. l : F[k] = Redrawn(F[k - 1], ws[k])

\* They are drawn one by one.
LEMMA RedrawnEach ==
    ASSUME NEW d \in Drawings, Distinct(d.journal), NEW ws \in Seq(Writes),
           \A k \in DOMAIN ws : Sound(ws[k].m)
    PROVE  OneByOne(RedrawnUpTo(d, ws), d, ws, Len(ws))
<1>0. PICK l \in Nat : l = Len(ws) /\ DOMAIN ws = 1 .. l
  BY LenProperties
<1> DEFINE S == {c \in Drawings : Distinct(c.journal)}
           step == [x \in (1 .. l) \X S |-> Redrawn(x[2], ws[x[1]])]
           F == RedrawnUpTo(d, ws)
<1>1. \A k \in 1 .. l : ws[k] \in Writes /\ Sound(ws[k].m)
  BY <1>0, ElementOfSeq
<1>2. step \in [(1 .. l) \X S -> S]
  <2> SUFFICES ASSUME NEW x \in (1 .. l) \X S
               PROVE  Redrawn(x[2], ws[x[1]]) \in S
    OBVIOUS
  <2>1. x[1] \in 1 .. l /\ x[2] \in Drawings /\ Distinct(x[2].journal)
    OBVIOUS
  <2> QED
    BY <1>1, <2>1, RedrawnFacts
<1>3. \A k \in 1 .. l, c \in S : step[<<k, c>>] = Redrawn(c, ws[k])
  OBVIOUS
<1>4. d \in S
  OBVIOUS
<1> HIDE DEF step, S
<1>5. PICK f \in [0 .. l -> S] : f[0] = d /\ \A k \in 1 .. l : f[k] = step[<<k, f[k - 1]>>]
  <2>1. l \in Nat
    OBVIOUS
  <2>2. \E f : Steps(f, l, S, d, step)
    BY <1>2, <1>4, <2>1, Stepwise
  <2> QED
    BY <2>2 DEF Steps
<1>6. \A k \in 1 .. l : f[k - 1] \in S
  <2>1. \A k \in 1 .. l : k - 1 \in 0 .. l
    OBVIOUS
  <2> QED
    BY <2>1
<1>7. \A k \in 1 .. l : f[k] = Redrawn(f[k - 1], ws[k])
  BY <1>3, <1>5, <1>6
<1>8. f = [k \in 0 .. l |-> IF k = 0 THEN d ELSE Redrawn(f[k - 1], ws[k])]
  <2>1. \A k \in 0 .. l : f[k] = IF k = 0 THEN d ELSE Redrawn(f[k - 1], ws[k])
    <3>1. \A k \in 0 .. l : k = 0 \/ k \in 1 .. l
      OBVIOUS
    <3> QED
      BY <1>5, <1>7, <3>1
  <2> QED
    BY <2>1
<1>9. F = [k \in 0 .. l |-> IF k = 0 THEN d ELSE Redrawn(F[k - 1], ws[k])]
  BY <1>0, <1>8 DEF RedrawnUpTo
<1> HIDE DEF F
<1>10. F[0] = d
  <2>1. 0 \in 0 .. l
    OBVIOUS
  <2> QED
    BY <1>9, <2>1
<1>11. \A k \in 1 .. l : F[k] = Redrawn(F[k - 1], ws[k])
  <2>1. \A k \in 1 .. l : k \in 0 .. l /\ k # 0
    OBVIOUS
  <2> QED
    BY <1>9, <2>1
<1>12. \A k \in 0 .. l : F[k] \in S
  <2> DEFINE G == {k \in 0 .. l : F[k] \in S}
  <2>1. 0 \in G
    BY <1>4, <1>10
  <2>2. \A k \in 0 .. l - 1 : k \in G => k + 1 \in G
    <3> SUFFICES ASSUME NEW k \in 0 .. l - 1, k \in G
                 PROVE  k + 1 \in G
      OBVIOUS
    <3>1. k + 1 \in 1 .. l /\ k + 1 - 1 = k /\ k + 1 \in 0 .. l
      OBVIOUS
    <3>2. F[k + 1] = Redrawn(F[k], ws[k + 1])
      BY <1>11, <3>1
    <3>3. F[k] \in Drawings /\ Distinct(F[k].journal)
      BY DEF S
    <3> DEFINE w == ws[k + 1]
               e == F[k]
    <3>5. e \in Drawings /\ Distinct(e.journal) /\ w \in Writes /\ Sound(w.m)
      BY <1>1, <3>1, <3>3
    <3> HIDE DEF w, e
    <3>6. Redrawn(e, w) \in Drawings /\ Distinct(Redrawn(e, w).journal)
      BY <3>5, RedrawnFacts
    <3>4. F[k + 1] \in S
      BY <3>2, <3>6 DEF S, e, w
    <3> QED
      BY <3>1, <3>4
  <2> HIDE DEF G
  <2>3. \A k \in 0 .. l : k \in G
    BY <2>1, <2>2, UpTo
  <2> QED
    BY <2>3 DEF G
<1> QED
  BY <1>0, <1>10, <1>11, <1>12 DEF F, S, OneByOne

\* After c of the writes ws: the journal has what it had, and the writes that were held.
Gathers(r, d, ws, c) ==
    /\ \A k \in DOMAIN r.journal :
          \/ \E i \in DOMAIN d.journal : r.journal[k].m = d.journal[i].m
          \/ \E i \in 1 .. c : ws[i].redraw /\ r.journal[k].m = ws[i].m
    /\ \A i \in DOMAIN d.journal : \E k \in DOMAIN r.journal :
          r.journal[k].m.id = d.journal[i].m.id
    /\ \A i \in 1 .. c : ws[i].redraw => \E k \in DOMAIN r.journal :
          r.journal[k].m.id = ws[i].m.id

\* redrawBufferedWriteIfNeeded of each of the writes: what the journal holds after the first
\* c is what it held before and those of them that were held back.
LEMMA RedrawnAll ==
    ASSUME NEW d \in Drawings, Distinct(d.journal), NEW ws \in Seq(Writes),
           \A k \in DOMAIN ws : Sound(ws[k].m)
    PROVE  \A c \in 0 .. Len(ws) : Gathers(RedrawnUpTo(d, ws)[c], d, ws, c)
<1>0. PICK l \in Nat : l = Len(ws) /\ DOMAIN ws = 1 .. l
  BY LenProperties
<1> DEFINE F == RedrawnUpTo(d, ws)
           A(x) == \A k \in DOMAIN F[x].journal :
                      \/ \E i \in DOMAIN d.journal : F[x].journal[k].m = d.journal[i].m
                      \/ \E i \in 1 .. x : ws[i].redraw /\ F[x].journal[k].m = ws[i].m
           B(x) == \A i \in DOMAIN d.journal : \E k \in DOMAIN F[x].journal :
                      F[x].journal[k].m.id = d.journal[i].m.id
           C(x) == \A i \in 1 .. x : ws[i].redraw => \E k \in DOMAIN F[x].journal :
                      F[x].journal[k].m.id = ws[i].m.id
           G == {x \in 0 .. l : A(x) /\ B(x) /\ C(x)}
<1>1. \A k \in 1 .. l : ws[k] \in Writes /\ Sound(ws[k].m)
  BY <1>0, ElementOfSeq
<1>2. /\ F[0] = d
      /\ \A k \in 0 .. l : F[k] \in Drawings /\ Distinct(F[k].journal)
      /\ \A k \in 1 .. l : F[k] = Redrawn(F[k - 1], ws[k])
  <2>1. OneByOne(F, d, ws, l)
    BY <1>0, RedrawnEach
  <2> QED
    BY <2>1 DEF OneByOne
<1> HIDE DEF F
<1>3. 0 \in G
  <2>1. \A i \in 1 .. 0 : FALSE
    OBVIOUS
  <2>2. A(0) /\ B(0)
    BY <1>2
  <2>3. C(0)
    BY <2>1
  <2> QED
    BY <2>2, <2>3
<1>4. \A x \in 0 .. l - 1 : x \in G => x + 1 \in G
  <2> SUFFICES ASSUME NEW x \in 0 .. l - 1, A(x), B(x), C(x)
               PROVE  x + 1 \in G
    OBVIOUS
  <2>1. /\ x + 1 \in 1 .. l /\ x + 1 - 1 = x /\ x + 1 \in 0 .. l /\ x \in 0 .. l
        /\ \A i \in 1 .. x + 1 : i \in 1 .. x \/ i = x + 1
        /\ \A i \in 1 .. x : i \in 1 .. x + 1
        /\ x + 1 \in 1 .. x + 1
    OBVIOUS
  <2> DEFINE e == F[x]
             w == ws[x + 1]
             f == F[x + 1]
  <2>2. f = Redrawn(e, w) /\ w \in Writes /\ Sound(w.m) /\ e \in Drawings
        /\ Distinct(e.journal)
    BY <1>1, <1>2, <2>1
  <2>3. /\ \A k \in DOMAIN f.journal :
              \/ \E i \in DOMAIN e.journal : f.journal[k].m = e.journal[i].m
              \/ w.redraw /\ f.journal[k].m = w.m
        /\ \A i \in DOMAIN e.journal : \E k \in DOMAIN f.journal :
              f.journal[k].m.id = e.journal[i].m.id
        /\ w.redraw => \E k \in DOMAIN f.journal : f.journal[k].m.id = w.m.id
    <3> HIDE DEF e, w, f
    <3>1. /\ \A k \in DOMAIN Redrawn(e, w).journal :
                \/ \E i \in DOMAIN e.journal : Redrawn(e, w).journal[k].m = e.journal[i].m
                \/ w.redraw /\ Redrawn(e, w).journal[k].m = w.m
          /\ \A i \in DOMAIN e.journal : \E k \in DOMAIN Redrawn(e, w).journal :
                Redrawn(e, w).journal[k].m.id = e.journal[i].m.id
          /\ w.redraw => \E k \in DOMAIN Redrawn(e, w).journal :
                Redrawn(e, w).journal[k].m.id = w.m.id
      BY <2>2, RedrawnFacts
    <3> QED
      BY <2>2, <3>1
  <2>4. A(x + 1)
    <3> SUFFICES ASSUME NEW k \in DOMAIN f.journal
                 PROVE  \/ \E i \in DOMAIN d.journal : f.journal[k].m = d.journal[i].m
                        \/ \E i \in 1 .. x + 1 : ws[i].redraw /\ f.journal[k].m = ws[i].m
      OBVIOUS
    <3>1. CASE \E i \in DOMAIN e.journal : f.journal[k].m = e.journal[i].m
      <4>1. PICK i \in DOMAIN e.journal : f.journal[k].m = e.journal[i].m
        BY <3>1
      <4> QED
        BY <2>1, <4>1
    <3>2. CASE w.redraw /\ f.journal[k].m = w.m
      BY <2>1, <3>2
    <3> QED
      BY <2>3, <3>1, <3>2
  <2>5. B(x + 1)
    <3> SUFFICES ASSUME NEW i \in DOMAIN d.journal
                 PROVE  \E k \in DOMAIN f.journal : f.journal[k].m.id = d.journal[i].m.id
      OBVIOUS
    <3>1. PICK k \in DOMAIN e.journal : e.journal[k].m.id = d.journal[i].m.id
      OBVIOUS
    <3> QED
      BY <2>3, <3>1
  <2>6. C(x + 1)
    <3> SUFFICES ASSUME NEW i \in 1 .. x + 1, ws[i].redraw
                 PROVE  \E k \in DOMAIN f.journal : f.journal[k].m.id = ws[i].m.id
      OBVIOUS
    <3>1. CASE i \in 1 .. x
      <4>1. PICK k \in DOMAIN e.journal : e.journal[k].m.id = ws[i].m.id
        BY <3>1
      <4> QED
        BY <2>3, <4>1
    <3>2. CASE i = x + 1
      BY <2>3, <3>2
    <3> QED
      BY <2>1, <3>1, <3>2
  <2> QED
    BY <2>1, <2>4, <2>5, <2>6
<1> HIDE DEF G
<1>5. \A x \in 0 .. l : x \in G
  BY <1>3, <1>4, UpTo
<1>6. \A c \in 0 .. l : A(c) /\ B(c) /\ C(c)
  BY <1>5 DEF G
<1>7. \A c \in 0 .. l : Gathers(F[c], d, ws, c)
  BY <1>6 DEF Gathers
<1> QED
  BY <1>0, <1>7 DEF F

\* Held writes that can be drawn over it, the older ones first
Clears(T, C, d, ws) ==
    \A x \in DOMAIN ws : ws[x].redraw => Clear(T, C, d.journal, ws[x].m)
Descends(ws) == \A x, y \in DOMAIN ws : x < y => Num(ws[x].m) > Num(ws[y].m)

\* The journal explains the drawing also when the held writes are drawn again.
LEMMA RedrawnOver ==
    ASSUME NEW d \in Drawings, Distinct(d.journal), NEW ws \in Seq(Writes),
           \A k \in DOMAIN ws : Sound(ws[k].m), Descends(ws),
           NEW T \in [Views -> Views], NEW C \in SUBSET Items, NEW b, NEW v,
           Over(d, T, C, b, v), Clears(T, C, d, ws)
    PROVE  \A c \in 0 .. Len(ws) : Over(RedrawnUpTo(d, ws)[c], T, C, b, v)
<1>0. PICK l \in Nat : l = Len(ws) /\ DOMAIN ws = 1 .. l
  BY LenProperties
<1> DEFINE F == RedrawnUpTo(d, ws)
           G == {x \in 0 .. l : Over(F[x], T, C, b, v)}
<1>1. \A k \in 1 .. l : ws[k] \in Writes /\ Sound(ws[k].m)
  BY <1>0, ElementOfSeq
<1>2. /\ F[0] = d
      /\ \A k \in 0 .. l : F[k] \in Drawings /\ Distinct(F[k].journal)
      /\ \A k \in 1 .. l : F[k] = Redrawn(F[k - 1], ws[k])
  <2>1. OneByOne(F, d, ws, l)
    BY <1>0, RedrawnEach
  <2> QED
    BY <2>1 DEF OneByOne
<1>3. \A c \in 0 .. l : Gathers(F[c], d, ws, c)
  BY <1>0, RedrawnAll
<1> HIDE DEF F
<1>4. 0 \in G
  BY <1>2
<1>5. \A x \in 0 .. l - 1 : x \in G => x + 1 \in G
  <2> SUFFICES ASSUME NEW x \in 0 .. l - 1, Over(F[x], T, C, b, v)
               PROVE  Over(F[x + 1], T, C, b, v)
    OBVIOUS
  <2>1. x + 1 \in 1 .. l /\ x + 1 - 1 = x /\ x \in 0 .. l
        /\ \A i \in 1 .. x : i \in 1 .. l /\ i < x + 1
    OBVIOUS
  <2> DEFINE e == F[x]
             w == ws[x + 1]
  <2>2. F[x + 1] = Redrawn(e, w) /\ w \in Writes /\ Sound(w.m) /\ e \in Drawings
        /\ Distinct(e.journal) /\ Gathers(e, d, ws, x)
    BY <1>1, <1>2, <1>3, <2>1
  <2>5. ASSUME w.redraw
        PROVE  Clear(T, C, e.journal, w.m)
    <3>1. Through(T, C, w.m)
      BY <1>0, <2>1, <2>5 DEF Clears, Clear
    <3>2. ASSUME NEW i \in DOMAIN e.journal
          PROVE  /\ e.journal[i].m.id # w.m.id
                 /\ Collide(e.journal[i].m, w.m) => Num(e.journal[i].m) > Num(w.m)
      <4>1. CASE \E k \in DOMAIN d.journal : e.journal[i].m = d.journal[k].m
        <5>1. PICK k \in DOMAIN d.journal : e.journal[i].m = d.journal[k].m
          BY <4>1
        <5>2. Clear(T, C, d.journal, w.m)
          BY <1>0, <2>1, <2>5 DEF Clears
        <5>3. /\ d.journal[k].m.id # w.m.id
              /\ Collide(d.journal[k].m, w.m) => Num(d.journal[k].m) > Num(w.m)
          BY <5>2 DEF Clear
        <5> QED
          BY <5>1, <5>3
      <4>2. CASE \E k \in 1 .. x : ws[k].redraw /\ e.journal[i].m = ws[k].m
        <5>1. PICK k \in 1 .. x : e.journal[i].m = ws[k].m
          BY <4>2
        <5>2. k \in 1 .. l /\ k < x + 1
          BY <2>1
        <5>3. Num(ws[k].m) > Num(w.m)
          BY <1>0, <2>1, <5>2 DEF Descends
        <5>4. Num(w.m) \in Nat
          BY <2>2, MutationFacts DEF Sound, Num
        <5>5. ws[k].m.id # w.m.id
          <6> SUFFICES ASSUME ws[k].m.id = w.m.id PROVE FALSE
            OBVIOUS
          <6>1. Num(ws[k].m) = Num(w.m)
            BY DEF Num
          <6> QED
            BY <5>3, <5>4, <6>1
        <5> QED
          BY <5>1, <5>3, <5>5
      <4> QED
        BY <2>2, <4>1, <4>2 DEF Gathers
    <3> QED
      BY <3>1, <3>2 DEF Clear
  <2> HIDE DEF e, w
  <2>6. Over(e, T, C, b, v)
    BY DEF e
  <2>7. Over(Redrawn(e, w), T, C, b, v)
    BY <2>2, <2>5, <2>6, RedrawnFollows
  <2> QED
    BY <2>2, <2>7
<1> HIDE DEF G
<1>6. \A x \in 0 .. l : x \in G
  BY <1>4, <1>5, UpTo
<1> QED
  BY <1>0, <1>6 DEF F, G

\* The writes that are sent, and the drawing after that
Emitted(p, n) == First(Queued(p.buffer), n)
Emits(p, n) == Part(p.buffer, Emitted(p, n))
Before(p) == [view |-> p.view, journal |-> p.journal]
After(p, n) == RedrawnUpTo(Before(p), Emits(p, n))[Len(Emits(p, n))]
\* A page whose drawing can be sent from
CanDraw(p) ==
    /\ IsPage(p) /\ p.journal \in Journals /\ Distinct(p.journal) /\ p.view \in Views
    /\ BufferOk(p.buffer)

\* The writes that pumpBufferedWrites emits are writes of the buffer, in their order.
LEMMA EmitsFacts ==
    ASSUME NEW p, CanDraw(p), NEW n
    PROVE  /\ Emits(p, n) \in Seq(Writes) /\ BufferOk(Emits(p, n)) /\ Descends(Emits(p, n))
           /\ \A k \in DOMAIN Emits(p, n) : Sound(Emits(p, n)[k].m)
           /\ \A k \in DOMAIN Emits(p, n) : \E i \in Emitted(p, n) :
                 i \in DOMAIN p.buffer /\ Emits(p, n)[k] = p.buffer[i]
           /\ \A i \in Emitted(p, n) : \E k \in DOMAIN Emits(p, n) :
                 Emits(p, n)[k] = p.buffer[i]
           /\ Before(p) \in Drawings /\ Distinct(Before(p).journal)
<1>1. p.buffer \in Seq(Writes) /\ BufferOk(p.buffer)
  BY DEF CanDraw, IsPage
<1> DEFINE K == Emitted(p, n)
           ws == Emits(p, n)
<1>2. K \subseteq DOMAIN p.buffer
  BY DEF Emitted, First, Queued
<1>3. ws = Part(p.buffer, K)
  BY DEF Emits
<1> HIDE DEF K, ws
<1>4. /\ BufferOk(ws)
      /\ \A k \in DOMAIN ws : \E i \in K : ws[k] = p.buffer[i]
      /\ \A i \in K : \E k \in DOMAIN ws : ws[k] = p.buffer[i]
  BY <1>1, <1>2, <1>3, BufferPart
<1>5. ws \in Seq(Writes)
  BY <1>1, <1>2, <1>3, PartOfBuffer DEF CanDraw, IsPage
<1>6. Descends(ws)
  BY <1>4 DEF BufferOk, Descends
<1>7. \A k \in DOMAIN ws : Sound(ws[k].m)
  BY <1>4 DEF BufferOk
<1>8. Before(p) \in Drawings /\ Distinct(Before(p).journal)
  <2>1. Before(p).journal = p.journal
    BY DEF Before
  <2>2. Before(p) \in Drawings
    BY DEF CanDraw, Before, Drawings
  <2> QED
    BY <2>1, <2>2 DEF CanDraw
<1>9. \A k \in DOMAIN ws : \E i \in K : i \in DOMAIN p.buffer /\ ws[k] = p.buffer[i]
  BY <1>2, <1>4
<1> QED
  BY <1>4, <1>5, <1>6, <1>7, <1>8, <1>9 DEF K, ws

\* What pumpBufferedWrites makes of the page
LEMMA PumpedIs ==
    ASSUME NEW p, IsPage(p), NEW n
    PROVE  /\ Pumped(p, n).view = After(p, n).view
           /\ Pumped(p, n).journal = After(p, n).journal
           /\ Pumped(p, n).crossed = p.crossed /\ Else(Pumped(p, n), p)
           /\ DOMAIN Pumped(p, n).buffer = DOMAIN p.buffer
           /\ \A k \in DOMAIN p.buffer :
                 /\ Pumped(p, n).buffer[k].m = p.buffer[k].m
                 /\ k \in Emitted(p, n) => /\ ~Pumped(p, n).buffer[k].queued
                                           /\ ~Pumped(p, n).buffer[k].redraw
                 /\ k \notin Emitted(p, n) => Pumped(p, n).buffer[k] = p.buffer[k]
<1> DEFINE next == Emitted(p, n)
           b == [k \in DOMAIN p.buffer |->
                   IF k \in next
                   THEN [m |-> p.buffer[k].m, queued |-> FALSE, redraw |-> FALSE]
                   ELSE p.buffer[k]]
           a == After(p, n)
<1>1. Pumped(p, n) = [p EXCEPT !.view = a.view, !.journal = a.journal, !.buffer = b]
  BY DEF Pumped, After, Before, Emits, Emitted, RedrawnUpTo
<1>2. DOMAIN b = DOMAIN p.buffer
      /\ \A k \in DOMAIN p.buffer :
            /\ b[k].m = p.buffer[k].m
            /\ k \in next => ~b[k].queued /\ ~b[k].redraw
            /\ k \notin next => b[k] = p.buffer[k]
  <2> HIDE DEF next
  <2> QED
    OBVIOUS
<1> HIDE DEF b, a, next
<1>3. /\ Pumped(p, n).view = a.view /\ Pumped(p, n).journal = a.journal
      /\ Pumped(p, n).buffer = b /\ Pumped(p, n).crossed = p.crossed
      /\ Else(Pumped(p, n), p)
  BY <1>1 DEF IsPage, PageFields, Else
<1> QED
  BY <1>2, <1>3 DEF a, next

\* The writes that are sent are the older ones of those that were not.
LEMMA EmittedFirst ==
    ASSUME NEW p, IsPage(p), NEW n \in Nat, NEW i \in Emitted(p, n),
           NEW k \in Queued(p.buffer), k \notin Emitted(p, n)
    PROVE  i < k
<1>1. PICK l \in Nat : DOMAIN p.buffer = 1 .. l
  <2>1. p.buffer \in Seq(Writes)
    BY DEF IsPage
  <2> QED
    BY <2>1, LenProperties
<1> DEFINE Q == Queued(p.buffer)
<1>2. Q \in SUBSET (1 .. l) /\ i \in Q /\ k \in Q
  BY <1>1 DEF Queued, Emitted, First
<1>3. Rank(Q, i) < n /\ ~(Rank(Q, k) < n)
  BY DEF Emitted, First
<1> HIDE DEF Q
<1>4. \A x, y \in Q : x < y => Rank(Q, x) < Rank(Q, y)
  BY <1>1, <1>2, Ranks
<1>5. PICK c \in Nat : c = Cardinality(Q)
  BY <1>1, <1>2, Ranks
<1>6. Rank(Q, i) \in 0 .. c - 1 /\ Rank(Q, k) \in 0 .. c - 1
  BY <1>1, <1>2, <1>5, Ranks
<1>7. i \in Nat /\ k \in Nat
  BY <1>2
<1>8. ~(k < i) /\ k # i
  BY <1>2, <1>3, <1>4, <1>6
<1> QED
  BY <1>7, <1>8

\* What is in the journal when writes are sent: what was, and those that were held
Grown(q, p, n) ==
    /\ \A k \in DOMAIN q.journal :
          \/ \E i \in DOMAIN p.journal : q.journal[k].m = p.journal[i].m
          \/ \E i \in DOMAIN p.buffer : /\ i \in Emitted(p, n) /\ p.buffer[i].redraw
                                        /\ q.journal[k].m = p.buffer[i].m
    /\ \A i \in DOMAIN p.journal : \E k \in DOMAIN q.journal :
          q.journal[k].m.id = p.journal[i].m.id
    /\ \A i \in Emitted(p, n) : p.buffer[i].redraw => \E k \in DOMAIN q.journal :
          q.journal[k].m.id = p.buffer[i].m.id

\* Sending keeps the drawing, the journal and the buffer in order.
LEMMA PumpGrows ==
    ASSUME NEW p, CanDraw(p), NEW n \in Nat
    PROVE  CanDraw(Pumped(p, n)) /\ Grown(Pumped(p, n), p, n)
<1> DEFINE q == Pumped(p, n)
           ws == Emits(p, n)
           d == Before(p)
           a == After(p, n)
           K == Emitted(p, n)
<1>1. /\ ws \in Seq(Writes) /\ BufferOk(ws) /\ Descends(ws)
      /\ \A k \in DOMAIN ws : Sound(ws[k].m)
      /\ \A k \in DOMAIN ws : \E i \in K : i \in DOMAIN p.buffer /\ ws[k] = p.buffer[i]
      /\ \A i \in K : \E k \in DOMAIN ws : ws[k] = p.buffer[i]
      /\ d \in Drawings /\ Distinct(d.journal)
  BY EmitsFacts
<1>2. d.journal = p.journal /\ d.view = p.view
  BY DEF Before
<1>3. IsPage(p) /\ IsPage(q) /\ BufferOk(p.buffer)
  BY PumpedFacts DEF CanDraw
<1>4. /\ q.view = a.view /\ q.journal = a.journal
      /\ DOMAIN q.buffer = DOMAIN p.buffer
      /\ \A k \in DOMAIN p.buffer :
            /\ q.buffer[k].m = p.buffer[k].m
            /\ k \in K => ~q.buffer[k].queued /\ ~q.buffer[k].redraw
            /\ k \notin K => q.buffer[k] = p.buffer[k]
  BY <1>3, PumpedIs
<1>5. PICK l \in Nat : l = Len(ws) /\ DOMAIN ws = 1 .. l
  BY <1>1, LenProperties
<1>6. a = RedrawnUpTo(d, ws)[l] /\ l \in 0 .. l
  BY <1>5 DEF After
<1> HIDE DEF q, ws, d, a
<1>7. a \in Drawings /\ Distinct(a.journal)
  <2>1. OneByOne(RedrawnUpTo(d, ws), d, ws, l)
    BY <1>1, <1>5, RedrawnEach
  <2> QED
    BY <1>6, <2>1 DEF OneByOne
<1>8. Gathers(a, d, ws, l)
  BY <1>1, <1>5, <1>6, RedrawnAll
<1>9. q.view \in Views /\ q.journal \in Journals /\ Distinct(q.journal)
  BY <1>4, <1>7 DEF Drawings
<1>10. BufferOk(q.buffer)
  <2>1. \A k \in DOMAIN q.buffer :
           Sound(q.buffer[k].m) /\ (q.buffer[k].redraw => q.buffer[k].queued)
    BY <1>3, <1>4 DEF BufferOk
  <2>2. \A i, k \in DOMAIN q.buffer : i < k => Num(q.buffer[i].m) > Num(q.buffer[k].m)
    BY <1>3, <1>4 DEF BufferOk
  <2>3. ASSUME NEW i \in DOMAIN p.buffer, NEW k \in DOMAIN p.buffer,
               ~q.buffer[i].queued, q.buffer[k].queued
        PROVE  Num(p.buffer[i].m) > Num(p.buffer[k].m)
    <3>1. k \notin K /\ p.buffer[k].queued
      BY <1>4, <2>3
    <3>2. CASE i \in K
      <4>1. k \in Queued(p.buffer)
        BY <3>1 DEF Queued
      <4>2. i < k
        BY <1>3, <3>1, <3>2, <4>1, EmittedFirst DEF K
      <4> QED
        BY <1>3, <4>2 DEF BufferOk
    <3>3. CASE i \notin K
      <4>1. ~p.buffer[i].queued
        BY <1>4, <2>3, <3>3
      <4> QED
        BY <1>3, <3>1, <4>1 DEF BufferOk
    <3> QED
      BY <3>2, <3>3
  <2>4. \A i, k \in DOMAIN q.buffer :
           ~q.buffer[i].queued /\ q.buffer[k].queued => Num(q.buffer[i].m) > Num(q.buffer[k].m)
    BY <1>4, <2>3
  <2> QED
    BY <2>1, <2>2, <2>4 DEF BufferOk
<1>11. CanDraw(q)
  BY <1>3, <1>9, <1>10 DEF CanDraw
<1>12. ASSUME NEW k \in DOMAIN q.journal
       PROVE  \/ \E i \in DOMAIN p.journal : q.journal[k].m = p.journal[i].m
              \/ \E i \in DOMAIN p.buffer : /\ i \in K /\ p.buffer[i].redraw
                                            /\ q.journal[k].m = p.buffer[i].m
  <2>1. \/ \E i \in DOMAIN d.journal : a.journal[k].m = d.journal[i].m
        \/ \E i \in 1 .. l : ws[i].redraw /\ a.journal[k].m = ws[i].m
    BY <1>4, <1>8 DEF Gathers
  <2>2. CASE \E i \in DOMAIN d.journal : a.journal[k].m = d.journal[i].m
    BY <1>2, <1>4, <2>2
  <2>3. CASE \E i \in 1 .. l : ws[i].redraw /\ a.journal[k].m = ws[i].m
    <3>1. PICK x \in 1 .. l : ws[x].redraw /\ a.journal[k].m = ws[x].m
      BY <2>3
    <3>2. PICK i \in K : i \in DOMAIN p.buffer /\ ws[x] = p.buffer[i]
      BY <1>1, <1>5
    <3> QED
      BY <1>4, <3>1, <3>2
  <2> QED
    BY <2>1, <2>2, <2>3
<1>13. \A i \in DOMAIN p.journal : \E k \in DOMAIN q.journal :
          q.journal[k].m.id = p.journal[i].m.id
  BY <1>2, <1>4, <1>8 DEF Gathers
<1>14. ASSUME NEW i \in K, p.buffer[i].redraw
       PROVE  \E k \in DOMAIN q.journal : q.journal[k].m.id = p.buffer[i].m.id
  <2>1. PICK x \in 1 .. l : ws[x] = p.buffer[i]
    BY <1>1, <1>5
  <2>2. \E k \in DOMAIN a.journal : a.journal[k].m.id = ws[x].m.id
    BY <1>8, <1>14, <2>1 DEF Gathers
  <2> QED
    BY <1>4, <2>1, <2>2
<1>15. Grown(q, p, n)
  BY <1>12, <1>13, <1>14 DEF Grown, K
<1> QED
  BY <1>11, <1>15 DEF q

\* Sending the held writes draws them over what the page shows.
LEMMA PumpOver ==
    ASSUME NEW p, CanDraw(p), NEW n \in Nat,
           NEW T \in [Views -> Views], NEW C \in SUBSET Items, NEW b, NEW v,
           Over(p, T, C, b, v),
           \A k \in DOMAIN p.buffer : p.buffer[k].redraw => Clear(T, C, p.journal, p.buffer[k].m)
    PROVE  Over(Pumped(p, n), T, C, b, v)
<1> DEFINE q == Pumped(p, n)
           ws == Emits(p, n)
           d == Before(p)
           a == After(p, n)
<1>1. /\ ws \in Seq(Writes) /\ BufferOk(ws) /\ Descends(ws)
      /\ \A k \in DOMAIN ws : Sound(ws[k].m)
      /\ \A k \in DOMAIN ws : \E i \in Emitted(p, n) :
            i \in DOMAIN p.buffer /\ ws[k] = p.buffer[i]
      /\ \A i \in Emitted(p, n) : \E k \in DOMAIN ws : ws[k] = p.buffer[i]
      /\ d \in Drawings /\ Distinct(d.journal)
  BY EmitsFacts
<1>2. d.journal = p.journal /\ d.view = p.view
  BY DEF Before
<1>3. q.view = a.view /\ q.journal = a.journal
  BY PumpedIs DEF CanDraw
<1>4. PICK l \in Nat : l = Len(ws) /\ DOMAIN ws = 1 .. l
  BY <1>1, LenProperties
<1>5. a = RedrawnUpTo(d, ws)[l] /\ l \in 0 .. l
  BY <1>4 DEF After
<1> HIDE DEF q, ws, d, a
<1>6. Over(d, T, C, b, v)
  BY <1>2 DEF Over
<1>7. Clears(T, C, d, ws)
  <2> SUFFICES ASSUME NEW x \in DOMAIN ws, ws[x].redraw
               PROVE  Clear(T, C, d.journal, ws[x].m)
    BY DEF Clears
  <2>1. PICK i \in DOMAIN p.buffer : ws[x] = p.buffer[i]
    BY <1>1
  <2> QED
    BY <1>2, <2>1
<1>8. \A c \in 0 .. Len(ws) : Over(RedrawnUpTo(d, ws)[c], T, C, b, v)
  BY <1>1, <1>6, <1>7, RedrawnOver
<1>9. Over(a, T, C, b, v)
  BY <1>4, <1>5, <1>8
<1>10. Over(q, T, C, b, v)
  BY <1>3, <1>9 DEF Over
<1> QED
  BY <1>10 DEF q

\* What is still held is younger than what was sent.
LEMMA PumpHeld ==
    ASSUME NEW p, CanDraw(p), NEW n \in Nat, HeldApart(p.journal, p.buffer)
    PROVE  /\ HeldApart(Pumped(p, n).journal, Pumped(p, n).buffer)
           /\ HeldOrder(p.journal, p.buffer) =>
                 HeldOrder(Pumped(p, n).journal, Pumped(p, n).buffer)
<1> DEFINE q == Pumped(p, n)
           K == Emitted(p, n)
<1>1. IsPage(p) /\ BufferOk(p.buffer) /\ Distinct(p.buffer)
  BY DEF CanDraw, IsPage
<1>2. /\ DOMAIN q.buffer = DOMAIN p.buffer
      /\ \A k \in DOMAIN p.buffer :
            /\ q.buffer[k].m = p.buffer[k].m
            /\ k \in K => ~q.buffer[k].queued /\ ~q.buffer[k].redraw
            /\ k \notin K => q.buffer[k] = p.buffer[k]
  BY <1>1, PumpedIs
<1>3. Grown(q, p, n)
  BY PumpGrows
<1> HIDE DEF q
<1>4. \A k \in DOMAIN q.buffer : q.buffer[k].redraw =>
         k \in DOMAIN p.buffer /\ k \notin K /\ q.buffer[k] = p.buffer[k]
  BY <1>2
<1>5. ASSUME NEW i \in K, NEW k \in DOMAIN p.buffer, k \notin K, p.buffer[k].redraw
      PROVE  p.buffer[i].m.id # p.buffer[k].m.id /\ Num(p.buffer[i].m) > Num(p.buffer[k].m)
  <2>1. i \in DOMAIN p.buffer
    BY DEF Emitted, First, Queued
  <2>2. k \in Queued(p.buffer)
    BY <1>1, <1>5 DEF BufferOk, Queued
  <2>3. i < k
    BY <1>1, <1>5, <2>2, EmittedFirst
  <2>4. i # k
    BY <1>5
  <2> QED
    BY <1>1, <2>1, <2>3, <2>4 DEF BufferOk, Distinct
<1> HIDE DEF K
<1>6. \A j \in DOMAIN q.journal :
         \/ \E i \in DOMAIN p.journal : q.journal[j].m = p.journal[i].m
         \/ \E i \in K : q.journal[j].m = p.buffer[i].m
  BY <1>3 DEF Grown, K
<1>7. HeldApart(q.journal, q.buffer)
  BY <1>4, <1>5, <1>6 DEF HeldApart
<1>8. HeldOrder(p.journal, p.buffer) => HeldOrder(q.journal, q.buffer)
  <2> SUFFICES ASSUME HeldOrder(p.journal, p.buffer),
                      NEW j \in DOMAIN q.journal, NEW k \in DOMAIN q.buffer,
                      q.buffer[k].redraw, Collide(q.journal[j].m, q.buffer[k].m)
               PROVE  Num(q.journal[j].m) > Num(q.buffer[k].m)
    BY DEF HeldOrder
  <2>1. k \in DOMAIN p.buffer /\ k \notin K /\ q.buffer[k] = p.buffer[k]
    BY <1>4
  <2>2. CASE \E i \in DOMAIN p.journal : q.journal[j].m = p.journal[i].m
    BY <2>1, <2>2 DEF HeldOrder
  <2>3. CASE \E i \in K : q.journal[j].m = p.buffer[i].m
    BY <1>5, <2>1, <2>3
  <2> QED
    BY <1>6, <2>2, <2>3
<1> QED
  BY <1>7, <1>8 DEF q

\* pumpBufferedWrites keeps what is drawn and what is buffered in step.
LEMMA PumpedKeeps ==
    ASSUME NEW p, IsPage(p), PageInv(p), NEW n \in Nat
    PROVE  /\ IsPage(Pumped(p, n)) /\ PageInv(Pumped(p, n)) /\ Else(Pumped(p, n), p)
           /\ \A b : Follows(p, b) => Follows(Pumped(p, n), b)
<1> DEFINE q == Pumped(p, n)
           K == Emitted(p, n)
<1>1. CanDraw(p) /\ Matching(p.journal, p.buffer) /\ p.crossed \in BOOLEAN
  BY DEF CanDraw, PageInv
<1>2. CanDraw(q) /\ Grown(q, p, n)
  BY <1>1, PumpGrows
<1>3. /\ q.crossed = p.crossed /\ Else(q, p)
      /\ DOMAIN q.buffer = DOMAIN p.buffer
      /\ \A k \in DOMAIN p.buffer :
            /\ q.buffer[k].m = p.buffer[k].m
            /\ k \in K => ~q.buffer[k].queued /\ ~q.buffer[k].redraw
            /\ k \notin K => q.buffer[k] = p.buffer[k]
  BY PumpedIs
<1> HIDE DEF q
<1>4. Matching(q.journal, q.buffer)
  <2>1. ASSUME NEW k \in DOMAIN q.journal
        PROVE  \E i \in DOMAIN q.buffer : q.buffer[i].m = q.journal[k].m
    <3>1. CASE \E i \in DOMAIN p.journal : q.journal[k].m = p.journal[i].m
      <4>1. PICK i \in DOMAIN p.journal : q.journal[k].m = p.journal[i].m
        BY <3>1
      <4>2. PICK x \in DOMAIN p.buffer : p.buffer[x].m = p.journal[i].m
        BY <1>1 DEF Matching
      <4> QED
        BY <1>3, <4>1, <4>2
    <3>2. CASE \E i \in DOMAIN p.buffer : q.journal[k].m = p.buffer[i].m
      BY <1>3, <3>2
    <3> QED
      BY <1>2, <3>1, <3>2 DEF Grown
  <2>2. ASSUME NEW k \in DOMAIN q.buffer, ~q.buffer[k].redraw
        PROVE  \E i \in DOMAIN q.journal : q.journal[i].m.id = q.buffer[k].m.id
    <3>1. CASE ~p.buffer[k].redraw
      <4>1. PICK i \in DOMAIN p.journal : p.journal[i].m.id = p.buffer[k].m.id
        BY <1>1, <1>3, <3>1 DEF Matching
      <4>2. PICK x \in DOMAIN q.journal : q.journal[x].m.id = p.journal[i].m.id
        BY <1>2 DEF Grown
      <4> QED
        BY <1>3, <4>1, <4>2
    <3>2. CASE p.buffer[k].redraw
      <4>1. k \in K
        BY <1>3, <2>2, <3>2
      <4>2. \E x \in DOMAIN q.journal : q.journal[x].m.id = p.buffer[k].m.id
        BY <1>2, <3>2, <4>1 DEF Grown
      <4> QED
        BY <1>3, <4>2
    <3> QED
      BY <3>1, <3>2
  <2> QED
    BY <2>1, <2>2 DEF Matching
<1>5. PageInv(q)
  BY <1>1, <1>2, <1>3, <1>4 DEF PageInv, CanDraw
<1>6. ASSUME NEW b, Follows(p, b)
      PROVE  Follows(q, b)
  <2>1. HeldApart(p.journal, p.buffer)
    BY <1>6 DEF Follows
  <2>2. /\ HeldApart(q.journal, q.buffer)
        /\ HeldOrder(p.journal, p.buffer) => HeldOrder(q.journal, q.buffer)
    BY <1>1, <2>1, PumpHeld DEF q
  <2>3. ASSUME ~p.crossed
        PROVE  JournalOrder(q.journal) /\ Stack(q.journal, b, q.view)
               /\ HeldOrder(p.journal, p.buffer)
    <3>1. /\ JournalOrder(p.journal) /\ HeldOrder(p.journal, p.buffer)
          /\ Stack(p.journal, b, p.view) /\ p.view \in Views
      BY <1>6, <2>3 DEF Follows, PageInv
    <3> DEFINE T == [u \in Views |-> u]
               C == {}
    <3>2. T \in [Views -> Views] /\ C \in SUBSET Items /\ \A u \in Views : T[u] = u
      OBVIOUS
    <3> HIDE DEF T
    <3>3. \A i \in C : FALSE
      OBVIOUS
    <3> HIDE DEF C
    <3>4. Over(p, T, C, b, p.view)
      BY <3>1, <3>2 DEF Over
    <3>5. ASSUME NEW k \in DOMAIN p.buffer, p.buffer[k].redraw
          PROVE  Clear(T, C, p.journal, p.buffer[k].m)
      <4>1. Sound(p.buffer[k].m)
        BY <1>1 DEF CanDraw, BufferOk
      <4>2. \A u \in Views : Drawn(u, p.buffer[k].m) \in Views
        BY <4>1, DrawnFacts
      <4>3. Through(T, C, p.buffer[k].m)
        BY <3>2, <3>3, <4>2 DEF Through
      <4>4. \A i \in DOMAIN p.journal :
               /\ p.journal[i].m.id # p.buffer[k].m.id
               /\ Collide(p.journal[i].m, p.buffer[k].m) =>
                     Num(p.journal[i].m) > Num(p.buffer[k].m)
        BY <2>1, <3>1, <3>5 DEF HeldApart, HeldOrder
      <4> QED
        BY <4>3, <4>4 DEF Clear
    <3>6. Over(q, T, C, b, p.view)
      BY <1>1, <3>2, <3>4, <3>5, PumpOver DEF q
    <3>7. JournalOrder(q.journal) /\ Stack(q.journal, b, q.view)
      BY <3>2, <3>6 DEF Over
    <3> QED
      BY <3>1, <3>7
  <2> QED
    BY <1>3, <2>2, <2>3 DEF Follows
<1>7. IsPage(q)
  BY <1>2 DEF CanDraw
<1> QED
  BY <1>3, <1>5, <1>6, <1>7 DEF q

\* A new write in the buffer
Buffering(p, m) ==
    [p EXCEPT !.view = Drawn(@, m),
              !.buffer = Append(@, [m |-> m, queued |-> TRUE, redraw |-> FALSE])]

\* A new write is the last in the buffer, and drawn.
LEMMA BufferingFacts ==
    ASSUME NEW p, IsPage(p), PageInv(p), NEW m \in OwnMutations, Sound(m),
           \A k \in DOMAIN p.buffer : Num(p.buffer[k].m) > Num(m)
    PROVE  /\ CanDraw(Buffering(p, m))
           /\ Buffering(p, m).view = Drawn(p.view, m)
           /\ Buffering(p, m).journal = p.journal /\ Buffering(p, m).crossed = p.crossed
           /\ Else(Buffering(p, m), p)
           /\ \E l \in DOMAIN Buffering(p, m).buffer :
                 /\ l \notin DOMAIN p.buffer /\ Buffering(p, m).buffer[l].m = m
                 /\ ~Buffering(p, m).buffer[l].redraw
                 /\ \A k \in DOMAIN Buffering(p, m).buffer : k # l =>
                       k \in DOMAIN p.buffer /\ Buffering(p, m).buffer[k] = p.buffer[k]
           /\ \A k \in DOMAIN p.buffer : /\ k \in DOMAIN Buffering(p, m).buffer
                                         /\ Buffering(p, m).buffer[k] = p.buffer[k]
<1> DEFINE w == [m |-> m, queued |-> TRUE, redraw |-> FALSE]
           t == Append(p.buffer, w)
           v == Drawn(p.view, m)
           q == Buffering(p, m)
<1>1. q = [p EXCEPT !.view = v, !.buffer = t]
  BY DEF Buffering
<1>2. p.buffer \in Seq(Writes) /\ Distinct(p.buffer) /\ BufferOk(p.buffer)
  BY DEF IsPage, PageInv
<1>3. w \in Writes /\ w.m = m /\ w.queued /\ ~w.redraw
  BY DEF Writes
<1> HIDE DEF w
<1>4. t \in Seq(Writes) /\ \A k \in DOMAIN p.buffer : k \in DOMAIN t /\ t[k] = p.buffer[k]
  BY <1>2, <1>3, Appended
<1>5. PICK l \in DOMAIN t :
         /\ l \notin DOMAIN p.buffer /\ t[l] = w
         /\ \A k \in DOMAIN t : k <= l /\ (k \in DOMAIN p.buffer \/ k = l)
  BY <1>2, <1>3, Appended
<1>6. PICK c \in Nat : DOMAIN t = 1 .. c
  BY <1>4, LenProperties
<1>7. v \in Views
  BY DrawnFacts DEF PageInv
<1> HIDE DEF t, v, q
<1>8. /\ q.view = v /\ q.buffer = t /\ q.journal = p.journal /\ q.crossed = p.crossed
      /\ Else(q, p)
  BY <1>1 DEF IsPage, PageFields, Else
<1>9. \A k \in DOMAIN t : k # l => k \in DOMAIN p.buffer /\ t[k] = p.buffer[k]
  BY <1>4, <1>5
<1>10. \A k \in DOMAIN p.buffer : p.buffer[k].m.id # m.id
  <2>1. Num(m) \in Nat
    BY MutationFacts DEF Sound, Num
  <2> SUFFICES ASSUME NEW k \in DOMAIN p.buffer, p.buffer[k].m.id = m.id PROVE FALSE
    OBVIOUS
  <2>2. Num(p.buffer[k].m) = Num(m)
    BY DEF Num
  <2> QED
    BY <2>1, <2>2
<1>11. Distinct(t)
  BY <1>2, <1>3, <1>5, <1>9, <1>10 DEF Distinct
<1>12. BufferOk(t)
  <2>1. \A k \in DOMAIN t : Sound(t[k].m) /\ (t[k].redraw => t[k].queued)
    BY <1>2, <1>3, <1>5, <1>9 DEF BufferOk
  <2>2. ASSUME NEW i \in DOMAIN t, NEW k \in DOMAIN t,
               i < k \/ (~t[i].queued /\ t[k].queued)
        PROVE  Num(t[i].m) > Num(t[k].m)
    <3>1. i # l
      BY <1>3, <1>5, <1>6, <2>2
    <3>2. i \in DOMAIN p.buffer /\ t[i] = p.buffer[i]
      BY <1>9, <3>1
    <3>3. CASE k = l
      BY <1>3, <1>5, <3>2, <3>3
    <3>4. CASE k # l
      <4>1. k \in DOMAIN p.buffer /\ t[k] = p.buffer[k]
        BY <1>9, <3>4
      <4> QED
        BY <1>2, <2>2, <3>2, <4>1 DEF BufferOk
    <3> QED
      BY <3>3, <3>4
  <2> QED
    BY <2>1, <2>2 DEF BufferOk
<1>13. IsPage(q)
  BY <1>1, <1>4, <1>8, <1>11 DEF IsPage, PageFields
<1>14. CanDraw(q)
  BY <1>7, <1>8, <1>12, <1>13 DEF CanDraw, PageInv
<1>15. q.view = Drawn(p.view, m)
  BY <1>8 DEF v
<1> QED
  BY <1>3, <1>4, <1>5, <1>8, <1>9, <1>14, <1>15 DEF q

\* What is drawn over a drawing can be drawn under held writes that do not collide with it.
LEMMA HeldThrough ==
    ASSUME NEW m, Sound(m), NEW h, Sound(h), ~Collide(h, m),
           NEW T, \A u \in Views : T[u] = Drawn(u, m)
    PROVE  Through(T, Cover(m), h)
<1>1. \A u \in Views : Drawn(u, h) \in Views
  BY DrawnFacts
<1>2. \A u \in Views : Drawn(Drawn(u, h), m) = Drawn(Drawn(u, m), h)
  BY DrawnCommute
<1>3. \A u \in Views : Drawn(T[u], h) = T[Drawn(u, h)]
  BY <1>1, <1>2
<1>4. \A i \in Cover(h) : i \in Items /\ i \notin Cover(m)
  BY Apart, MutationFacts DEF Sound
<1>5. \A i \in Cover(m) : i \notin Cover(h)
  BY Apart
<1>6. \A u \in Views, i \in Cover(h) : T[u][i] = u[i]
  BY <1>4, DrawnFacts
<1> QED
  BY <1>3, <1>5, <1>6 DEF Through

-----------------------------------------------------------------------------
(* drawAndSend *)

\* drawAndSend, as a function of the page
DrawnAndSent(p, m, n) ==
    [Pumped(Buffering(p, m), n) EXCEPT
        !.journal = Track(@, Entry(m, Pumped(Buffering(p, m), n).journal, p.view)),
        !.crossed = @ \/ \E k \in Queued(p.buffer) :
                            p.buffer[k].redraw /\ Collide(p.buffer[k].m, m)]

\* drawAndSend (and the writes that the buffer emits with it): what was captured
\* before the new write was drawn is what its items were under it, if no write
\* that is drawn again meanwhile collides with it.
LEMMA DrawKeeps ==
    ASSUME NEW p, IsPage(p), PageInv(p), NEW m \in OwnMutations, Sound(m),
           \A k \in DOMAIN p.buffer : Num(p.buffer[k].m) > Num(m), NEW n \in Nat
    PROVE  /\ IsPage(DrawnAndSent(p, m, n)) /\ PageInv(DrawnAndSent(p, m, n))
           /\ Else(DrawnAndSent(p, m, n), p)
           /\ DrawnAndSent(p, m, n).buffer = Pumped(Buffering(p, m), n).buffer
           /\ \A b : Follows(p, b) => Follows(DrawnAndSent(p, m, n), b)
<1> DEFINE r == Buffering(p, m)
           s == Pumped(r, n)
           e == Entry(m, s.journal, p.view)
           J == Track(s.journal, e)
           x == \E k \in Queued(p.buffer) : p.buffer[k].redraw /\ Collide(p.buffer[k].m, m)
           c == s.crossed \/ x
           q == DrawnAndSent(p, m, n)
           K == Emitted(r, n)
<1>1. /\ p.journal \in Journals /\ Distinct(p.journal) /\ p.view \in Views
      /\ p.crossed \in BOOLEAN /\ BufferOk(p.buffer) /\ Matching(p.journal, p.buffer)
  BY DEF PageInv
<1>2. /\ CanDraw(r) /\ r.view = Drawn(p.view, m) /\ r.journal = p.journal
      /\ r.crossed = p.crossed /\ Else(r, p)
      /\ \A k \in DOMAIN p.buffer : k \in DOMAIN r.buffer /\ r.buffer[k] = p.buffer[k]
  BY BufferingFacts
<1>3. PICK l \in DOMAIN r.buffer :
         /\ l \notin DOMAIN p.buffer /\ r.buffer[l].m = m /\ ~r.buffer[l].redraw
         /\ \A k \in DOMAIN r.buffer : k # l =>
               k \in DOMAIN p.buffer /\ r.buffer[k] = p.buffer[k]
  BY BufferingFacts
<1>4. CanDraw(s) /\ Grown(s, r, n)
  BY <1>2, PumpGrows
<1>5. /\ s.crossed = r.crossed /\ Else(s, r)
      /\ DOMAIN s.buffer = DOMAIN r.buffer
      /\ \A k \in DOMAIN r.buffer :
            /\ s.buffer[k].m = r.buffer[k].m
            /\ k \in K => ~s.buffer[k].queued /\ ~s.buffer[k].redraw
            /\ k \notin K => s.buffer[k] = r.buffer[k]
  BY <1>2, PumpedIs DEF CanDraw
<1>6. q = [s EXCEPT !.journal = J, !.crossed = c]
  BY DEF DrawnAndSent
<1>7. IsPage(s) /\ s.journal \in Journals /\ Distinct(s.journal)
      /\ s.view \in Views /\ BufferOk(s.buffer)
  BY <1>4 DEF CanDraw
<1>8. /\ e \in Entries /\ e.m = m /\ DOMAIN e.snap = Cover(m)
      /\ \A i \in Cover(m) : e.snap[i] = p.view[i]
  BY <1>1, <1>7, EntryFacts
<1>9. HeldApart(p.journal, p.buffer) => HeldApart(r.journal, r.buffer)
  <2>1. SUFFICES ASSUME HeldApart(p.journal, p.buffer), NEW i \in DOMAIN r.journal,
                        NEW k \in DOMAIN r.buffer, r.buffer[k].redraw
                 PROVE  r.journal[i].m.id # r.buffer[k].m.id
    BY DEF HeldApart
  <2>2. k # l
    BY <1>3, <2>1
  <2> QED
    BY <1>2, <1>3, <2>1, <2>2 DEF HeldApart
<1>10. \A i \in DOMAIN r.buffer : r.buffer[i].redraw =>
          i \in DOMAIN p.buffer /\ r.buffer[i] = p.buffer[i] /\ p.buffer[i].redraw
  BY <1>2, <1>3
<1> HIDE DEF r, s, e, J, c, q, x, K
<1>11. \A k \in DOMAIN s.journal : \E i \in DOMAIN p.buffer : s.journal[k].m = p.buffer[i].m
  <2>1. SUFFICES ASSUME NEW k \in DOMAIN s.journal
                 PROVE  \E i \in DOMAIN p.buffer : s.journal[k].m = p.buffer[i].m
    OBVIOUS
  <2>2. CASE \E i \in DOMAIN r.journal : s.journal[k].m = r.journal[i].m
    <3>1. PICK i \in DOMAIN p.journal : s.journal[k].m = p.journal[i].m
      BY <1>2, <2>2
    <3> QED
      BY <1>1, <3>1 DEF Matching
  <2>3. CASE \E i \in DOMAIN r.buffer : /\ i \in K /\ r.buffer[i].redraw
                                        /\ s.journal[k].m = r.buffer[i].m
    BY <1>10, <2>3
  <2> QED
    BY <1>4, <2>2, <2>3 DEF Grown, K
<1>12. /\ \A k \in DOMAIN p.buffer : Num(p.buffer[k].m) > Num(m)
       /\ Num(m) \in Nat
  BY MutationFacts DEF Sound, Num
<1>13. \A k \in DOMAIN s.journal :
          s.journal[k].m.id # m.id /\ Num(s.journal[k].m) > Num(m)
  <2>1. SUFFICES ASSUME NEW k \in DOMAIN s.journal
                 PROVE  s.journal[k].m.id # m.id /\ Num(s.journal[k].m) > Num(m)
    OBVIOUS
  <2>2. Num(s.journal[k].m) > Num(m)
    BY <1>11, <1>12
  <2>3. SUFFICES ASSUME s.journal[k].m.id = m.id PROVE FALSE
    BY <2>2
  <2>4. Num(s.journal[k].m) = Num(m)
    BY <2>3 DEF Num
  <2> QED
    BY <1>12, <2>2, <2>4
<1>14. /\ J \in Journals /\ Distinct(J) /\ J = Append(s.journal, e)
       /\ JournalOrder(s.journal) => JournalOrder(J)
       /\ \A k \in DOMAIN J : J[k] = e \/ \E i \in DOMAIN s.journal : J[k] = s.journal[i]
       /\ \E k \in DOMAIN J : J[k] = e
       /\ \A i \in DOMAIN s.journal : \E k \in DOMAIN J : J[k].m.id = s.journal[i].m.id
  <2>1. Sound(e.m) /\ \A i \in DOMAIN s.journal : s.journal[i].m.id # e.m.id
    BY <1>8, <1>13
  <2>2. \A i \in DOMAIN s.journal : Collide(s.journal[i].m, e.m) => Num(s.journal[i].m) > Num(e.m)
    BY <1>8, <1>13
  <2> QED
    BY <1>7, <1>8, <2>1, <2>2, TrackFacts DEF J
<1>15. /\ q.view = s.view /\ q.buffer = s.buffer /\ q.journal = J /\ q.crossed = c
       /\ DOMAIN q = PageFields /\ q.seq = s.seq /\ q.awaiting = s.awaiting
       /\ q.paused = s.paused /\ q.inbox = s.inbox /\ q.waiting = s.waiting
  BY <1>6, <1>7 DEF IsPage, PageFields
<1>16. IsPage(q)
  BY <1>7, <1>15 DEF IsPage
<1>17. Else(q, p)
  BY <1>2, <1>5, <1>15 DEF Else
<1>18. Matching(J, s.buffer)
  <2>1. ASSUME NEW k \in DOMAIN J
        PROVE  \E i \in DOMAIN s.buffer : s.buffer[i].m = J[k].m
    <3>1. CASE J[k] = e
      BY <1>3, <1>5, <1>8, <3>1
    <3>2. CASE \E i \in DOMAIN s.journal : J[k] = s.journal[i]
      <4>1. PICK i \in DOMAIN p.buffer : J[k].m = p.buffer[i].m
        BY <1>11, <3>2
      <4> QED
        BY <1>2, <1>5, <4>1
    <3> QED
      BY <1>14, <3>1, <3>2
  <2>2. ASSUME NEW k \in DOMAIN s.buffer, ~s.buffer[k].redraw
        PROVE  \E i \in DOMAIN J : J[i].m.id = s.buffer[k].m.id
    <3>1. CASE k = l
      BY <1>3, <1>5, <1>8, <1>14, <3>1
    <3>2. CASE k # l /\ ~p.buffer[k].redraw
      <4>1. PICK i \in DOMAIN p.journal : p.journal[i].m.id = p.buffer[k].m.id
        BY <1>1, <1>3, <1>5, <3>2 DEF Matching
      <4>2. PICK y \in DOMAIN s.journal : s.journal[y].m.id = p.journal[i].m.id
        BY <1>2, <1>4 DEF Grown
      <4>3. s.buffer[k].m = p.buffer[k].m
        BY <1>3, <1>5, <3>2
      <4> QED
        BY <1>14, <4>1, <4>2, <4>3
    <3>3. CASE k # l /\ p.buffer[k].redraw
      <4>1. r.buffer[k] = p.buffer[k] /\ k \in DOMAIN r.buffer /\ k \in DOMAIN p.buffer
        BY <1>3, <1>5, <3>3
      <4>2. k \in K
        BY <1>5, <2>2, <3>3, <4>1
      <4>3. \E y \in DOMAIN s.journal : s.journal[y].m.id = r.buffer[k].m.id
        BY <1>4, <3>3, <4>1, <4>2 DEF Grown, K
      <4> QED
        BY <1>5, <1>14, <4>1, <4>3
    <3> QED
      BY <3>1, <3>2, <3>3
  <2> QED
    BY <2>1, <2>2 DEF Matching
<1>19. c \in BOOLEAN /\ (c <=> p.crossed \/ x)
  BY <1>1, <1>2, <1>5 DEF c, x
<1>20. PageInv(q)
  BY <1>7, <1>14, <1>15, <1>18, <1>19 DEF PageInv
<1>21. ASSUME NEW b, Follows(p, b)
       PROVE  Follows(q, b)
  <2>1. HeldApart(r.journal, r.buffer)
    BY <1>9, <1>21 DEF Follows
  <2>2. /\ HeldApart(s.journal, s.buffer)
        /\ HeldOrder(r.journal, r.buffer) => HeldOrder(s.journal, s.buffer)
    BY <1>2, <2>1, PumpHeld DEF s
  <2>3. \A k \in DOMAIN s.buffer : s.buffer[k].redraw =>
           k \in DOMAIN p.buffer /\ s.buffer[k] = p.buffer[k] /\ p.buffer[k].redraw
    BY <1>5, <1>10
  <2>4. HeldApart(J, s.buffer)
    <3>1. SUFFICES ASSUME NEW i \in DOMAIN J, NEW k \in DOMAIN s.buffer, s.buffer[k].redraw,
                          J[i].m.id = s.buffer[k].m.id
                   PROVE  FALSE
      BY DEF HeldApart
    <3>2. CASE J[i] = e
      <4>1. Num(p.buffer[k].m) = Num(m)
        BY <1>8, <2>3, <3>1, <3>2 DEF Num
      <4> QED
        BY <1>12, <2>3, <3>1, <4>1
    <3>3. CASE \E y \in DOMAIN s.journal : J[i] = s.journal[y]
      BY <2>2, <3>1, <3>3 DEF HeldApart
    <3> QED
      BY <1>14, <3>2, <3>3
  <2>5. ASSUME ~c
        PROVE  JournalOrder(J) /\ HeldOrder(J, s.buffer) /\ Stack(J, b, s.view)
    <3>1. /\ JournalOrder(p.journal) /\ HeldOrder(p.journal, p.buffer)
          /\ Stack(p.journal, b, p.view)
      BY <1>19, <1>21, <2>5 DEF Follows
    <3>2. \A k \in DOMAIN p.buffer : p.buffer[k].redraw => ~Collide(p.buffer[k].m, m)
      <4>1. \A k \in DOMAIN p.buffer : p.buffer[k].redraw => k \in Queued(p.buffer)
        BY <1>1 DEF BufferOk, Queued
      <4> QED
        BY <1>19, <2>5, <4>1 DEF x
    <3> DEFINE T == [u \in Views |-> Drawn(u, m)]
               C == Cover(m)
    <3>3. T \in [Views -> Views] /\ C \in SUBSET Items
          /\ \A u \in Views : T[u] = Drawn(u, m)
      BY DrawnFacts, MutationFacts DEF Sound
    <3>4. C = Cover(m)
      OBVIOUS
    <3> HIDE DEF T, C
    <3>5. Over(r, T, C, b, p.view)
      <4>1. r.view = T[p.view]
        BY <1>1, <1>2, <3>3
      <4> QED
        BY <1>1, <1>2, <3>1, <4>1 DEF Over
    <3>6. ASSUME NEW k \in DOMAIN r.buffer, r.buffer[k].redraw
          PROVE  Clear(T, C, r.journal, r.buffer[k].m)
      <4>1. k \in DOMAIN p.buffer /\ r.buffer[k] = p.buffer[k] /\ p.buffer[k].redraw
        BY <1>10, <3>6
      <4>2. Sound(r.buffer[k].m)
        BY <1>1, <4>1 DEF BufferOk
      <4>3. ~Collide(r.buffer[k].m, m)
        BY <3>2, <4>1
      <4>4. Through(T, Cover(m), r.buffer[k].m)
        BY <3>3, <4>2, <4>3, HeldThrough
      <4>5. \A i \in DOMAIN r.journal : r.journal[i].m.id # r.buffer[k].m.id
        BY <2>1, <3>6 DEF HeldApart
      <4>6. \A i \in DOMAIN r.journal : Collide(r.journal[i].m, r.buffer[k].m) =>
               Num(r.journal[i].m) > Num(r.buffer[k].m)
        BY <1>2, <3>1, <4>1 DEF HeldOrder
      <4> QED
        BY <3>4, <4>4, <4>5, <4>6 DEF Clear
    <3>7. Over(s, T, C, b, p.view)
      BY <1>2, <3>3, <3>5, <3>6, PumpOver DEF s
    <3>8. PICK u \in Views : /\ Stack(s.journal, b, u) /\ s.view = T[u]
                             /\ \A i \in C : u[i] = p.view[i]
      BY <3>7 DEF Over
    <3>9. Step(e, u, s.view)
      BY <1>8, <3>3, <3>4, <3>8 DEF Step
    <3>10. Stack(J, b, s.view)
      BY <1>7, <1>8, <1>14, <3>8, <3>9, StackPush
    <3>11. JournalOrder(J)
      BY <1>14, <3>7 DEF Over
    <3>12. HeldOrder(r.journal, r.buffer)
      BY <1>2, <1>10, <3>1 DEF HeldOrder
    <3>13. HeldOrder(J, s.buffer)
      <4>1. SUFFICES ASSUME NEW i \in DOMAIN J, NEW k \in DOMAIN s.buffer, s.buffer[k].redraw,
                            Collide(J[i].m, s.buffer[k].m)
                     PROVE  Num(J[i].m) > Num(s.buffer[k].m)
        BY DEF HeldOrder
      <4>2. CASE J[i] = e
        <5>1. ~Collide(p.buffer[k].m, m)
          BY <2>3, <3>2, <4>1
        <5>2. Sound(p.buffer[k].m)
          BY <1>1, <2>3, <4>1 DEF BufferOk
        <5>3. ~Collide(m, p.buffer[k].m)
          BY <5>1, <5>2, Apart
        <5> QED
          BY <1>8, <2>3, <4>1, <4>2, <5>3
      <4>3. CASE \E y \in DOMAIN s.journal : J[i] = s.journal[y]
        BY <2>2, <3>12, <4>1, <4>3 DEF HeldOrder
      <4> QED
        BY <1>14, <4>2, <4>3
    <3> QED
      BY <3>10, <3>11, <3>13
  <2> QED
    BY <1>15, <2>4, <2>5 DEF Follows
<1> QED
  BY <1>15, <1>16, <1>17, <1>20, <1>21 DEF q, s, r

-----------------------------------------------------------------------------
(* The board *)

\* What a list of mutations makes of a drawing, one after the other
Drawing(v, h) ==
    CHOOSE f : f = [k \in 0 .. Len(h) |-> IF k = 0 THEN v ELSE Drawn(f[k - 1], h[k])]

IsDrawing(F, v, h, l) ==
    /\ F[0] = v
    /\ \A k \in 0 .. l : F[k] \in Views
    /\ \A k \in 1 .. l : F[k] = Drawn(F[k - 1], h[k])

\* Each drawing is what the next mutation makes of the one before.
LEMMA DrawingEach ==
    ASSUME NEW v \in Views, NEW h \in Seq(Mutations), \A k \in DOMAIN h : Sound(h[k])
    PROVE  IsDrawing(Drawing(v, h), v, h, Len(h))
<1>0. PICK l \in Nat : l = Len(h) /\ DOMAIN h = 1 .. l
  BY LenProperties
<1> DEFINE step == [x \in (1 .. l) \X Views |-> Drawn(x[2], h[x[1]])]
           F == Drawing(v, h)
<1>1. step \in [(1 .. l) \X Views -> Views]
  <2> SUFFICES ASSUME NEW x \in (1 .. l) \X Views
               PROVE  Drawn(x[2], h[x[1]]) \in Views
    OBVIOUS
  <2>1. x[2] \in Views /\ Sound(h[x[1]])
    BY <1>0
  <2> QED
    BY <2>1, DrawnFacts
<1>2. \A k \in 1 .. l, u \in Views : step[<<k, u>>] = Drawn(u, h[k])
  OBVIOUS
<1> HIDE DEF step
<1>3. PICK f \in [0 .. l -> Views] : f[0] = v /\ \A k \in 1 .. l : f[k] = step[<<k, f[k - 1]>>]
  <2>1. \E f : Steps(f, l, Views, v, step)
    BY <1>1, Stepwise
  <2> QED
    BY <2>1 DEF Steps
<1>4. \A k \in 1 .. l : k - 1 \in 0 .. l /\ f[k - 1] \in Views
  BY <1>3
<1>5. \A k \in 1 .. l : f[k] = Drawn(f[k - 1], h[k])
  BY <1>2, <1>3, <1>4
<1>6. f = [k \in 0 .. l |-> IF k = 0 THEN v ELSE Drawn(f[k - 1], h[k])]
  <2>1. \A k \in 0 .. l : k = 0 \/ k \in 1 .. l
    OBVIOUS
  <2>2. \A k \in 0 .. l : f[k] = IF k = 0 THEN v ELSE Drawn(f[k - 1], h[k])
    BY <1>3, <1>5, <2>1
  <2> QED
    BY <2>2
<1>7. F = [k \in 0 .. l |-> IF k = 0 THEN v ELSE Drawn(F[k - 1], h[k])]
  BY <1>0, <1>6 DEF Drawing
<1> HIDE DEF F
<1>8. F[0] = v
  <2>1. 0 \in 0 .. l
    OBVIOUS
  <2> QED
    BY <1>7, <2>1
<1>9. \A k \in 1 .. l : F[k] = Drawn(F[k - 1], h[k])
  <2>1. \A k \in 1 .. l : k \in 0 .. l /\ k # 0
    OBVIOUS
  <2> QED
    BY <1>7, <2>1
<1>10. \A k \in 0 .. l : F[k] \in Views
  <2> DEFINE G == {k \in 0 .. l : F[k] \in Views}
  <2>1. 0 \in G
    BY <1>8
  <2>2. \A k \in 0 .. l - 1 : k \in G => k + 1 \in G
    <3> SUFFICES ASSUME NEW k \in 0 .. l - 1, k \in G
                 PROVE  k + 1 \in G
      OBVIOUS
    <3>1. k + 1 \in 1 .. l /\ k + 1 - 1 = k /\ k + 1 \in 0 .. l
      OBVIOUS
    <3>2. F[k + 1] = Drawn(F[k], h[k + 1])
      BY <1>9, <3>1
    <3> DEFINE m == h[k + 1]
               u == F[k]
    <3>3. u \in Views /\ Sound(m)
      BY <1>0, <3>1
    <3> HIDE DEF m, u
    <3>4. Drawn(u, m) \in Views
      BY <3>3, DrawnFacts
    <3> QED
      BY <3>1, <3>2, <3>4 DEF m, u
  <2> HIDE DEF G
  <2>3. \A k \in 0 .. l : k \in G
    BY <2>1, <2>2, UpTo
  <2> QED
    BY <2>3 DEF G
<1> QED
  BY <1>0, <1>8, <1>9, <1>10 DEF F, IsDrawing

\* The same mutations make the same of the same drawing.
Continues(G, g, F, h, l, a) == G[a] = F[0] /\ \A k \in 1 .. l : g[a + k] = h[k]
Continued(G, F, l, a) == \A k \in 0 .. l : F[k] = G[a + k]

\* A replay drawn over the board after a mutations gives the boards that come next.
LEMMA DrawingsAgree ==
    ASSUME NEW F, NEW G, NEW v, NEW w, NEW h, NEW g, NEW l \in Nat, NEW n \in Nat,
           NEW a \in Nat, IsDrawing(F, v, h, l), IsDrawing(G, w, g, n), a + l <= n,
           Continues(G, g, F, h, l, a)
    PROVE  Continued(G, F, l, a)
<1> DEFINE E == {k \in 0 .. l : F[k] = G[a + k]}
<1>1. 0 \in E
  BY DEF Continues
<1>2. \A k \in 0 .. l - 1 : k \in E => k + 1 \in E
  <2> SUFFICES ASSUME NEW k \in 0 .. l - 1, k \in E
               PROVE  k + 1 \in E
    OBVIOUS
  <2>1. k + 1 \in 1 .. l /\ k + 1 - 1 = k /\ a + (k + 1) \in 1 .. n /\ a + (k + 1) - 1 = a + k
    OBVIOUS
  <2>2. F[k + 1] = Drawn(F[k], h[k + 1])
    BY <2>1 DEF IsDrawing
  <2>3. G[a + (k + 1)] = Drawn(G[a + k], g[a + (k + 1)])
    BY <2>1 DEF IsDrawing
  <2>4. F[k] = G[a + k] /\ g[a + (k + 1)] = h[k + 1]
    BY <2>1 DEF Continues
  <2>5. F[k + 1] = G[a + (k + 1)]
    BY <2>2, <2>3, <2>4
  <2>6. k + 1 \in 0 .. l
    BY <2>1
  <2> QED
    BY <2>5, <2>6
<1> HIDE DEF E
<1>3. \A k \in 0 .. l : k \in E
  BY <1>1, <1>2, UpTo
<1> QED
  BY <1>3 DEF E, Continued

\* The items of the board when the page opens it
LEMMA OpenedView == Opened \in Views
<1>1. <<<<"stored", 0>>>> \in Contents
  BY DEF Contents, Words
<1>2. Blank \in Contents
  BY DEF Contents, Blank
<1> QED
  BY <1>1, <1>2 DEF Opened, Views

SoundHist == \A k \in DOMAIN hist : Sound(hist[k])

\* The board after each of the accepted mutations
LEMMA BoardFacts ==
    ASSUME hist \in Seq(Mutations), SoundHist
    PROVE  IsDrawing(Board, Opened, hist, Len(hist))
<1>1. Board = Drawing(Opened, hist)
  BY DEF Board, Drawing
<1>2. \A k \in DOMAIN hist : Sound(hist[k])
  BY DEF SoundHist
<1> QED
  BY <1>1, <1>2, DrawingEach, OpenedView

\* The same after a step
LEMMA BoardFactsNext ==
    ASSUME hist' \in Seq(Mutations), SoundHist'
    PROVE  IsDrawing(Board', Opened, hist', Len(hist'))
<1>1. Board' = Drawing(Opened, hist')
  BY DEF Board, Drawing
<1>2. \A k \in DOMAIN hist' : Sound(hist'[k])
  BY DEF SoundHist
<1>3. hist' \in Seq(Mutations)
  OBVIOUS
<1> QED
  BY <1>1, <1>2, <1>3, DrawingEach, OpenedView

\* A mutation that is accepted changes nothing of what the board was before it.
LEMMA BoardGrows ==
    ASSUME hist \in Seq(Mutations), SoundHist, NEW m \in Mutations, Sound(m),
           hist' = Append(hist, m)
    PROVE  /\ hist' \in Seq(Mutations) /\ SoundHist' /\ Len(hist) \in Nat
           /\ Len(hist') = Len(hist) + 1 /\ hist'[Len(hist) + 1] = m
           /\ Len(hist) + 1 \in DOMAIN hist'
           /\ \A k \in DOMAIN hist : k \in DOMAIN hist' /\ hist'[k] = hist[k]
           /\ \A k \in DOMAIN hist' : k \in DOMAIN hist \/ hist'[k] = m
           /\ \A k \in 0 .. Len(hist) : Board'[k] = Board[k]
<1>1. PICK n \in Nat : n = Len(hist) /\ DOMAIN hist = 1 .. n
  BY LenProperties
<1> DEFINE t == Append(hist, m)
<1>2. t \in Seq(Mutations) /\ Len(t) = n + 1 /\ t[n + 1] = m /\ \A k \in 1 .. n : t[k] = hist[k]
  BY <1>1, AppendProperties
<1>3. DOMAIN t = 1 .. n + 1
  BY <1>2, LenProperties
<1> HIDE DEF t
<1>4. hist' = t
  BY DEF t
<1>5. \A k \in DOMAIN t : k \in DOMAIN hist \/ k = n + 1
  BY <1>1, <1>3
<1>6. SoundHist'
  <2>1. \A k \in DOMAIN t : Sound(t[k])
    BY <1>1, <1>2, <1>5 DEF SoundHist
  <2> QED
    BY <1>4, <2>1 DEF SoundHist
<1>7. IsDrawing(Board, Opened, hist, n)
  BY <1>1, BoardFacts
<1>8. IsDrawing(Board', Opened, t, n + 1)
  BY <1>2, <1>4, <1>6, BoardFactsNext
<1>9. \A k \in 0 .. n : Board'[k] = Board[k]
  <2> DEFINE F == Board
             G == Board'
  <2>1. IsDrawing(F, Opened, hist, n) /\ IsDrawing(G, Opened, t, n + 1)
    BY <1>7, <1>8
  <2> HIDE DEF F, G
  <2>2. G[0] = Opened
    BY <2>1 DEF IsDrawing
  <2>3. PICK a \in Nat : a = 0
    OBVIOUS
  <2>4. a + n <= n + 1 /\ n + 1 \in Nat /\ n \in Nat
    BY <2>3
  <2>7. Continues(G, t, F, hist, n, a)
    BY <1>2, <2>1, <2>2, <2>3 DEF Continues, IsDrawing
  <2>8. Continued(G, F, n, a)
    BY <2>1, <2>4, <2>7, DrawingsAgree
  <2>5. \A k \in 0 .. n : F[k] = G[a + k]
    BY <2>8 DEF Continued
  <2>6. \A k \in 0 .. n : F[k] = G[k]
    BY <2>3, <2>5
  <2> QED
    BY <2>6 DEF F, G
<1> QED
  BY <1>1, <1>2, <1>3, <1>4, <1>5, <1>6, <1>9

\* Nothing is drawn ahead.
LEMMA StackEmpty ==
    ASSUME NEW j, Len(j) = 0, NEW b, NEW v
    PROVE  /\ Stack(j, b, v) => b = v
           /\ v \in Views => Stack(j, v, v)
<1>1. ASSUME Stack(j, b, v)
      PROVE  b = v
  BY <1>1 DEF Stack, IsStack
<1>2. ASSUME v \in Views
      PROVE  Stack(j, v, v)
  <2> DEFINE D == [k \in 0 .. 0 |-> v]
  <2>1. D \in [0 .. 0 -> Views] /\ D[0] = v
    BY <1>2
  <2>2. \A k \in 1 .. 0 : FALSE
    OBVIOUS
  <2> HIDE DEF D
  <2>3. IsStack(D, 0, j, v, v)
    BY <2>1, <2>2 DEF IsStack
  <2> QED
    BY <2>3 DEF Stack
<1> QED
  BY <1>1, <1>2

\* A journal without entries
LEMMA JournalEmpty ==
    ASSUME NEW p, PageInv(p), Len(p.journal) = 0
    PROVE  /\ \A k \in DOMAIN p.journal : FALSE
           /\ \A k \in DOMAIN p.buffer : p.buffer[k].redraw
           /\ \A b : Follows(p, b) /\ ~p.crossed => p.view = b
           /\ Follows(p, p.view)
<1>1. p.journal \in Journals /\ p.view \in Views
  BY DEF PageInv
<1>2. PICK n \in Nat : n = Len(p.journal) /\ DOMAIN p.journal = 1 .. n
  BY <1>1, JournalFacts
<1>3. \A k \in DOMAIN p.journal : FALSE
  BY <1>2
<1>4. \A k \in DOMAIN p.buffer : p.buffer[k].redraw
  BY <1>3 DEF PageInv, Matching
<1>5. \A b : Follows(p, b) /\ ~p.crossed => p.view = b
  BY StackEmpty DEF Follows
<1>6. Stack(p.journal, p.view, p.view)
  BY <1>1, StackEmpty
<1>7. Follows(p, p.view)
  BY <1>3, <1>6 DEF Follows, HeldApart, HeldOrder, JournalOrder
<1> QED
  BY <1>3, <1>4, <1>5, <1>7

\* processIncomingBroadcast of a replay: a page without a journal goes on to the board
\* as it is after the replayed mutations.
LEMMA ReplayedKeeps ==
    ASSUME NEW p, IsPage(p), PageInv(p), Len(p.journal) = 0,
           NEW b, b.ms \in Seq(Mutations), \A k \in DOMAIN b.ms : Sound(b.ms[k]),
           NEW F, NEW w, NEW h, NEW n \in Nat, IsDrawing(F, w, h, n)
    PROVE  /\ IsPage(Replayed(p, b)) /\ PageInv(Replayed(p, b))
           /\ Replayed(p, b).seq = p.seq + Len(b.ms) /\ ~Replayed(p, b).awaiting
           /\ Replayed(p, b).paused = p.paused /\ Replayed(p, b).inbox = p.inbox
           /\ Replayed(p, b).waiting = p.waiting
           /\ Sub(Replayed(p, b).buffer, p.buffer)
           /\ Len(Replayed(p, b).journal) = 0
           /\ /\ p.seq + Len(b.ms) <= n /\ \A k \in DOMAIN b.ms : h[p.seq + k] = b.ms[k]
              /\ Follows(p, F[p.seq])
              => Follows(Replayed(p, b), F[p.seq + Len(b.ms)])
<1>1. PICK l \in Nat : l = Len(b.ms) /\ DOMAIN b.ms = 1 .. l
  BY LenProperties
<1> DEFINE D == Drawing(p.view, b.ms)
           v == D[l]
           c == PruneBuffer(p.buffer, b.ms)
           q == Replayed(p, b)
<1>2. /\ p.journal \in Journals /\ Distinct(p.journal) /\ p.view \in Views
      /\ p.crossed \in BOOLEAN /\ BufferOk(p.buffer) /\ Matching(p.journal, p.buffer)
      /\ p.buffer \in Seq(Writes) /\ Distinct(p.buffer) /\ p.seq \in Nat
  BY DEF PageInv, IsPage
<1>3. q = [p EXCEPT !.view = v, !.seq = p.seq + l, !.awaiting = FALSE, !.buffer = c]
  BY <1>1 DEF Replayed, Drawing
<1>4. IsDrawing(D, p.view, b.ms, l)
  BY <1>1, <1>2, DrawingEach
<1>5. /\ c \in Seq(Writes) /\ Distinct(c) /\ Sub(c, p.buffer)
  BY <1>2, PruneBufferFacts
<1>6. BufferOk(c)
  <2> DEFINE K == {k \in DOMAIN p.buffer : ~\E x \in DOMAIN b.ms : Voids(b.ms[x], p.buffer[k].m)}
  <2>1. K \subseteq DOMAIN p.buffer /\ c = Part(p.buffer, K)
    BY DEF PruneBuffer
  <2> HIDE DEF K, c
  <2> QED
    BY <1>2, <2>1, BufferPart
<1> HIDE DEF D, v, c, q
<1>7. /\ q.view = v /\ q.seq = p.seq + l /\ ~q.awaiting /\ q.buffer = c
      /\ q.journal = p.journal /\ q.crossed = p.crossed /\ q.paused = p.paused
      /\ q.inbox = p.inbox /\ q.waiting = p.waiting /\ DOMAIN q = PageFields
      /\ q.awaiting = FALSE
  BY <1>3 DEF IsPage, PageFields
<1>8. IsPage(q)
  <2>1. q.seq \in Nat
    BY <1>2, <1>7
  <2> QED
    BY <1>5, <1>7, <2>1 DEF IsPage
<1>9. v \in Views
  <2>1. l \in 0 .. l
    OBVIOUS
  <2> QED
    BY <1>4, <2>1 DEF IsDrawing, v
<1>10. /\ \A k \in DOMAIN p.journal : FALSE
       /\ \A k \in DOMAIN p.buffer : p.buffer[k].redraw
  BY JournalEmpty
<1>11. Matching(q.journal, c)
  BY <1>5, <1>7, <1>10 DEF Matching, Sub
<1>12. PageInv(q)
  BY <1>2, <1>6, <1>7, <1>9, <1>11 DEF PageInv
<1>13. Len(q.journal) = 0
  BY <1>7
<1>14. Follows(q, v)
  BY <1>7, <1>12, <1>13, JournalEmpty
<1>15. ASSUME Follows(p, F[p.seq]), ~q.crossed, p.seq + l <= n,
              \A k \in DOMAIN b.ms : h[p.seq + k] = b.ms[k]
       PROVE  v = F[p.seq + l]
  <2>1. p.view = F[p.seq]
    BY <1>7, <1>15, JournalEmpty
  <2>2. Continues(F, h, D, b.ms, l, p.seq)
    BY <1>1, <1>4, <1>15, <2>1 DEF Continues, IsDrawing
  <2>3. p.seq + l <= n
    BY <1>15
  <2>4. Continued(F, D, l, p.seq)
    BY <1>1, <1>2, <1>4, <2>2, <2>3, DrawingsAgree
  <2>5. l \in 0 .. l
    OBVIOUS
  <2> QED
    BY <2>4, <2>5 DEF Continued, v
<1>16. /\ p.seq + l <= n /\ \A k \in DOMAIN b.ms : h[p.seq + k] = b.ms[k]
       /\ Follows(p, F[p.seq])
       => Follows(q, F[p.seq + l])
  BY <1>14, <1>15 DEF Follows
<1> QED
  BY <1>1, <1>5, <1>7, <1>8, <1>12, <1>13, <1>16 DEF q

-----------------------------------------------------------------------------
(* What is under way, in its order *)

\* The own mutations that a message answers
Named(msg) ==
    IF msg.kind = "cast" /\ msg.own THEN {msg.m.id}
    ELSE IF msg.kind = "rejected" THEN {msg.id} ELSE {}
Names(msgs) == [k \in DOMAIN msgs |-> Named(msgs[k])]
Asked(ms) == [k \in DOMAIN ms |-> {ms[k].id}]

InOrder(A) == \A j, k \in DOMAIN A : j < k => \A x \in A[j], y \in A[k] : x[2] > y[2]
Ahead(A, B) == \A j \in DOMAIN A, k \in DOMAIN B : \A x \in A[j], y \in B[k] : x[2] > y[2]
Has(A, x) == \E k \in DOMAIN A : x \in A[k]

\* What the page is to hear (I is in its queue, D on its way) and what the server is
\* to answer (U) comes in the order in which it was drawn, before what is queued;
\* what is in flight is among it.
Among(A, b, low) ==
    \A j \in DOMAIN A : \A x \in A[j] :
        x[2] > low /\ \A k \in DOMAIN b : b[k].queued => x[2] > Num(b[k].m)
PipeOk(I, D, U, b, low) ==
    /\ InOrder(I) /\ InOrder(D) /\ InOrder(U)
    /\ Ahead(I, D) /\ Ahead(I, U) /\ Ahead(D, U)
    /\ Among(I, b, low) /\ Among(D, b, low) /\ Among(U, b, low)
    /\ \A k \in DOMAIN b : ~b[k].queued =>
          Has(I, b[k].m.id) \/ Has(D, b[k].m.id) \/ Has(U, b[k].m.id)

Popping(B, A) ==
    /\ 1 \in DOMAIN A
    /\ \A k \in DOMAIN B : k \in Nat /\ k + 1 \in DOMAIN A /\ B[k] = A[k + 1] /\ 1 < k + 1
    /\ \A k \in DOMAIN A : k = 1 \/ (k - 1 \in DOMAIN B /\ B[k - 1] = A[k])
Pushing(B, A, S) ==
    /\ \A k \in DOMAIN A : k \in DOMAIN B /\ B[k] = A[k]
    /\ \E l \in DOMAIN B :
          /\ B[l] = S /\ l \in Nat
          /\ \A k \in DOMAIN B : k \in Nat /\ k <= l /\ (k = l \/ (k \in DOMAIN A /\ B[k] = A[k]))
Passing(B, A, E, C) == Popping(E, C) /\ Pushing(B, A, C[1])

\* What is heard, or answered by the server, leaves its queue.
LEMMA NamesPop ==
    ASSUME NEW S, NEW s \in Seq(S), s # << >>
    PROVE  /\ Popping(Names(Tail(s)), Names(s)) /\ Names(s)[1] = Named(Head(s))
           /\ Popping(Asked(Tail(s)), Asked(s)) /\ Asked(s)[1] = {Head(s).id}
<1> DEFINE t == Tail(s)
<1>1. /\ Head(s) = s[1] /\ 1 \in DOMAIN s
      /\ \A k \in DOMAIN t : k \in Nat /\ k + 1 \in DOMAIN s /\ t[k] = s[k + 1] /\ k + 1 # 1
      /\ \A k \in DOMAIN s : k \in Nat /\ (k = 1 \/ (k - 1 \in DOMAIN t /\ t[k - 1] = s[k]))
  BY Popped
<1> HIDE DEF t
<1>2. \A k \in DOMAIN t : 1 < k + 1
  BY <1>1
<1>3. Popping(Names(t), Names(s)) /\ Names(s)[1] = Named(Head(s))
  BY <1>1, <1>2 DEF Popping, Names
<1>4. Popping(Asked(t), Asked(s)) /\ Asked(s)[1] = {Head(s).id}
  BY <1>1, <1>2 DEF Popping, Asked
<1> QED
  BY <1>3, <1>4 DEF t

\* What is queued comes last.
LEMMA NamesPush ==
    ASSUME NEW S, NEW s \in Seq(S), NEW e \in S
    PROVE  Pushing(Names(Append(s, e)), Names(s), Named(e))
<1> DEFINE t == Append(s, e)
<1>1. /\ t \in Seq(S)
      /\ \A k \in DOMAIN s : k \in DOMAIN t /\ t[k] = s[k]
  BY Appended
<1>2. PICK l \in DOMAIN t : /\ l \notin DOMAIN s /\ t[l] = e
                            /\ \A k \in DOMAIN t : k <= l /\ (k \in DOMAIN s \/ k = l)
  BY Appended
<1>3. \A k \in DOMAIN t : k \in Nat
  BY <1>1, LenProperties
<1> HIDE DEF t
<1>4. DOMAIN Names(t) = DOMAIN t /\ DOMAIN Names(s) = DOMAIN s
      /\ (\A k \in DOMAIN t : Names(t)[k] = Named(t[k]))
      /\ (\A k \in DOMAIN s : Names(s)[k] = Named(s[k]))
  BY DEF Names
<1>5. \A k \in DOMAIN s : Names(t)[k] = Names(s)[k]
  BY <1>1, <1>4
<1>6. \A k \in DOMAIN t : k = l \/ (k \in DOMAIN s /\ Names(t)[k] = Names(s)[k])
  BY <1>2, <1>5
<1>7. Names(t)[l] = Named(e)
  BY <1>2, <1>4
<1> QED
  BY <1>1, <1>2, <1>3, <1>4, <1>5, <1>6, <1>7 DEF Pushing, t

\* What is at the head of one queue goes to the end of the one before it.
LEMMA PushKeeps ==
    ASSUME NEW A, NEW B, NEW C, NEW E, InOrder(A), InOrder(C), Ahead(A, C),
           Passing(B, A, E, C)
    PROVE  /\ InOrder(B) /\ InOrder(E) /\ Ahead(B, E)
           /\ \A x : Has(A, x) \/ Has(C, x) => Has(B, x) \/ Has(E, x)
           /\ \A b, low : Among(A, b, low) /\ Among(C, b, low) =>
                             Among(B, b, low) /\ Among(E, b, low)
           /\ \A F : Ahead(A, F) /\ Ahead(C, F) => Ahead(B, F) /\ Ahead(E, F)
           /\ \A F : Ahead(F, A) /\ Ahead(F, C) => Ahead(F, B) /\ Ahead(F, E)
<1>1. PICK l \in DOMAIN B :
         /\ B[l] = C[1] /\ l \in Nat
         /\ \A k \in DOMAIN B : k \in Nat /\ k <= l /\ (k = l \/ (k \in DOMAIN A /\ B[k] = A[k]))
  BY DEF Passing, Pushing
<1>2. \A k \in DOMAIN A : k \in DOMAIN B /\ B[k] = A[k]
  BY DEF Passing, Pushing
<1>3. /\ 1 \in DOMAIN C
      /\ \A k \in DOMAIN E : k \in Nat /\ k + 1 \in DOMAIN C /\ E[k] = C[k + 1] /\ 1 < k + 1
      /\ \A k \in DOMAIN C : k = 1 \/ (k - 1 \in DOMAIN E /\ E[k - 1] = C[k])
  BY DEF Passing, Popping
<1>4. InOrder(B)
  <2>1. SUFFICES ASSUME NEW j \in DOMAIN B, NEW k \in DOMAIN B, j < k,
                        NEW x \in B[j], NEW y \in B[k]
                 PROVE  x[2] > y[2]
    BY DEF InOrder
  <2>2. j # l /\ j \in DOMAIN A /\ x \in A[j]
    BY <1>1, <2>1
  <2>3. CASE k = l
    BY <1>1, <1>3, <2>2, <2>3 DEF Ahead
  <2>4. CASE k # l
    BY <1>1, <2>1, <2>2, <2>4 DEF InOrder
  <2> QED
    BY <2>3, <2>4
<1>5. InOrder(E)
  <2>1. SUFFICES ASSUME NEW j \in DOMAIN E, NEW k \in DOMAIN E, j < k,
                        NEW x \in E[j], NEW y \in E[k]
                 PROVE  x[2] > y[2]
    BY DEF InOrder
  <2>2. j + 1 \in DOMAIN C /\ k + 1 \in DOMAIN C /\ j + 1 < k + 1
        /\ x \in C[j + 1] /\ y \in C[k + 1]
    BY <1>3, <2>1
  <2> QED
    BY <2>2 DEF InOrder
<1>6. Ahead(B, E)
  <2>1. SUFFICES ASSUME NEW j \in DOMAIN B, NEW k \in DOMAIN E, NEW x \in B[j], NEW y \in E[k]
                 PROVE  x[2] > y[2]
    BY DEF Ahead
  <2>2. k + 1 \in DOMAIN C /\ y \in C[k + 1] /\ 1 < k + 1
    BY <1>3
  <2>3. CASE j = l
    BY <1>1, <1>3, <2>2, <2>3 DEF InOrder
  <2>4. CASE j # l
    BY <1>1, <2>2, <2>4 DEF Ahead
  <2> QED
    BY <2>3, <2>4
<1>7. \A x : Has(A, x) => Has(B, x)
  BY <1>2 DEF Has
<1>8. \A x : Has(C, x) => Has(B, x) \/ Has(E, x)
  <2>1. SUFFICES ASSUME NEW x, NEW k \in DOMAIN C, x \in C[k]
                 PROVE  Has(B, x) \/ Has(E, x)
    BY DEF Has
  <2> QED
    BY <1>1, <1>3, <2>1 DEF Has
<1>9. /\ \A k \in DOMAIN B : (\E j \in DOMAIN A : B[k] = A[j]) \/ B[k] = C[1]
      /\ \A k \in DOMAIN E : \E j \in DOMAIN C : E[k] = C[j]
  BY <1>1, <1>3
<1>10. ASSUME NEW b, NEW low, Among(A, b, low), Among(C, b, low)
       PROVE  Among(B, b, low) /\ Among(E, b, low)
  BY <1>3, <1>9, <1>10 DEF Among
<1>11. ASSUME NEW F, Ahead(A, F), Ahead(C, F)
       PROVE  Ahead(B, F) /\ Ahead(E, F)
  BY <1>3, <1>9, <1>11 DEF Ahead
<1>12. ASSUME NEW F, Ahead(F, A), Ahead(F, C)
       PROVE  Ahead(F, B) /\ Ahead(F, E)
  BY <1>3, <1>9, <1>12 DEF Ahead
<1> QED
  BY <1>4, <1>5, <1>6, <1>7, <1>8, <1>10, <1>11, <1>12

\* What is at the head of a queue leaves it.
LEMMA PopKeeps ==
    ASSUME NEW C, NEW E, Popping(E, C)
    PROVE  /\ InOrder(C) => InOrder(E)
           /\ \A x : Has(C, x) => x \in C[1] \/ Has(E, x)
           /\ \A b, low : Among(C, b, low) => Among(E, b, low)
           /\ \A F : Ahead(C, F) => Ahead(E, F)
           /\ \A F : Ahead(F, C) => Ahead(F, E)
<1>3. /\ 1 \in DOMAIN C
      /\ \A k \in DOMAIN E : k \in Nat /\ k + 1 \in DOMAIN C /\ E[k] = C[k + 1] /\ 1 < k + 1
      /\ \A k \in DOMAIN C : k = 1 \/ (k - 1 \in DOMAIN E /\ E[k - 1] = C[k])
  BY DEF Popping
<1>5. ASSUME InOrder(C)
      PROVE  InOrder(E)
  <2>1. SUFFICES ASSUME NEW j \in DOMAIN E, NEW k \in DOMAIN E, j < k,
                        NEW x \in E[j], NEW y \in E[k]
                 PROVE  x[2] > y[2]
    BY DEF InOrder
  <2>2. j + 1 \in DOMAIN C /\ k + 1 \in DOMAIN C /\ j + 1 < k + 1
        /\ x \in C[j + 1] /\ y \in C[k + 1]
    BY <1>3, <2>1
  <2> QED
    BY <1>5, <2>2 DEF InOrder
<1>8. \A x : Has(C, x) => x \in C[1] \/ Has(E, x)
  BY <1>3 DEF Has
<1>9. \A k \in DOMAIN E : \E j \in DOMAIN C : E[k] = C[j]
  BY <1>3
<1>10. ASSUME NEW b, NEW low, Among(C, b, low)
       PROVE  Among(E, b, low)
  BY <1>9, <1>10 DEF Among
<1>11. ASSUME NEW F, Ahead(C, F)
       PROVE  Ahead(E, F)
  BY <1>9, <1>11 DEF Ahead
<1>12. ASSUME NEW F, Ahead(F, C)
       PROVE  Ahead(F, E)
  BY <1>9, <1>12 DEF Ahead
<1> QED
  BY <1>5, <1>8, <1>10, <1>11, <1>12

\* The server answers.
LEMMA PipeAnswer ==
    ASSUME NEW I, NEW D, NEW U, NEW b, NEW low, PipeOk(I, D, U, b, low),
           NEW E, NEW V, Passing(E, D, V, U)
    PROVE  PipeOk(I, E, V, b, low)
<1>1. /\ InOrder(I) /\ InOrder(D) /\ InOrder(U)
      /\ Ahead(I, D) /\ Ahead(I, U) /\ Ahead(D, U)
      /\ Among(I, b, low) /\ Among(D, b, low) /\ Among(U, b, low)
      /\ \A k \in DOMAIN b : ~b[k].queued =>
            Has(I, b[k].m.id) \/ Has(D, b[k].m.id) \/ Has(U, b[k].m.id)
  BY DEF PipeOk
<1>3. /\ InOrder(E) /\ InOrder(V) /\ Ahead(E, V)
      /\ \A x : Has(D, x) \/ Has(U, x) => Has(E, x) \/ Has(V, x)
      /\ \A d, l : Among(D, d, l) /\ Among(U, d, l) => Among(E, d, l) /\ Among(V, d, l)
      /\ \A F : Ahead(D, F) /\ Ahead(U, F) => Ahead(E, F) /\ Ahead(V, F)
      /\ \A F : Ahead(F, D) /\ Ahead(F, U) => Ahead(F, E) /\ Ahead(F, V)
  <2>1. InOrder(D) /\ InOrder(U) /\ Ahead(D, U)
    BY <1>1
  <2> QED
    BY <2>1, PushKeeps
<1>2. /\ InOrder(E) /\ InOrder(V) /\ Ahead(E, V)
      /\ \A x : Has(D, x) \/ Has(U, x) => Has(E, x) \/ Has(V, x)
      /\ Among(E, b, low) /\ Among(V, b, low) /\ Ahead(I, E) /\ Ahead(I, V)
  BY <1>1, <1>3
<1> QED
  BY <1>1, <1>2 DEF PipeOk

\* A message waits for the one that waits for its tool.
LEMMA PipeQueue ==
    ASSUME NEW I, NEW D, NEW U, NEW b, NEW low, PipeOk(I, D, U, b, low),
           NEW E, NEW V, Passing(E, I, V, D)
    PROVE  PipeOk(E, V, U, b, low)
<1>1. /\ InOrder(I) /\ InOrder(D) /\ InOrder(U)
      /\ Ahead(I, D) /\ Ahead(I, U) /\ Ahead(D, U)
      /\ Among(I, b, low) /\ Among(D, b, low) /\ Among(U, b, low)
      /\ \A k \in DOMAIN b : ~b[k].queued =>
            Has(I, b[k].m.id) \/ Has(D, b[k].m.id) \/ Has(U, b[k].m.id)
  BY DEF PipeOk
<1>3. /\ InOrder(E) /\ InOrder(V) /\ Ahead(E, V)
      /\ \A x : Has(I, x) \/ Has(D, x) => Has(E, x) \/ Has(V, x)
      /\ \A d, l : Among(I, d, l) /\ Among(D, d, l) => Among(E, d, l) /\ Among(V, d, l)
      /\ \A F : Ahead(I, F) /\ Ahead(D, F) => Ahead(E, F) /\ Ahead(V, F)
      /\ \A F : Ahead(F, I) /\ Ahead(F, D) => Ahead(F, E) /\ Ahead(F, V)
  <2>1. InOrder(I) /\ InOrder(D) /\ Ahead(I, D)
    BY <1>1
  <2> QED
    BY <2>1, PushKeeps
<1>2. /\ InOrder(E) /\ InOrder(V) /\ Ahead(E, V)
      /\ \A x : Has(I, x) \/ Has(D, x) => Has(E, x) \/ Has(V, x)
      /\ Among(E, b, low) /\ Among(V, b, low) /\ Ahead(E, U) /\ Ahead(V, U)
  BY <1>1, <1>3
<1> QED
  BY <1>1, <1>2 DEF PipeOk

\* What stays in the buffer when the mutations S are answered
Leaves(c, b, S) == Sub(c, b) /\ \A k \in DOMAIN c : c[k].m.id \notin S

\* Writes that leave the buffer take nothing from what is said of those under way.
LEMMA AmongFewer ==
    ASSUME NEW A, NEW b, NEW c, NEW low, Sub(c, b), Among(A, b, low)
    PROVE  Among(A, c, low)
BY DEF Sub, Among

\* A message from the connection is applied.
LEMMA PipeHeard ==
    ASSUME NEW I, NEW D, NEW U, NEW b, NEW low, PipeOk(I, D, U, b, low),
           NEW E, Popping(E, D), NEW c, Leaves(c, b, D[1])
    PROVE  PipeOk(I, E, U, c, low)
<1>1. /\ InOrder(I) /\ InOrder(D) /\ InOrder(U)
      /\ Ahead(I, D) /\ Ahead(I, U) /\ Ahead(D, U)
      /\ Among(I, b, low) /\ Among(D, b, low) /\ Among(U, b, low)
      /\ \A k \in DOMAIN b : ~b[k].queued =>
            Has(I, b[k].m.id) \/ Has(D, b[k].m.id) \/ Has(U, b[k].m.id)
  BY DEF PipeOk
<1>2. /\ InOrder(E) /\ Ahead(I, E) /\ Ahead(E, U) /\ Among(E, b, low)
      /\ \A x : Has(D, x) => x \in D[1] \/ Has(E, x)
  BY <1>1, PopKeeps
<1>3. Among(I, c, low) /\ Among(E, c, low) /\ Among(U, c, low)
  BY <1>1, <1>2, AmongFewer DEF Leaves
<1>4. \A k \in DOMAIN c : ~c[k].queued =>
         Has(I, c[k].m.id) \/ Has(E, c[k].m.id) \/ Has(U, c[k].m.id)
  BY <1>1, <1>2 DEF Leaves, Sub
<1> QED
  BY <1>1, <1>2, <1>3, <1>4 DEF PipeOk

\* A message from the queue is applied.
LEMMA PipeDrained ==
    ASSUME NEW I, NEW D, NEW U, NEW b, NEW low, PipeOk(I, D, U, b, low),
           NEW E, Popping(E, I), NEW c, Leaves(c, b, I[1])
    PROVE  PipeOk(E, D, U, c, low)
<1>1. /\ InOrder(I) /\ InOrder(D) /\ InOrder(U)
      /\ Ahead(I, D) /\ Ahead(I, U) /\ Ahead(D, U)
      /\ Among(I, b, low) /\ Among(D, b, low) /\ Among(U, b, low)
      /\ \A k \in DOMAIN b : ~b[k].queued =>
            Has(I, b[k].m.id) \/ Has(D, b[k].m.id) \/ Has(U, b[k].m.id)
  BY DEF PipeOk
<1>2. /\ InOrder(E) /\ Ahead(E, D) /\ Ahead(E, U) /\ Among(E, b, low)
      /\ \A x : Has(I, x) => x \in I[1] \/ Has(E, x)
  BY <1>1, PopKeeps
<1>3. Among(E, c, low) /\ Among(D, c, low) /\ Among(U, c, low)
  BY <1>1, <1>2, AmongFewer DEF Leaves
<1>4. \A k \in DOMAIN c : ~c[k].queued =>
         Has(E, c[k].m.id) \/ Has(D, c[k].m.id) \/ Has(U, c[k].m.id)
  BY <1>1, <1>2 DEF Leaves, Sub
<1> QED
  BY <1>1, <1>2, <1>3, <1>4 DEF PipeOk

\* Somebody else's mutation is cast.
LEMMA PipeOther ==
    ASSUME NEW I, NEW D, NEW U, NEW b, NEW low, PipeOk(I, D, U, b, low),
           NEW E, Pushing(E, D, {})
    PROVE  PipeOk(I, E, U, b, low)
<1>1. /\ InOrder(I) /\ InOrder(D) /\ InOrder(U)
      /\ Ahead(I, D) /\ Ahead(I, U) /\ Ahead(D, U)
      /\ Among(I, b, low) /\ Among(D, b, low) /\ Among(U, b, low)
      /\ \A k \in DOMAIN b : ~b[k].queued =>
            Has(I, b[k].m.id) \/ Has(D, b[k].m.id) \/ Has(U, b[k].m.id)
  BY DEF PipeOk
<1>2. \A k \in DOMAIN E : \A x \in E[k] : k \in DOMAIN D /\ x \in D[k]
  BY DEF Pushing
<1>3. \A k \in DOMAIN D : k \in DOMAIN E /\ E[k] = D[k]
  BY DEF Pushing
<1>4. InOrder(E)
  <2>1. SUFFICES ASSUME NEW j \in DOMAIN E, NEW k \in DOMAIN E, j < k,
                        NEW x \in E[j], NEW y \in E[k]
                 PROVE  x[2] > y[2]
    BY DEF InOrder
  <2>2. j \in DOMAIN D /\ x \in D[j] /\ k \in DOMAIN D /\ y \in D[k]
    BY <1>2
  <2> QED
    BY <1>1, <2>1, <2>2 DEF InOrder
<1>5. Ahead(I, E)
  BY <1>1, <1>2 DEF Ahead
<1>6. Ahead(E, U)
  BY <1>1, <1>2 DEF Ahead
<1>7. Among(E, b, low)
  BY <1>1, <1>2 DEF Among
<1>8. \A x : Has(D, x) => Has(E, x)
  BY <1>3 DEF Has
<1> QED
  BY <1>1, <1>4, <1>5, <1>6, <1>7, <1>8 DEF PipeOk

\* Nothing in the buffer is newer than what is answered first.
LEMMA PipeFirst ==
    ASSUME NEW I, NEW D, NEW U, NEW b, NEW low, PipeOk(I, D, U, b, low),
           NEW A, A = I \/ (A = D /\ \A k \in DOMAIN I : FALSE),
           DOMAIN A \subseteq Nat \ {0}, 1 \in DOMAIN A,
           NEW x, A[1] = {x}, x[2] \in Nat, \A k \in DOMAIN b : Num(b[k].m) \in Nat
    PROVE  \A k \in DOMAIN b : ~(Num(b[k].m) > x[2])
<1>1. /\ InOrder(A) /\ Among(A, b, low)
      /\ A = I \/ (A = D /\ \A y : ~Has(I, y))
      /\ A = I => Ahead(A, D)
      /\ Ahead(A, U)
      /\ \A k \in DOMAIN b : ~b[k].queued =>
            Has(I, b[k].m.id) \/ Has(D, b[k].m.id) \/ Has(U, b[k].m.id)
  <2>1. A = I \/ (A = D /\ \A y : ~Has(I, y))
    BY DEF Has
  <2> QED
    BY <2>1 DEF PipeOk
<1>2. SUFFICES ASSUME NEW k \in DOMAIN b
               PROVE  ~(Num(b[k].m) > x[2])
  OBVIOUS
<1>3. CASE b[k].queued
  BY <1>1, <1>3 DEF Among
<1>4. CASE ~b[k].queued
  <2> DEFINE y == b[k].m.id
  <2>1. Num(b[k].m) = y[2]
    BY DEF Num
  <2>2. Has(A, y) \/ (A = I /\ Has(D, y)) \/ Has(U, y)
    BY <1>1, <1>4
  <2> HIDE DEF y
  <2>3. CASE Has(A, y)
    <3>1. PICK l \in DOMAIN A : y \in A[l]
      BY <2>3 DEF Has
    <3>2. l = 1 \/ 1 < l
      <4>1. l \in Nat \ {0}
        OBVIOUS
      <4> QED
        BY <4>1
    <3>3. l = 1 => y = x
      BY <3>1
    <3>4. 1 < l => x[2] > y[2]
      BY <1>1, <3>1 DEF InOrder
    <3> QED
      BY <2>1, <3>2, <3>3, <3>4
  <2>4. CASE (A = I /\ Has(D, y)) \/ Has(U, y)
    <3>1. x[2] > y[2]
      BY <1>1, <2>4 DEF Has, Ahead
    <3> QED
      BY <2>1, <3>1
  <2> QED
    BY <2>2, <2>3, <2>4
<1> QED
  BY <1>3, <1>4

Numbered(A) == \A k \in DOMAIN A : \A x \in A[k] : x[2] \in Nat

\* A new write is buffered.
LEMMA PipeBuffers ==
    ASSUME NEW I, NEW D, NEW U, NEW b \in Seq(Writes), NEW low \in Nat, PipeOk(I, D, U, b, low),
           Numbered(I), Numbered(D), Numbered(U),
           NEW w \in Writes, w.queued, Num(w.m) = low, NEW next \in Nat, next < low
    PROVE  PipeOk(I, D, U, Append(b, w), next)
<1> DEFINE c == Append(b, w)
<1>1. /\ InOrder(I) /\ InOrder(D) /\ InOrder(U)
      /\ Ahead(I, D) /\ Ahead(I, U) /\ Ahead(D, U)
      /\ Among(I, b, low) /\ Among(D, b, low) /\ Among(U, b, low)
      /\ \A k \in DOMAIN b : ~b[k].queued =>
            Has(I, b[k].m.id) \/ Has(D, b[k].m.id) \/ Has(U, b[k].m.id)
  BY DEF PipeOk
<1>2. \A k \in DOMAIN c : c[k] = w \/ (k \in DOMAIN b /\ c[k] = b[k])
  BY Appended
<1> HIDE DEF c
<1>3. ASSUME NEW A, Numbered(A), Among(A, b, low)
      PROVE  Among(A, c, next)
  <2>1. SUFFICES ASSUME NEW j \in DOMAIN A, NEW x \in A[j]
                 PROVE  x[2] > next /\ \A k \in DOMAIN c : c[k].queued => x[2] > Num(c[k].m)
    BY DEF Among
  <2>2. x[2] \in Nat /\ x[2] > low /\ \A k \in DOMAIN b : b[k].queued => x[2] > Num(b[k].m)
    BY <1>3 DEF Among, Numbered
  <2>3. x[2] > next
    BY <2>2
  <2> QED
    BY <1>2, <2>2, <2>3
<1>4. Among(I, c, next) /\ Among(D, c, next) /\ Among(U, c, next)
  BY <1>1, <1>3
<1>5. \A k \in DOMAIN c : ~c[k].queued =>
         Has(I, c[k].m.id) \/ Has(D, c[k].m.id) \/ Has(U, c[k].m.id)
  BY <1>1, <1>2
<1> QED
  BY <1>1, <1>4, <1>5 DEF PipeOk, c

\* One list of mutations after another
LEMMA AskedBoth ==
    ASSUME NEW S, NEW s \in Seq(S), NEW t \in Seq(S)
    PROVE  \E n \in Nat :
              /\ \A k \in DOMAIN Asked(s \o t) :
                    \/ k \in DOMAIN s /\ Asked(s \o t)[k] = {s[k].id} /\ k \in Nat /\ k <= n
                    \/ /\ k - n \in DOMAIN t /\ Asked(s \o t)[k] = {t[k - n].id}
                       /\ k \in Nat /\ k > n
              /\ \A k \in DOMAIN s : Has(Asked(s \o t), s[k].id)
              /\ \A k \in DOMAIN t : Has(Asked(s \o t), t[k].id)
<1>1. PICK n \in Nat : n = Len(s) /\ DOMAIN s = 1 .. n
  BY LenProperties
<1>2. PICK l \in Nat : l = Len(t) /\ DOMAIN t = 1 .. l
  BY LenProperties
<1> DEFINE u == s \o t
<1>3. u \in Seq(S) /\ Len(u) = n + l
      /\ \A k \in 1 .. n + l : u[k] = IF k <= n THEN s[k] ELSE t[k - n]
  BY <1>1, <1>2, ConcatProperties
<1>4. DOMAIN u = 1 .. n + l
  BY <1>3, LenProperties
<1> HIDE DEF u
<1>5. DOMAIN Asked(u) = DOMAIN u /\ \A k \in DOMAIN u : Asked(u)[k] = {u[k].id}
  BY DEF Asked
<1>6. ASSUME NEW k \in 1 .. n + l
      PROVE  \/ k \in DOMAIN s /\ Asked(u)[k] = {s[k].id} /\ k \in Nat /\ k <= n
             \/ /\ k - n \in DOMAIN t /\ Asked(u)[k] = {t[k - n].id}
                /\ k \in Nat /\ k > n
  <2>1. k \in Nat /\ (k <= n => k \in 1 .. n) /\ (~(k <= n) => k - n \in 1 .. l /\ k > n)
    OBVIOUS
  <2> QED
    BY <1>1, <1>2, <1>3, <1>4, <1>5, <2>1
<1>7. \A k \in 1 .. n : Has(Asked(u), s[k].id)
  <2>1. \A k \in 1 .. n : k \in 1 .. n + l /\ k <= n
    OBVIOUS
  <2>2. \A k \in 1 .. n : k \in DOMAIN Asked(u) /\ s[k].id \in Asked(u)[k]
    BY <1>3, <1>4, <1>5, <2>1
  <2> QED
    BY <2>2 DEF Has
<1>8. \A k \in 1 .. l : Has(Asked(u), t[k].id)
  <2>1. \A k \in 1 .. l : k + n \in 1 .. n + l /\ ~(k + n <= n) /\ k + n - n = k
    OBVIOUS
  <2>3. \A k \in 1 .. l : u[k + n] = t[k + n - n]
    BY <1>3, <2>1
  <2>4. \A k \in 1 .. l : u[k + n] = t[k]
    BY <2>1, <2>3
  <2>2. \A k \in 1 .. l : k + n \in DOMAIN Asked(u) /\ t[k].id \in Asked(u)[k + n]
    BY <1>4, <1>5, <2>1, <2>4
  <2> QED
    BY <2>2 DEF Has
<1> QED
  BY <1>1, <1>2, <1>4, <1>5, <1>6, <1>7, <1>8 DEF u

\* pumpBufferedWrites: what is sent goes to the end of what the server is to answer.
LEMMA PipeSends ==
    ASSUME NEW I, NEW D, NEW u \in Seq(OwnMutations), NEW p, CanDraw(p), NEW low \in Nat,
           PipeOk(I, D, Asked(u), p.buffer, low),
           \A k \in DOMAIN p.buffer : Num(p.buffer[k].m) > low, NEW n \in Nat
    PROVE  PipeOk(I, D, Asked(u \o Messages(p, n)), Pumped(p, n).buffer, low)
<1> DEFINE U == Asked(u)
           W == Messages(p, n)
           V == Asked(u \o W)
           E == Emits(p, n)
           K == Emitted(p, n)
           b == p.buffer
           c == Pumped(p, n).buffer
<1>1. /\ InOrder(I) /\ InOrder(D) /\ InOrder(U)
      /\ Ahead(I, D) /\ Ahead(I, U) /\ Ahead(D, U)
      /\ Among(I, b, low) /\ Among(D, b, low) /\ Among(U, b, low)
      /\ \A k \in DOMAIN b : ~b[k].queued =>
            Has(I, b[k].m.id) \/ Has(D, b[k].m.id) \/ Has(U, b[k].m.id)
  BY DEF PipeOk
<1>2. /\ W \in Seq(OwnMutations)
      /\ \A k \in DOMAIN W : \E i \in K : i \in DOMAIN b /\ b[i].queued /\ W[k] = b[i].m
  BY MessagesFacts DEF CanDraw, Emitted
<1>3. DOMAIN W = DOMAIN E /\ \A k \in DOMAIN E : W[k] = E[k].m
  BY DEF Messages, Emits, Emitted
<1>4. /\ Descends(E)
      /\ \A i \in K : \E k \in DOMAIN E : E[k] = b[i]
  BY EmitsFacts
<1>5. /\ DOMAIN c = DOMAIN b
      /\ \A k \in DOMAIN b : /\ c[k].m = b[k].m
                             /\ k \in K => ~c[k].queued
                             /\ k \notin K => c[k] = b[k]
  BY PumpedIs DEF CanDraw
<1>6. ASSUME NEW i \in K, NEW k \in Queued(b), k \notin K
      PROVE  Num(b[i].m) > Num(b[k].m)
  <2>1. i < k
    BY <1>6, EmittedFirst DEF CanDraw
  <2>2. i \in DOMAIN b /\ k \in DOMAIN b
    BY DEF Emitted, First, Queued
  <2>3. \A x, y \in DOMAIN b : x < y => Num(b[x].m) > Num(b[y].m)
    BY DEF CanDraw, BufferOk
  <2> QED
    BY <2>1, <2>2, <2>3
<1>7. U = [k \in DOMAIN u |-> {u[k].id}]
  BY DEF Asked
<1> HIDE DEF W, E, K, c, U
<1>8. PICK a \in Nat :
         /\ \A k \in DOMAIN V :
               \/ k \in DOMAIN u /\ V[k] = {u[k].id} /\ k \in Nat /\ k <= a
               \/ k - a \in DOMAIN W /\ V[k] = {W[k - a].id} /\ k \in Nat /\ k > a
         /\ \A k \in DOMAIN u : Has(V, u[k].id)
         /\ \A k \in DOMAIN W : Has(V, W[k].id)
  BY <1>2, AskedBoth
<1> HIDE DEF V
<1>9. \A k \in DOMAIN V : \A x \in V[k] :
         \/ k \in DOMAIN U /\ x \in U[k] /\ k \in Nat /\ k <= a
         \/ k - a \in DOMAIN W /\ x = W[k - a].id /\ k \in Nat /\ k > a
  BY <1>7, <1>8
<1>10. ASSUME NEW A, Among(A, b, low)
       PROVE  /\ Among(A, c, low)
              /\ \A k \in DOMAIN A, j \in DOMAIN W : \A x \in A[k] : x[2] > W[j].id[2]
  <2>1. Among(A, c, low)
    BY <1>5, <1>10 DEF Among
  <2>2. ASSUME NEW k \in DOMAIN A, NEW x \in A[k], NEW j \in DOMAIN W
        PROVE  x[2] > W[j].id[2]
    BY <1>2, <1>10 DEF Among, Num
  <2> QED
    BY <2>1, <2>2
<1>11. InOrder(V)
  <2>1. SUFFICES ASSUME NEW j \in DOMAIN V, NEW k \in DOMAIN V, j < k,
                        NEW x \in V[j], NEW y \in V[k]
                 PROVE  x[2] > y[2]
    BY DEF InOrder
  <2>2. CASE j \in DOMAIN U /\ x \in U[j] /\ k \in DOMAIN U /\ y \in U[k]
    BY <1>1, <2>1, <2>2 DEF InOrder
  <2>3. CASE j \in DOMAIN U /\ x \in U[j] /\ k - a \in DOMAIN W /\ y = W[k - a].id
    BY <1>1, <1>10, <2>3
  <2>4. CASE j - a \in DOMAIN W /\ x = W[j - a].id /\ k - a \in DOMAIN W /\ y = W[k - a].id
             /\ j \in Nat /\ k \in Nat
    <3>1. j - a < k - a
      BY <2>1, <2>4
    <3>2. Num(E[j - a].m) > Num(E[k - a].m)
      BY <1>3, <1>4, <2>4, <3>1 DEF Descends
    <3> QED
      BY <1>3, <2>4, <3>2 DEF Num
  <2>5. j \in Nat /\ k \in Nat /\ ~(j > a /\ k <= a)
    BY <1>9, <2>1
  <2> QED
    BY <1>9, <2>2, <2>3, <2>4, <2>5
<1>12. Ahead(I, V)
  BY <1>1, <1>9, <1>10 DEF Ahead
<1>13. Ahead(D, V)
  BY <1>1, <1>9, <1>10 DEF Ahead
<1>14. Among(I, c, low) /\ Among(D, c, low) /\ Among(U, c, low)
  BY <1>1, <1>10
<1>15. Among(V, c, low)
  <2>1. SUFFICES ASSUME NEW j \in DOMAIN V, NEW x \in V[j]
                 PROVE  x[2] > low /\ \A k \in DOMAIN c : c[k].queued => x[2] > Num(c[k].m)
    BY DEF Among
  <2>2. CASE j \in DOMAIN U /\ x \in U[j]
    BY <1>14, <2>2 DEF Among
  <2>3. CASE j - a \in DOMAIN W /\ x = W[j - a].id
    <3>1. PICK i \in K : i \in DOMAIN b /\ b[i].queued /\ W[j - a] = b[i].m
      BY <1>2, <2>3
    <3>2. x[2] = Num(b[i].m)
      BY <2>3, <3>1 DEF Num
    <3>3. x[2] > low
      BY <3>1, <3>2
    <3>4. ASSUME NEW k \in DOMAIN c, c[k].queued
          PROVE  x[2] > Num(c[k].m)
      <4>1. k \notin K /\ c[k] = b[k] /\ k \in DOMAIN b
        BY <1>5, <3>4
      <4>2. k \in Queued(b)
        BY <3>4, <4>1 DEF Queued
      <4> QED
        BY <1>6, <3>2, <4>1, <4>2
    <3> QED
      BY <3>3, <3>4
  <2> QED
    BY <1>9, <2>2, <2>3
<1>16. ASSUME NEW k \in DOMAIN c, ~c[k].queued
       PROVE  Has(I, c[k].m.id) \/ Has(D, c[k].m.id) \/ Has(V, c[k].m.id)
  <2>1. k \in DOMAIN b /\ c[k].m = b[k].m
    BY <1>5, <1>16
  <2>2. CASE k \in K
    <3>1. PICK j \in DOMAIN W : W[j] = b[k].m
      BY <1>3, <1>4, <2>2
    <3> QED
      BY <1>8, <2>1, <3>1
  <2>3. CASE k \notin K
    <3>1. ~b[k].queued
      BY <1>5, <1>16, <2>1, <2>3
    <3>2. \A x : Has(U, x) => Has(V, x)
      BY <1>7, <1>8 DEF Has
    <3> QED
      BY <1>1, <2>1, <3>1, <3>2
  <2> QED
    BY <2>2, <2>3
<1> QED
  BY <1>1, <1>11, <1>12, <1>13, <1>14, <1>15, <1>16 DEF PipeOk, V, W, c

-----------------------------------------------------------------------------
(* The invariant of what is drawn *)

\* A mutation that is buffered is the one that was sent and accepted under its number.
Same(b, h, u) ==
    \A k \in DOMAIN b :
        /\ \A j \in DOMAIN h : h[j].id = b[k].m.id => h[j] = b[k].m
        /\ \A j \in DOMAIN u : u[j].id = b[k].m.id => u[j] = b[k].m

\* A cast tells of an accepted mutation, a replay of those the page lacks, and what waits
\* for its tool comes next.
CastOk(c, h) == c.kind = "cast" => c.seq \in DOMAIN h /\ h[c.seq] = c.m
Casting(msgs, h) == \A k \in DOMAIN msgs : CastOk(msgs[k], h)
BatchOk(c, h, n) ==
    c.kind = "batch" => \A i \in DOMAIN c.ms : n + i \in DOMAIN h /\ h[n + i] = c.ms[i]
Batching(msgs, h, n) == \A k \in DOMAIN msgs : BatchOk(msgs[k], h, n)
WaitingOk(w, h, n) == w = << >> \/ \E m : w = <<m>> /\ n + 1 \in DOMAIN h /\ h[n + 1] = m

SoundInv == SoundHist /\ \A k \in DOMAIN up : Sound(up[k])
CastInv ==
    /\ Casting(page.inbox, hist) /\ Casting(down, hist) /\ Batching(down, hist, page.seq)
    /\ WaitingOk(page.waiting, hist, page.seq)
EmptyInv == page.awaiting => Len(page.journal) = 0

\* On a connection the page is where the board was after the mutations it has seen.
Live == link \in {"connecting", "joined"}
PipeInv == PipeOk(Names(page.inbox), Names(down), Asked(up), page.buffer, left.own)
LiveInv ==
    Live => PipeInv /\ page.seq <= Len(hist) /\ Follows(page, Board[page.seq])

FInv ==
    /\ PageInv(page) /\ SoundInv /\ Same(page.buffer, hist, up) /\ CastInv /\ EmptyInv
    /\ LiveInv

-----------------------------------------------------------------------------
(* Each action keeps it *)

\* What the invariant says of a page does not depend on its other fields.
LEMMA AlikePages ==
    ASSUME NEW p, NEW q, q.view = p.view, q.journal = p.journal, q.buffer = p.buffer,
           q.crossed = p.crossed
    PROVE  /\ PageInv(q) <=> PageInv(p)
           /\ \A b : Follows(q, b) <=> Follows(p, b)
BY DEF PageInv, Follows

\* A board that stays
LEMMA BoardStays ==
    ASSUME UNCHANGED hist
    PROVE  Board' = Board /\ (SoundHist <=> SoundHist')
BY DEF Board, SoundHist

\* Fewer writes and messages
LEMMA FewerSame ==
    ASSUME NEW b, NEW c, NEW h, NEW u, NEW t, Same(b, h, u), Sub(c, b), Sub(t, u)
    PROVE  Same(c, h, t)
<1> SUFFICES ASSUME NEW k \in DOMAIN c
             PROVE  /\ \A j \in DOMAIN h : h[j].id = c[k].m.id => h[j] = c[k].m
                    /\ \A j \in DOMAIN t : t[j].id = c[k].m.id => t[j] = c[k].m
  BY DEF Same
<1>1. PICK i \in DOMAIN b : c[k] = b[i]
  BY DEF Sub
<1>2. \A j \in DOMAIN t : \E x \in DOMAIN u : t[j] = u[x]
  BY DEF Sub
<1> QED
  BY <1>1, <1>2 DEF Same

\* Draw: the page goes on by one mutation, or stays where it is.
LEMMA DrawFollows ==
    ASSUME NEW p, IsPage(p), PageInv(p), NEW m, Draw(p, m),
           hist \in Seq(Mutations), SoundHist, p.seq + 1 \in DOMAIN hist, hist[p.seq + 1] = m
    PROVE  /\ PageInv(page') /\ page'.awaiting = p.awaiting
           /\ page'.inbox = p.inbox /\ page'.waiting = p.waiting /\ page'.buffer = p.buffer
           /\ page'.journal = p.journal /\ page'.seq <= Len(hist)
           /\ Follows(p, Board[p.seq]) => Follows(page', Board[page'.seq])
<1>1. PICK n \in Nat : n = Len(hist) /\ DOMAIN hist = 1 .. n
  BY LenProperties
<1>2. p.seq \in Nat /\ p.seq + 1 <= n /\ p.seq + 1 \in 1 .. n /\ p.seq <= n
  BY <1>1 DEF IsPage
<1>3. Sound(m)
  BY DEF SoundHist
<1>4. CASE page' = p
  BY <1>1, <1>2, <1>4
<1>5. CASE page' = Show(p, m)
  <2>1. /\ PageInv(page') /\ page'.seq = p.seq + 1 /\ page'.awaiting = p.awaiting
        /\ page'.inbox = p.inbox /\ page'.waiting = p.waiting /\ page'.buffer = p.buffer
        /\ page'.journal = p.journal
        /\ \A b : Follows(p, b) => Follows(page', Drawn(b, m))
    BY <1>3, <1>5, ShowKeeps
  <2>2. Board[p.seq + 1] = Drawn(Board[p.seq + 1 - 1], hist[p.seq + 1])
    BY <1>1, <1>2, BoardFacts DEF IsDrawing
  <2>3. Board[p.seq + 1] = Drawn(Board[p.seq], m)
    BY <1>2, <2>2
  <2> QED
    BY <1>1, <1>2, <2>1, <2>3
<1> QED
  BY <1>4, <1>5 DEF Draw

\* The same for a mutation that is cast.
Newest(p, c) == c.own => \A k \in DOMAIN p.buffer : ~(Num(p.buffer[k].m) > Num(c.m))

\* The page goes on by one mutation, unless that one waits for its tool; an own one has to
\* be the oldest that was not answered.
LEMMA ApplyCastFollows ==
    ASSUME NEW p, IsPage(p), PageInv(p), p.waiting = << >>,
           NEW c \in Casts, CastOk(c, hist), ApplyCast(p, c),
           hist \in Seq(Mutations), SoundHist, Same(p.buffer, hist, up)
    PROVE  /\ PageInv(page') /\ page'.awaiting = p.awaiting /\ page'.inbox = p.inbox
           /\ Leaves(page'.buffer, p.buffer, Named(c))
           /\ WaitingOk(page'.waiting, hist, page'.seq) /\ page'.seq <= Len(hist)
           /\ Follows(p, Board[p.seq]) /\ Newest(p, c) => Follows(page', Board[page'.seq])
<1>1. PICK n \in Nat : n = Len(hist) /\ DOMAIN hist = 1 .. n
  BY LenProperties
<1>2. /\ c.kind = "cast" /\ c.seq = p.seq + 1 /\ p.seq + 1 \in DOMAIN hist
      /\ hist[p.seq + 1] = c.m /\ p.seq \in Nat
  BY DEF ApplyCast, CastOk, IsPage
<1>3. p.seq + 1 \in 1 .. n /\ p.seq + 1 <= n /\ p.seq <= n
  BY <1>1, <1>2
<1>4. Sound(c.m) /\ c.m \in Mutations /\ c.own \in BOOLEAN /\ (c.own <=> c.m.id[1] = "own")
  BY <1>2 DEF SoundHist, Casts
<1>5. Board[p.seq + 1] = Drawn(Board[p.seq], c.m)
  <2>1. \A k \in 1 .. n : Board[k] = Drawn(Board[k - 1], hist[k])
    BY <1>1, BoardFacts DEF IsDrawing
  <2>2. p.seq + 1 - 1 = p.seq
    BY <1>2
  <2> QED
    BY <1>2, <1>3, <2>1, <2>2
<1>6. CASE c.own /\ page' = Acknowledge(p, c.m)
  <2>1. \A k \in DOMAIN p.buffer : p.buffer[k].m.id = c.m.id => p.buffer[k].m = c.m
    BY <1>2 DEF Same
  <2>2. /\ PageInv(page') /\ page'.seq = p.seq + 1 /\ page'.awaiting = p.awaiting
        /\ page'.inbox = p.inbox /\ page'.waiting = p.waiting
        /\ Sub(page'.buffer, p.buffer)
        /\ \A k \in DOMAIN page'.buffer : page'.buffer[k].m.id # c.m.id
        /\ (\A k \in DOMAIN p.buffer : ~(Num(p.buffer[k].m) > Num(c.m))) =>
              \A b : Follows(p, b) => Follows(page', Drawn(b, c.m))
    BY <1>6, <2>1, AcknowledgeKeeps
  <2>3. Named(c) = {c.m.id}
    BY <1>2, <1>6 DEF Named
  <2>4. Leaves(page'.buffer, p.buffer, Named(c))
    BY <2>2, <2>3 DEF Leaves
  <2>5. WaitingOk(page'.waiting, hist, page'.seq)
    BY <2>2 DEF WaitingOk
  <2>6. Follows(p, Board[p.seq]) /\ Newest(p, c) => Follows(page', Board[p.seq + 1])
    BY <1>5, <1>6, <2>2 DEF Newest
  <2> QED
    BY <1>1, <1>3, <2>2, <2>4, <2>5, <2>6
<1>7. ASSUME ~c.own, NEW q, q = Pruned(p, c.m),
             Draw(q, c.m) \/ page' = [q EXCEPT !.waiting = <<c.m>>]
      PROVE  /\ PageInv(page') /\ page'.awaiting = p.awaiting /\ page'.inbox = p.inbox
             /\ Leaves(page'.buffer, p.buffer, Named(c))
             /\ WaitingOk(page'.waiting, hist, page'.seq) /\ page'.seq <= Len(hist)
             /\ Follows(p, Board[p.seq]) => Follows(page', Board[page'.seq])
  <2>1. c.m.id[1] = "others"
    BY <1>4, <1>7 DEF Mutations, MutationIds, Writers
  <2>2. /\ IsPage(q) /\ PageInv(q) /\ Else(q, p) /\ Sub(q.buffer, p.buffer)
        /\ \A b : Follows(p, b) => Follows(q, b)
    BY <1>4, <1>7, <2>1, PruneKeeps
  <2>3. q.seq = p.seq /\ q.awaiting = p.awaiting /\ q.inbox = p.inbox /\ q.waiting = << >>
    BY <2>2 DEF Else
  <2>4. Named(c) = {}
    BY <1>2, <1>7 DEF Named
  <2>5. Leaves(q.buffer, p.buffer, Named(c))
    BY <2>2, <2>4 DEF Leaves
  <2>6. CASE Draw(q, c.m)
    <3>1. /\ PageInv(page') /\ page'.awaiting = q.awaiting
          /\ page'.inbox = q.inbox /\ page'.waiting = q.waiting /\ page'.buffer = q.buffer
          /\ page'.seq <= Len(hist)
          /\ Follows(q, Board[q.seq]) => Follows(page', Board[page'.seq])
      BY <1>2, <2>2, <2>3, <2>6, DrawFollows
    <3>2. WaitingOk(page'.waiting, hist, page'.seq)
      BY <2>3, <3>1 DEF WaitingOk
    <3> QED
      BY <2>2, <2>3, <2>5, <3>1, <3>2
  <2>7. CASE page' = [q EXCEPT !.waiting = <<c.m>>]
    <3>1. /\ page'.view = q.view /\ page'.journal = q.journal /\ page'.buffer = q.buffer
          /\ page'.crossed = q.crossed /\ page'.seq = q.seq /\ page'.awaiting = q.awaiting
          /\ page'.inbox = q.inbox /\ page'.waiting = <<c.m>>
      BY <2>2, <2>7 DEF IsPage, PageFields
    <3>2. PageInv(page') /\ \A b : Follows(q, b) => Follows(page', b)
      BY <2>2, <3>1, AlikePages
    <3>3. WaitingOk(page'.waiting, hist, page'.seq)
      BY <1>2, <2>3, <3>1 DEF WaitingOk
    <3> QED
      BY <1>1, <1>3, <2>2, <2>3, <2>5, <3>1, <3>2, <3>3
  <2> QED
    BY <1>7, <2>6, <2>7
<1> QED
  <2>1. \/ c.own /\ page' = Acknowledge(p, c.m)
        \/ /\ ~c.own
           /\ \E q \in {Pruned(p, c.m)} : Draw(q, c.m) \/ page' = [q EXCEPT !.waiting = <<c.m>>]
    BY DEF ApplyCast, Pruned
  <2> QED
    BY <1>6, <1>7, <2>1

\* A step of the page only
LEMMA PageMoves ==
    ASSUME FInv, UNCHANGED <<hist, up, link>>, left'.own = left.own,
           PageInv(page'), Sub(page'.buffer, page.buffer),
           Casting(page'.inbox, hist), Casting(down', hist),
           Batching(down', hist, page'.seq), WaitingOk(page'.waiting, hist, page'.seq),
           page'.awaiting => Len(page'.journal) = 0,
           Live => /\ PipeOk(Names(page'.inbox), Names(down'), Asked(up), page'.buffer, left.own)
                   /\ page'.seq <= Len(hist) /\ Follows(page', Board[page'.seq])
    PROVE  FInv'
<1>1. Board' = Board /\ SoundHist'
  BY BoardStays DEF FInv, SoundInv
<1>2. SoundInv'
  BY <1>1 DEF FInv, SoundInv
<1>3. Same(page'.buffer, hist', up')
  <2>1. Sub(up, up)
    BY DEF Sub
  <2> QED
    BY <2>1, FewerSame DEF FInv
<1>4. CastInv'
  BY DEF CastInv
<1>5. EmptyInv'
  BY DEF EmptyInv
<1>6. LiveInv'
  BY <1>1 DEF LiveInv, Live, PipeInv
<1> QED
  BY <1>2, <1>3, <1>4, <1>5, <1>6 DEF FInv

\* What was said of the messages under way holds for those that stay.
LEMMA TailOk ==
    ASSUME NEW S, NEW s \in Seq(S), s # << >>, NEW h, NEW n
    PROVE  /\ Casting(s, h) => Casting(Tail(s), h) /\ CastOk(Head(s), h)
           /\ Batching(s, h, n) => Batching(Tail(s), h, n) /\ BatchOk(Head(s), h, n)
BY Popped DEF Casting, Batching

\* PauseEnds changes nothing of what is drawn.
LEMMA PauseEndsFollows ==
    ASSUME IInv, FInv, PauseEnds
    PROVE  FInv'
<1>1. page' = [page EXCEPT !.paused = FALSE] /\ UNCHANGED <<hist, up, down, link, left>>
  BY DEF PauseEnds
<1>2. IsPage(page)
  BY DEF IInv, TypeInv
<1>3. /\ page'.view = page.view /\ page'.journal = page.journal /\ page'.buffer = page.buffer
      /\ page'.crossed = page.crossed /\ page'.seq = page.seq /\ page'.inbox = page.inbox
      /\ page'.awaiting = page.awaiting /\ page'.waiting = page.waiting
  BY <1>1, <1>2 DEF IsPage, PageFields
<1>4. PageInv(page') /\ \A b : Follows(page, b) => Follows(page', b)
  BY <1>3, AlikePages DEF FInv
<1>5. Sub(page'.buffer, page.buffer)
  BY <1>3 DEF Sub
<1> QED
  BY <1>1, <1>3, <1>4, <1>5, PageMoves DEF FInv, CastInv, EmptyInv, LiveInv, PipeInv

\* ToolReady: what waited is drawn.
LEMMA ToolReadyFollows ==
    ASSUME IInv, FInv, ToolReady
    PROVE  FInv'
<1> DEFINE p == [page EXCEPT !.waiting = << >>]
<1>1. IsPage(page) /\ hist \in Seq(Mutations) /\ SoundHist /\ PageInv(page)
  BY DEF IInv, TypeInv, FInv, SoundInv
<1>2. PICK m : page.waiting = <<m>> /\ page.seq + 1 \in DOMAIN hist /\ hist[page.seq + 1] = m
  BY DEF ToolReady, FInv, CastInv, WaitingOk
<1>3. Head(page.waiting) = m
  BY <1>2
<1>4. /\ p.view = page.view /\ p.journal = page.journal /\ p.buffer = page.buffer
      /\ p.crossed = page.crossed /\ p.seq = page.seq /\ p.inbox = page.inbox
      /\ p.awaiting = page.awaiting /\ p.waiting = << >> /\ p.paused = page.paused
      /\ DOMAIN p = PageFields
  BY <1>1 DEF IsPage, PageFields
<1>5. Draw(p, m) /\ UNCHANGED <<hist, up, down, link, left>>
  BY <1>3 DEF ToolReady
<1> HIDE DEF p
<1>6. PageInv(p) /\ \A b : Follows(page, b) => Follows(p, b)
  BY <1>1, <1>4, AlikePages
<1>7. IsPage(p)
  BY <1>1, <1>4 DEF IsPage
<1>8. /\ PageInv(page') /\ page'.awaiting = page.awaiting /\ page'.inbox = page.inbox
      /\ page'.waiting = << >> /\ page'.buffer = page.buffer
      /\ page'.journal = page.journal /\ page'.seq <= Len(hist)
      /\ Follows(p, Board[p.seq]) => Follows(page', Board[page'.seq])
  BY <1>1, <1>2, <1>4, <1>5, <1>6, <1>7, DrawFollows
<1>9. ~page.awaiting
  BY <1>2 DEF IInv, AwaitInv
<1>10. \A k \in DOMAIN down : down[k].kind # "batch"
  BY <1>9 DEF IInv, AwaitInv
<1>11. Batching(down', hist, page'.seq) /\ WaitingOk(page'.waiting, hist, page'.seq)
  BY <1>5, <1>8, <1>10 DEF Batching, BatchOk, WaitingOk
<1>12. Sub(page'.buffer, page.buffer)
  BY <1>8 DEF Sub
<1>13. Live => Follows(page', Board[page'.seq])
  BY <1>4, <1>6, <1>8 DEF FInv, LiveInv
<1> QED
  BY <1>5, <1>8, <1>9, <1>11, <1>12, <1>13, PageMoves DEF FInv, CastInv, LiveInv, PipeInv

\* HearRejection: an own write is taken back, and what depends on it.
LEMMA HearRejectionFollows ==
    ASSUME IInv, FInv, HearRejection
    PROVE  FInv'
<1> DEFINE c == Head(down)
<1>1. /\ down # << >> /\ c.kind = "rejected" /\ page' = Reject(page, c.id)
      /\ down' = Tail(down) /\ UNCHANGED <<hist, up, link, left>>
  BY DEF HearRejection
<1>2. down \in Seq(Sendings) /\ ~page.awaiting
  BY <1>1, Hearing
<1> HIDE DEF c
<1>3. IsPage(page) /\ PageInv(page)
  BY DEF IInv, TypeInv, FInv
<1>4. /\ PageInv(page') /\ Else(page', page) /\ Sub(page'.buffer, page.buffer)
      /\ \A k \in DOMAIN page'.buffer : page'.buffer[k].m.id # c.id
      /\ \A b : Follows(page, b) => Follows(page', b)
  BY <1>1, <1>3, RejectKeeps
<1>5. Casting(down', hist) /\ Batching(down', hist, page.seq)
  BY <1>1, <1>2, TailOk DEF FInv, CastInv
<1>6. Popping(Names(down'), Names(down)) /\ Names(down)[1] = {c.id}
  <2>1. Popping(Names(Tail(down)), Names(down)) /\ Names(down)[1] = Named(c)
    BY <1>1, <1>2, NamesPop DEF c
  <2> QED
    BY <1>1, <2>1 DEF Named
<1>7. Leaves(page'.buffer, page.buffer, Names(down)[1])
  BY <1>4, <1>6 DEF Leaves
<1>8. Live => PipeOk(Names(page'.inbox), Names(down'), Asked(up), page'.buffer, left.own)
  <2>1. page'.inbox = page.inbox
    BY <1>4 DEF Else
  <2> QED
    BY <1>6, <1>7, <2>1, PipeHeard DEF FInv, LiveInv, PipeInv
<1>9. /\ page'.seq = page.seq /\ page'.awaiting = page.awaiting /\ page'.inbox = page.inbox
      /\ page'.waiting = page.waiting
  BY <1>4 DEF Else
<1> QED
  BY <1>1, <1>2, <1>4, <1>5, <1>8, <1>9, PageMoves DEF FInv, CastInv, LiveInv

\* HearLimit: the whole buffer is held back, on a connection that is broken.
LEMMA HearLimitFollows ==
    ASSUME IInv, FInv, HearLimit
    PROVE  FInv'
<1> DEFINE b == [k \in DOMAIN page.buffer |->
                   [m |-> page.buffer[k].m, queued |-> TRUE, redraw |-> TRUE]]
<1>1. /\ down # << >> /\ Head(down).kind = "limited"
      /\ page' = [page EXCEPT !.paused = TRUE, !.buffer = b]
      /\ down' = Tail(down) /\ UNCHANGED <<hist, up, link, left>>
  BY DEF HearLimit
<1>2. down \in Seq(Sendings) /\ ~page.awaiting /\ link = "broken"
  <2>1. down \in Seq(Sendings) /\ ~page.awaiting /\ Head(down) = down[1] /\ 1 \in DOMAIN down
    BY <1>1, Hearing
  <2> QED
    BY <1>1, <2>1 DEF IInv, LinkInv
<1>3. IsPage(page) /\ PageInv(page)
  BY DEF IInv, TypeInv, FInv
<1>4. /\ DOMAIN b = DOMAIN page.buffer
      /\ \A k \in DOMAIN b : b[k].m = page.buffer[k].m /\ b[k].queued /\ b[k].redraw
  OBVIOUS
<1> HIDE DEF b
<1>5. /\ page'.view = page.view /\ page'.journal = page.journal /\ page'.buffer = b
      /\ page'.crossed = page.crossed /\ page'.seq = page.seq /\ page'.inbox = page.inbox
      /\ page'.awaiting = page.awaiting /\ page'.waiting = page.waiting
  BY <1>1, <1>3 DEF IsPage, PageFields
<1>6. BufferOk(b)
  BY <1>3, <1>4 DEF PageInv, BufferOk
<1>7. Matching(page.journal, b)
  BY <1>3, <1>4 DEF PageInv, Matching
<1>8. PageInv(page')
  BY <1>3, <1>5, <1>6, <1>7 DEF PageInv
<1>9. Casting(down', hist) /\ Batching(down', hist, page.seq)
  BY <1>1, <1>2, TailOk DEF FInv, CastInv
<1>10. Same(page'.buffer, hist', up')
  BY <1>1, <1>4, <1>5 DEF FInv, Same
<1>11. SoundInv'
  BY <1>1, BoardStays DEF FInv, SoundInv
<1>12. CastInv' /\ EmptyInv'
  BY <1>1, <1>2, <1>5, <1>9 DEF FInv, CastInv, EmptyInv
<1>13. LiveInv'
  BY <1>1, <1>2 DEF LiveInv, Live
<1> QED
  BY <1>8, <1>10, <1>11, <1>12, <1>13 DEF FInv

\* A page without a journal whose writes are all held
LEMMA FreshPage ==
    ASSUME NEW q, q.journal = << >>, q.view \in Views, q.crossed \in BOOLEAN,
           BufferOk(q.buffer), \A k \in DOMAIN q.buffer : q.buffer[k].redraw
    PROVE  PageInv(q) /\ Len(q.journal) = 0 /\ Follows(q, q.view)
<1>1. << >> \in Journals /\ Distinct(<< >>)
  <2>1. << >> \in Seq(Entries) /\ DOMAIN << >> = {}
    OBVIOUS
  <2> QED
    BY <2>1 DEF Journals, Distinct
<1>2. Matching(<< >>, q.buffer)
  BY DEF Matching
<1>3. PageInv(q) /\ Len(q.journal) = 0
  BY <1>1, <1>2 DEF PageInv
<1> QED
  BY <1>3, JournalEmpty

\* Nothing is under way, and nothing is in flight.
LEMMA PipeEmpty ==
    ASSUME NEW I, NEW D, NEW U, NEW b, NEW low,
           \A k \in DOMAIN I : I[k] = {}, \A k \in DOMAIN D : D[k] = {},
           \A k \in DOMAIN U : U[k] = {}, \A k \in DOMAIN b : b[k].queued
    PROVE  PipeOk(I, D, U, b, low)
BY DEF PipeOk, InOrder, Ahead, Among

\* beginAuthoritativeResync
LEMMA ResyncPage ==
    ASSUME NEW p, IsPage(p), PageInv(p), NEW keep,
           keep => \A k \in DOMAIN p.buffer : p.buffer[k].redraw
    PROVE  LET q == Resync(p, keep)
           IN  /\ PageInv(q) /\ Len(q.journal) = 0 /\ Sub(q.buffer, p.buffer)
               /\ \A k \in DOMAIN q.buffer : q.buffer[k].redraw
               /\ DOMAIN q = PageFields /\ q.journal = << >> /\ q.inbox = << >>
               /\ q.waiting = << >> /\ q.awaiting /\ q.crossed = p.crossed
               /\ q.view = p.view /\ q.seq = p.seq
<1> DEFINE q == Resync(p, keep)
           b == IF keep THEN p.buffer ELSE << >>
<1>1. /\ DOMAIN q = PageFields /\ q.journal = << >> /\ q.inbox = << >>
      /\ q.waiting = << >> /\ q.awaiting /\ q.crossed = p.crossed
      /\ q.view = p.view /\ q.seq = p.seq /\ q.buffer = b
  BY DEF Resync, IsPage, PageFields
<1>2. \A k \in DOMAIN b : keep /\ b[k] = p.buffer[k] /\ k \in DOMAIN p.buffer
  OBVIOUS
<1> HIDE DEF q, b
<1>3. Sub(b, p.buffer) /\ \A k \in DOMAIN b : b[k].redraw
  BY <1>2 DEF Sub
<1>4. BufferOk(b)
  BY <1>2 DEF PageInv, BufferOk
<1>5. q.view \in Views /\ q.crossed \in BOOLEAN
  BY <1>1 DEF PageInv
<1>6. PageInv(q) /\ Len(q.journal) = 0
  BY <1>1, <1>3, <1>4, <1>5, FreshPage
<1> QED
  BY <1>1, <1>3, <1>6 DEF q

\* The page starts over, or the connection breaks.
LEMMA LeftBehind ==
    ASSUME FInv, UNCHANGED hist, ~Live', up' = up \/ up' = << >>, PageInv(page'),
           Sub(page'.buffer, page.buffer), EmptyInv', CastInv'
    PROVE  FInv'
<1>1. SoundHist'
  BY BoardStays DEF FInv, SoundInv
<1>2. Sub(up', up)
  BY DEF Sub
<1>3. SoundInv'
  BY <1>1, <1>2 DEF FInv, SoundInv, Sub
<1>4. Same(page'.buffer, hist', up')
  <2>1. Same(page'.buffer, hist, up')
    BY <1>2, FewerSame DEF FInv
  <2> QED
    BY <2>1
<1>5. LiveInv'
  BY DEF LiveInv
<1> QED
  BY <1>3, <1>4, <1>5 DEF FInv

\* There is nothing to say of an empty queue.
LEMMA NothingUnderWay ==
    ASSUME NEW h, NEW n
    PROVE  Casting(<< >>, h) /\ Batching(<< >>, h, n) /\ WaitingOk(<< >>, h, n)
BY DEF Casting, Batching, WaitingOk

\* Cut and Limit break the connection.
LEMMA BreakFollows ==
    ASSUME IInv, FInv, UNCHANGED <<hist, page>>, link' = "broken", up' = << >>,
           Casting(down', hist), Batching(down', hist, page.seq)
    PROVE  FInv'
<1>1. ~Live'
  BY DEF Live
<1>2. PageInv(page') /\ EmptyInv' /\ CastInv'
  BY DEF FInv, EmptyInv, CastInv
<1>3. Sub(page'.buffer, page.buffer)
  BY DEF Sub
<1> QED
  BY <1>1, <1>2, <1>3, LeftBehind

\* Of a connection that is cut some messages still arrive.
LEMMA CutFollows ==
    ASSUME IInv, FInv, NEW arrives, Cut(arrives)
    PROVE  FInv'
<1>1. /\ arrives \in 0 .. Len(down) /\ down' = SubSeq(down, 1, arrives) /\ up' = << >>
      /\ link' = "broken" /\ UNCHANGED <<hist, page>>
  BY DEF Cut
<1>2. down \in Seq(Sendings)
  BY DEF IInv, TypeInv
<1>3. \A k \in DOMAIN down' : k \in DOMAIN down /\ down'[k] = down[k]
  BY <1>1, <1>2, Shortened
<1>4. Casting(down', hist) /\ Batching(down', hist, page.seq)
  BY <1>3 DEF FInv, CastInv, Casting, Batching
<1> QED
  BY <1>1, <1>4, BreakFollows

\* Limit cuts off a page that writes too fast.
LEMMA LimitFollows ==
    ASSUME IInv, FInv, Limit
    PROVE  FInv'
<1> DEFINE d == [kind |-> "limited"]
<1>1. /\ up # << >> /\ up' = << >> /\ down' = Append(down, d) /\ link' = "broken"
      /\ UNCHANGED <<hist, page>>
  BY DEF Limit
<1>2. d \in Sendings /\ d.kind = "limited"
  BY DEF Sendings, Answers
<1> HIDE DEF d
<1>3. \A k \in DOMAIN down' : (k \in DOMAIN down /\ down'[k] = down[k]) \/ down'[k] = d
  BY <1>1, <1>2, DownGrows
<1>4. Casting(down', hist) /\ Batching(down', hist, page.seq)
  BY <1>2, <1>3 DEF FInv, CastInv, Casting, CastOk, Batching, BatchOk
<1> QED
  BY <1>1, <1>4, BreakFollows

\* DISCONNECT
LEMMA DisconnectedFollows ==
    ASSUME IInv, FInv, Disconnected
    PROVE  FInv'
<1> DEFINE q == Resync(page, page.paused)
<1>1. /\ down = << >> /\ link' = "none" /\ page' = q
      /\ UNCHANGED <<hist, up, down>>
  BY DEF Disconnected
<1>2. IsPage(page) /\ PageInv(page)
      /\ (page.paused => \A k \in DOMAIN page.buffer : page.buffer[k].redraw)
  BY DEF IInv, TypeInv, FInv, PauseInv
<1>3. /\ PageInv(q) /\ Len(q.journal) = 0 /\ Sub(q.buffer, page.buffer)
      /\ q.inbox = << >> /\ q.waiting = << >>
  BY <1>2, ResyncPage
<1> HIDE DEF q
<1>4. CastInv' /\ EmptyInv' /\ ~Live'
  BY <1>1, <1>3, NothingUnderWay DEF CastInv, EmptyInv, Live
<1> QED
  BY <1>1, <1>3, <1>4, LeftBehind

\* ApplyGap: the page starts over.
LEMMA ApplyGapFollows ==
    ASSUME FInv, NEW p, IsPage(p), PageInv(p), NEW c, ApplyGap(p, c),
           down' = << >>, UNCHANGED hist
    PROVE  FInv'
<1> DEFINE q == Resync(p, FALSE)
<1>1. link' = "none" /\ page' = q /\ up' = << >> /\ down' = << >>
  BY DEF ApplyGap
<1>2. /\ PageInv(q) /\ Len(q.journal) = 0
      /\ q.inbox = << >> /\ q.waiting = << >> /\ q.buffer = << >>
  <2>1. q.buffer = << >>
    BY DEF Resync, IsPage, PageFields
  <2> QED
    BY <2>1, ResyncPage
<1> HIDE DEF q
<1>3. CastInv' /\ EmptyInv' /\ ~Live'
  BY <1>1, <1>2, NothingUnderWay DEF CastInv, EmptyInv, Live
<1>4. Sub(page'.buffer, page.buffer)
  BY <1>1, <1>2 DEF Sub
<1> QED
  BY <1>1, <1>2, <1>3, <1>4, LeftBehind

\* start(): the page shows the baseline.
LEMMA StartFollows ==
    ASSUME IInv, FInv, NEW n \in Nat, Start(n)
    PROVE  FInv'
<1> DEFINE r == Resync(page, page.paused)
<1>1. /\ link = "none" /\ link' = "connecting" /\ n <= Len(hist)
      /\ page' = [r EXCEPT !.view = Board[n], !.seq = n, !.crossed = FALSE]
      /\ UNCHANGED <<hist, up, down, left>>
  BY DEF Start
<1>2. down = << >> /\ up = << >>
  BY <1>1 DEF IInv, LinkInv
<1>3. IsPage(page) /\ PageInv(page) /\ hist \in Seq(Mutations) /\ SoundHist
      /\ (page.paused => \A k \in DOMAIN page.buffer : page.buffer[k].redraw)
  BY DEF IInv, TypeInv, FInv, PauseInv, SoundInv
<1>4. /\ PageInv(r) /\ Sub(r.buffer, page.buffer)
      /\ \A k \in DOMAIN r.buffer : r.buffer[k].redraw
      /\ DOMAIN r = PageFields /\ r.journal = << >> /\ r.inbox = << >> /\ r.waiting = << >>
  BY <1>3, ResyncPage
<1> HIDE DEF r
<1>5. Board[n] \in Views
  <2>1. PICK l \in Nat : l = Len(hist)
    BY <1>3, LenProperties
  <2>2. n \in 0 .. l
    BY <1>1, <2>1
  <2> QED
    BY <1>3, <2>1, <2>2, BoardFacts DEF IsDrawing
<1>6. /\ page'.view = Board[n] /\ page'.seq = n /\ page'.crossed = FALSE
      /\ page'.journal = << >> /\ page'.inbox = << >> /\ page'.waiting = << >>
      /\ page'.buffer = r.buffer
  BY <1>1, <1>4 DEF PageFields
<1>7. BufferOk(r.buffer) /\ \A k \in DOMAIN r.buffer : r.buffer[k].queued
  BY <1>4 DEF PageInv, BufferOk
<1>8. PageInv(page') /\ Len(page'.journal) = 0 /\ Follows(page', page'.view)
  BY <1>4, <1>5, <1>6, <1>7, FreshPage
<1>9. Board' = Board /\ SoundInv'
  BY <1>1, BoardStays DEF FInv, SoundInv
<1>10. Same(page'.buffer, hist', up')
  <2>1. Sub(up, up)
    BY DEF Sub
  <2>2. Same(page'.buffer, hist, up)
    BY <1>4, <1>6, <2>1, FewerSame DEF FInv
  <2> QED
    BY <1>1, <2>2
<1>11. CastInv' /\ EmptyInv'
  BY <1>1, <1>2, <1>6, <1>8, NothingUnderWay DEF CastInv, EmptyInv
<1>12. LiveInv'
  <2>1. DOMAIN Names(<< >>) = {} /\ DOMAIN Asked(<< >>) = {}
    BY DEF Names, Asked
  <2>2. PipeOk(Names(<< >>), Names(<< >>), Asked(<< >>), page'.buffer, left'.own)
    BY <1>6, <1>7, <2>1, PipeEmpty
  <2>3. PipeInv'
    BY <1>1, <1>2, <1>6, <2>2 DEF PipeInv
  <2>4. Follows(page', Board'[page'.seq])
    BY <1>6, <1>8, <1>9
  <2> QED
    BY <1>1, <1>6, <2>3, <2>4 DEF LiveInv
<1> QED
  BY <1>8, <1>9, <1>10, <1>11, <1>12 DEF FInv

\* The replay is what the page lacks.
LEMMA JoinFollows ==
    ASSUME IInv, FInv, Join
    PROVE  FInv'
<1> DEFINE ms == SubSeq(hist, page.seq + 1, Len(hist))
           b == [kind |-> "batch", ms |-> ms]
<1>1. /\ link = "connecting" /\ link' = "joined" /\ up' = << >> /\ down' = <<b>>
      /\ UNCHANGED <<hist, page, left>>
  BY DEF Join
<1>2. page.awaiting /\ page.inbox = << >>
  BY <1>1 DEF IInv, LinkInv
<1>3. hist \in Seq(Mutations) /\ page.seq \in Nat /\ page.seq <= Len(hist) /\ PageInv(page)
  BY <1>1 DEF IInv, TypeInv, IsPage, FInv, LiveInv, Live
<1>4. \A i \in DOMAIN ms : page.seq + i \in DOMAIN hist /\ hist[page.seq + i] = ms[i]
  <2>1. PICK l \in Nat : l = Len(hist) /\ DOMAIN hist = 1 .. l
    BY <1>3, LenProperties
  <2>2. PICK x \in Nat : x = page.seq + 1 /\ x > 0 /\ x <= l + 1
    BY <1>3, <2>1
  <2>3. \A i \in x .. l : i \in 1 .. l
    BY <2>1, <2>2
  <2>4. \A i \in x .. l : hist[i] \in Mutations
    BY <1>3, <2>1, <2>3, ElementOfSeq
  <2>5. x \in Int /\ l \in Int
    BY <2>1, <2>2
  <2> DEFINE t == SubSeq(hist, x, l)
  <2>6. /\ t \in Seq(Mutations)
        /\ Len(t) = IF x <= l THEN l - x + 1 ELSE 0
        /\ \A i \in 1 .. l - x + 1 : t[i] = hist[x + i - 1]
    BY <2>4, <2>5, SubSeqProperties
  <2> HIDE DEF t
  <2>7. PICK y \in Nat : y = Len(t) /\ DOMAIN t = 1 .. y
    BY <2>6, LenProperties
  <2>8. y = l - x + 1
    <3>1. y = IF x <= l THEN l - x + 1 ELSE 0
      BY <2>6, <2>7
    <3>2. l \in Nat /\ x \in Nat /\ x <= l + 1
      BY <2>2
    <3> QED
      BY <3>1, <3>2
  <2>9. \A i \in 1 .. y : x + i - 1 = page.seq + i /\ page.seq + i \in 1 .. l
    <3>1. PICK z \in Nat : z = page.seq
      BY <1>3
    <3>2. x = z + 1
      BY <2>2, <3>1
    <3>3. \A i \in 1 .. y : x + i - 1 = z + i /\ z + i \in 1 .. l
      BY <2>8, <3>2
    <3> QED
      BY <3>1, <3>3
  <2>10. ms = t
    BY <2>1, <2>2 DEF t
  <2> QED
    BY <2>1, <2>6, <2>7, <2>8, <2>9, <2>10
<1>5. BatchOk(b, hist, page.seq) /\ b.kind = "batch"
  BY <1>4 DEF BatchOk
<1> HIDE DEF b
<1>6. \A k \in DOMAIN down' : down'[k] = b
  BY <1>1
<1>7. Casting(down', hist) /\ Batching(down', hist, page.seq)
  BY <1>5, <1>6 DEF Casting, CastOk, Batching
<1>8. Board' = Board /\ SoundInv'
  <2>1. \A k \in DOMAIN up' : FALSE
    BY <1>1
  <2> QED
    BY <1>1, <2>1, BoardStays DEF FInv, SoundInv
<1>9. Same(page'.buffer, hist', up')
  <2>1. Sub(<< >>, up) /\ Sub(page.buffer, page.buffer)
    BY DEF Sub
  <2>2. Same(page.buffer, hist, << >>)
    BY <2>1, FewerSame DEF FInv
  <2> QED
    BY <1>1, <2>2
<1>10. CastInv' /\ EmptyInv' /\ PageInv(page')
  BY <1>1, <1>7 DEF FInv, CastInv, EmptyInv
<1>11. LiveInv'
  <2>1. \A k \in DOMAIN page.buffer : page.buffer[k].queued
    <3>1. Len(page.journal) = 0
      BY <1>2 DEF FInv, EmptyInv
    <3>2. \A k \in DOMAIN page.buffer : page.buffer[k].redraw
      BY <1>3, <3>1, JournalEmpty
    <3> QED
      BY <1>3, <3>2 DEF PageInv, BufferOk
  <2>2. DOMAIN Names(<< >>) = {} /\ DOMAIN Asked(<< >>) = {}
    BY DEF Names, Asked
  <2>3. \A k \in DOMAIN Names(down') : Names(down')[k] = {}
    <3>1. Named(b) = {}
      BY <1>5 DEF Named
    <3> QED
      BY <1>6, <3>1 DEF Names
  <2>4. PipeOk(Names(<< >>), Names(down'), Asked(<< >>), page.buffer, left.own)
    BY <2>1, <2>2, <2>3, PipeEmpty
  <2>5. PipeInv'
    BY <1>1, <1>2, <2>4 DEF PipeInv
  <2>6. Follows(page, Board[page.seq])
    BY <1>1 DEF FInv, LiveInv, Live
  <2>7. Follows(page', Board'[page'.seq])
    BY <1>1, <1>8, <2>6
  <2> QED
    BY <1>1, <1>3, <2>5, <2>7 DEF LiveInv
<1> QED
  BY <1>8, <1>9, <1>10, <1>11 DEF FInv

\* An accepted mutation
LEMMA HistGrows ==
    ASSUME FInv, hist \in Seq(Mutations), IsPage(page), NEW m \in Mutations, Sound(m),
           hist' = Append(hist, m)
    PROVE  /\ SoundHist' /\ Len(hist) + 1 \in DOMAIN hist' /\ hist'[Len(hist) + 1] = m
           /\ \A s : Casting(s, hist) => Casting(s, hist')
           /\ \A s, n : Batching(s, hist, n) => Batching(s, hist', n)
           /\ \A w, n : WaitingOk(w, hist, n) => WaitingOk(w, hist', n)
           /\ \A b, u : Same(b, hist, u)
                        /\ (\A k \in DOMAIN b : m.id = b[k].m.id => m = b[k].m)
                           => Same(b, hist', u)
           /\ Live => page.seq <= Len(hist') /\ Follows(page, Board'[page.seq])
<1>1. SoundHist
  BY DEF FInv, SoundInv
<1>2. /\ SoundHist' /\ Len(hist) \in Nat
      /\ Len(hist') = Len(hist) + 1 /\ hist'[Len(hist) + 1] = m
      /\ Len(hist) + 1 \in DOMAIN hist'
      /\ \A k \in DOMAIN hist : k \in DOMAIN hist' /\ hist'[k] = hist[k]
      /\ \A k \in DOMAIN hist' : k \in DOMAIN hist \/ hist'[k] = m
      /\ \A k \in 0 .. Len(hist) : Board'[k] = Board[k]
  BY <1>1, BoardGrows
<1>3. \A s : Casting(s, hist) => Casting(s, hist')
  BY <1>2 DEF Casting, CastOk
<1>4. \A s, n : Batching(s, hist, n) => Batching(s, hist', n)
  BY <1>2 DEF Batching, BatchOk
<1>5. \A w, n : WaitingOk(w, hist, n) => WaitingOk(w, hist', n)
  BY <1>2 DEF WaitingOk
<1>6. \A b, u : Same(b, hist, u)
                /\ (\A k \in DOMAIN b : m.id = b[k].m.id => m = b[k].m)
                   => Same(b, hist', u)
  BY <1>2 DEF Same
<1>7. ASSUME Live
      PROVE  page.seq <= Len(hist') /\ Follows(page, Board'[page.seq])
  <2>1. page.seq <= Len(hist) /\ Follows(page, Board[page.seq]) /\ page.seq \in Nat
    BY <1>7 DEF FInv, LiveInv, IsPage
  <2>2. page.seq \in 0 .. Len(hist) /\ page.seq <= Len(hist')
    BY <1>2, <2>1
  <2> QED
    BY <1>2, <2>1, <2>2
<1> QED
  BY <1>2, <1>3, <1>4, <1>5, <1>6, <1>7

\* A message is added to those on their way.
LEMMA OneMore ==
    ASSUME NEW S, NEW s \in Seq(S), NEW e \in S, NEW h, NEW n
    PROVE  /\ Casting(s, h) /\ CastOk(e, h) => Casting(Append(s, e), h)
           /\ Batching(s, h, n) /\ BatchOk(e, h, n) => Batching(Append(s, e), h, n)
<1>1. \A k \in DOMAIN Append(s, e) :
         Append(s, e)[k] = e \/ (k \in DOMAIN s /\ Append(s, e)[k] = s[k])
  BY Appended
<1> QED
  BY <1>1 DEF Casting, Batching

\* What is answered is not under way to the server any more.
LEMMA Answered ==
    ASSUME IInv, FInv, up # << >>, up' = Tail(up)
    PROVE  /\ Sub(up', up) /\ \A k \in DOMAIN up' : Sound(up'[k])
           /\ Head(up) \in OwnMutations /\ Sound(Head(up))
           /\ \A k \in DOMAIN page.buffer :
                 Head(up).id = page.buffer[k].m.id => Head(up) = page.buffer[k].m
           /\ link = "joined" /\ down \in Seq(Sendings) /\ hist \in Seq(Mutations)
           /\ \A e \in Sendings : Named(e) = {Head(up).id} =>
                 Passing(Names(Append(down, e)), Names(down), Asked(up'), Asked(up))
<1>1. /\ up \in Seq(OwnMutations) /\ Head(up) \in OwnMutations /\ Head(up) = up[1]
      /\ 1 \in DOMAIN up
      /\ \A k \in DOMAIN Tail(up) : k + 1 \in DOMAIN up /\ Tail(up)[k] = up[k + 1]
      /\ link = "joined" /\ down \in Seq(Sendings) /\ hist \in Seq(Mutations)
  BY Writing
<1>2. Sub(up', up)
  BY <1>1 DEF Sub
<1>3. (\A k \in DOMAIN up' : Sound(up'[k])) /\ Sound(Head(up))
  BY <1>1, <1>2 DEF FInv, SoundInv, Sub
<1>4. \A k \in DOMAIN page.buffer :
         Head(up).id = page.buffer[k].m.id => Head(up) = page.buffer[k].m
  BY <1>1 DEF FInv, Same
<1>5. Popping(Asked(up'), Asked(up)) /\ Asked(up)[1] = {Head(up).id}
  BY <1>1, NamesPop
<1>6. ASSUME NEW e \in Sendings, Named(e) = {Head(up).id}
      PROVE  Passing(Names(Append(down, e)), Names(down), Asked(up'), Asked(up))
  <2>1. Pushing(Names(Append(down, e)), Names(down), Named(e))
    BY <1>1, NamesPush
  <2> QED
    BY <1>5, <1>6, <2>1 DEF Passing
<1> QED
  BY <1>1, <1>2, <1>3, <1>4, <1>6

\* The server accepts a write.
LEMMA AcceptFollows ==
    ASSUME IInv, FInv, Accept
    PROVE  FInv'
<1> DEFINE m == Head(up)
           c == Cast(m, TRUE)
<1>1. /\ up # << >> /\ hist' = Append(hist, m) /\ up' = Tail(up) /\ down' = Append(down, c)
      /\ UNCHANGED <<page, link, left>>
  BY DEF Accept
<1>2. /\ Sub(up', up) /\ \A k \in DOMAIN up' : Sound(up'[k])
      /\ m \in OwnMutations /\ Sound(m)
      /\ \A k \in DOMAIN page.buffer : m.id = page.buffer[k].m.id => m = page.buffer[k].m
      /\ link = "joined" /\ down \in Seq(Sendings) /\ hist \in Seq(Mutations)
      /\ \A e \in Sendings : Named(e) = {m.id} =>
            Passing(Names(Append(down, e)), Names(down), Asked(up'), Asked(up))
  BY <1>1, Answered
<1> HIDE DEF m
<1>3. m \in Mutations /\ m.id[1] = "own" /\ IsPage(page)
  BY <1>2 DEF OwnMutations, IInv, TypeInv
<1>4. PICK l \in Nat : l = Len(hist)
  BY <1>2, LenProperties
<1>5. /\ c.kind = "cast" /\ c.own /\ c.m = m /\ c.seq = l + 1
      /\ c \in Sendings /\ Named(c) = {m.id}
  <2>1. c = [kind |-> "cast", m |-> m, own |-> TRUE, seq |-> l + 1]
    BY <1>4 DEF Cast
  <2> HIDE DEF c
  <2>2. c.kind = "cast" /\ c.own /\ c.m = m /\ c.seq = l + 1
    BY <2>1
  <2>3. c \in Casts
    BY <1>3, <2>1 DEF Casts
  <2> QED
    BY <2>2, <2>3 DEF Sendings, Named
<1> HIDE DEF c
<1>6. /\ SoundHist' /\ l + 1 \in DOMAIN hist' /\ hist'[l + 1] = m
      /\ \A s : Casting(s, hist) => Casting(s, hist')
      /\ \A s, n : Batching(s, hist, n) => Batching(s, hist', n)
      /\ \A w, n : WaitingOk(w, hist, n) => WaitingOk(w, hist', n)
      /\ \A b, u : Same(b, hist, u)
                   /\ (\A k \in DOMAIN b : m.id = b[k].m.id => m = b[k].m)
                      => Same(b, hist', u)
      /\ Live => page.seq <= Len(hist') /\ Follows(page, Board'[page.seq])
  BY <1>1, <1>2, <1>3, <1>4, HistGrows
<1>7. SoundInv'
  BY <1>2, <1>6 DEF SoundInv
<1>8. Same(page'.buffer, hist', up')
  <2>1. Same(page.buffer, hist, up')
    <3>1. Sub(page.buffer, page.buffer)
      BY DEF Sub
    <3> QED
      BY <1>2, <3>1, FewerSame DEF FInv
  <2> QED
    BY <1>1, <1>2, <1>6, <2>1
<1>9. CastInv'
  <2>1. CastOk(c, hist') /\ BatchOk(c, hist', page.seq)
    BY <1>5, <1>6 DEF CastOk, BatchOk
  <2>2. Casting(down', hist') /\ Batching(down', hist', page.seq)
    <3>1. Casting(down, hist') /\ Batching(down, hist', page.seq)
      BY <1>6 DEF FInv, CastInv
    <3> QED
      BY <1>1, <1>2, <1>5, <2>1, <3>1, OneMore
  <2> QED
    BY <1>1, <1>6, <2>2 DEF FInv, CastInv
<1>10. LiveInv'
  <2>1. Live
    BY <1>2 DEF Live
  <2>2. Passing(Names(down'), Names(down), Asked(up'), Asked(up))
    BY <1>1, <1>2, <1>5
  <2>3. PipeOk(Names(page.inbox), Names(down'), Asked(up'), page.buffer, left.own)
    BY <2>1, <2>2, PipeAnswer DEF FInv, LiveInv, PipeInv
  <2> QED
    BY <1>1, <1>6, <2>1, <2>3 DEF LiveInv, PipeInv
<1> QED
  BY <1>1, <1>7, <1>8, <1>9, <1>10 DEF FInv, EmptyInv

\* The server refuses a write.
LEMMA RefuseFollows ==
    ASSUME IInv, FInv, Refuse
    PROVE  FInv'
<1> DEFINE m == Head(up)
           c == [kind |-> "rejected", id |-> m.id]
<1>1. /\ up # << >> /\ up' = Tail(up) /\ down' = Append(down, c)
      /\ UNCHANGED <<hist, page, link>> /\ left'.own = left.own
  <2>1. left \in Bounds
    BY DEF IInv, TypeInv
  <2>2. left' = left \/ Spend("refusals")
    BY DEF Refuse
  <2>3. "refusals" \in DOMAIN left /\ "own" \in DOMAIN left
    BY <2>1 DEF Bounds
  <2>4. left'.own = left.own
    BY <2>1, <2>2, <2>3, SpendFacts DEF Spent
  <2> QED
    BY <2>4 DEF Refuse
<1>2. /\ Sub(up', up) /\ \A k \in DOMAIN up' : Sound(up'[k])
      /\ m \in OwnMutations
      /\ link = "joined" /\ down \in Seq(Sendings) /\ hist \in Seq(Mutations)
      /\ \A e \in Sendings : Named(e) = {m.id} =>
            Passing(Names(Append(down, e)), Names(down), Asked(up'), Asked(up))
  BY <1>1, Answered
<1> HIDE DEF m
<1>3. c.kind = "rejected" /\ c \in Sendings /\ Named(c) = {m.id}
  BY <1>2 DEF OwnMutations, Mutations, Sendings, Answers, Named
<1> HIDE DEF c
<1>4. Board' = Board /\ SoundInv'
  BY <1>1, <1>2, BoardStays DEF FInv, SoundInv
<1>5. Same(page'.buffer, hist', up')
  <2>1. Same(page.buffer, hist, up')
    <3>1. Sub(page.buffer, page.buffer)
      BY DEF Sub
    <3> QED
      BY <1>2, <3>1, FewerSame DEF FInv
  <2> QED
    BY <1>1, <2>1
<1>6. CastInv'
  <2>1. CastOk(c, hist) /\ BatchOk(c, hist, page.seq)
    BY <1>3 DEF CastOk, BatchOk
  <2>2. Casting(down', hist) /\ Batching(down', hist, page.seq)
    BY <1>1, <1>2, <1>3, <2>1, OneMore DEF FInv, CastInv
  <2> QED
    BY <1>1, <2>2 DEF FInv, CastInv
<1>7. LiveInv'
  <2>1. Live
    BY <1>2 DEF Live
  <2>2. Passing(Names(down'), Names(down), Asked(up'), Asked(up))
    BY <1>1, <1>2, <1>3
  <2>3. PipeOk(Names(page.inbox), Names(down'), Asked(up'), page.buffer, left.own)
    BY <2>1, <2>2, PipeAnswer DEF FInv, LiveInv, PipeInv
  <2>4. page.seq <= Len(hist) /\ Follows(page, Board[page.seq])
    BY <2>1 DEF FInv, LiveInv
  <2> QED
    BY <1>1, <1>4, <2>3, <2>4 DEF LiveInv, PipeInv
<1> QED
  BY <1>1, <1>4, <1>5, <1>6, <1>7 DEF FInv, EmptyInv

\* A copy is a copy of something.
LEMMA MakesSound ==
    ASSUME NEW who \in Writers, left[who] \in Nat, NEW view, NEW m \in Makes(who, view)
    PROVE  Sound(m)
<1>1. m \in Mutations
  BY MakesFacts
<1>2. \/ \E i \in Fresh : m = Mutation(NewId(who), "create", {i}, {})
      \/ \E i \in Shown(view) : m = Mutation(NewId(who), "update", {i}, {})
      \/ \E i \in Shown(view), j \in Fresh : m = Mutation(NewId(who), "copy", {i}, {j})
      \/ \E S \in SUBSET Shown(view) : m = Mutation(NewId(who), "delete", S, {})
      \/ m = Mutation(NewId(who), "clear", {}, {})
  BY DEF Makes
<1>3. m.op = "copy" => m.on # {}
  BY <1>2 DEF Mutation
<1> QED
  BY <1>1, <1>3 DEF Sound

\* Somebody else writes.
LEMMA OtherWritesFollows ==
    ASSUME IInv, FInv, NEW m \in Makes("others", Now), OtherWrites(m)
    PROVE  FInv'
<1> DEFINE c == Cast(m, FALSE)
<1>1. /\ hist' = Append(hist, m) /\ Spend("others")
      /\ down' = IF link = "joined" THEN Append(down, c) ELSE down
      /\ UNCHANGED <<page, up, link>>
  BY DEF OtherWrites
<1>2. left \in Bounds /\ hist \in Seq(Mutations) /\ IsPage(page) /\ down \in Seq(Sendings)
  BY DEF IInv, TypeInv
<1>3. left'.own = left.own
  <2>1. "others" \in DOMAIN left /\ "own" \in DOMAIN left
    BY <1>2 DEF Bounds
  <2> QED
    BY <1>1, <1>2, <2>1, SpendFacts DEF Spent
<1>4. m \in Mutations /\ m.id = <<"others", left.others>> /\ Sound(m)
  <2>1. left["others"] \in Nat /\ "others" \in Writers
    BY <1>2 DEF Bounds, Writers
  <2> QED
    BY <2>1, MakesFacts, MakesSound
<1>5. PICK l \in Nat : l = Len(hist)
  BY <1>2, LenProperties
<1>6. /\ c.kind = "cast" /\ ~c.own /\ c.m = m /\ c.seq = l + 1
      /\ c \in Sendings /\ Named(c) = {}
  <2>1. c = [kind |-> "cast", m |-> m, own |-> FALSE, seq |-> l + 1]
    BY <1>5 DEF Cast
  <2> HIDE DEF c
  <2>2. c.kind = "cast" /\ ~c.own /\ c.m = m /\ c.seq = l + 1
    BY <2>1
  <2>3. m.id[1] = "others"
    BY <1>4
  <2>4. c \in Casts
    BY <1>4, <2>1, <2>3 DEF Casts
  <2> QED
    BY <2>2, <2>4 DEF Sendings, Named
<1> HIDE DEF c
<1>7. \A k \in DOMAIN page.buffer : m.id # page.buffer[k].m.id
  <2>1. \A k \in DOMAIN page.buffer : page.buffer[k].m.id[1] = "own"
    <3>1. \A k \in DOMAIN page.buffer : page.buffer[k] \in Writes
      BY <1>2, ElementOfSeq, LenProperties DEF IsPage
    <3> QED
      BY <3>1 DEF Writes, OwnMutations
  <2>2. m.id[1] = "others"
    BY <1>4
  <2> QED
    BY <2>1, <2>2
<1>8. /\ SoundHist' /\ l + 1 \in DOMAIN hist' /\ hist'[l + 1] = m
      /\ \A s : Casting(s, hist) => Casting(s, hist')
      /\ \A s, n : Batching(s, hist, n) => Batching(s, hist', n)
      /\ \A w, n : WaitingOk(w, hist, n) => WaitingOk(w, hist', n)
      /\ \A b, u : Same(b, hist, u)
                   /\ (\A k \in DOMAIN b : m.id = b[k].m.id => m = b[k].m)
                      => Same(b, hist', u)
      /\ Live => page.seq <= Len(hist') /\ Follows(page, Board'[page.seq])
  BY <1>1, <1>2, <1>4, <1>5, HistGrows
<1>9. SoundInv'
  BY <1>1, <1>8 DEF FInv, SoundInv
<1>10. Same(page'.buffer, hist', up')
  BY <1>1, <1>7, <1>8 DEF FInv
<1>11. CastInv'
  <2>1. CastOk(c, hist') /\ BatchOk(c, hist', page.seq)
    BY <1>6, <1>8 DEF CastOk, BatchOk
  <2>2. Casting(down, hist') /\ Batching(down, hist', page.seq)
    BY <1>8 DEF FInv, CastInv
  <2>3. Casting(down', hist') /\ Batching(down', hist', page.seq)
    BY <1>1, <1>2, <1>6, <2>1, <2>2, OneMore
  <2> QED
    BY <1>1, <1>8, <2>3 DEF FInv, CastInv
<1>12. ASSUME Live
       PROVE  PipeOk(Names(page.inbox), Names(down'), Asked(up), page.buffer, left.own)
  <2>1. PipeOk(Names(page.inbox), Names(down), Asked(up), page.buffer, left.own)
    BY <1>12 DEF FInv, LiveInv, PipeInv
  <2>2. CASE link = "joined"
    <3>1. Pushing(Names(down'), Names(down), {})
      BY <1>1, <1>2, <1>6, <2>2, NamesPush
    <3> QED
      BY <2>1, <3>1, PipeOther
  <2> QED
    BY <1>1, <2>1, <2>2
<1>13. LiveInv'
  BY <1>1, <1>3, <1>8, <1>12 DEF LiveInv, PipeInv, Live
<1> QED
  BY <1>1, <1>9, <1>10, <1>11, <1>13 DEF FInv, EmptyInv

-----------------------------------------------------------------------------
(* The page sends *)

\* pumpBufferedWrites on a page that is like r
LEMMA SendFollows ==
    ASSUME NEW r, CanDraw(r), NEW n \in Nat, up \in Seq(OwnMutations),
           up' = Sent(Messages(r, n)), page'.buffer = Pumped(r, n).buffer,
           \A k \in DOMAIN up : Sound(up[k]), Same(r.buffer, hist, up)
    PROVE  /\ Same(page'.buffer, hist, up') /\ \A k \in DOMAIN up' : Sound(up'[k])
           /\ \A I, D, low : /\ link = "joined" /\ low \in Nat
                             /\ \A k \in DOMAIN r.buffer : Num(r.buffer[k].m) > low
                             /\ PipeOk(I, D, Asked(up), r.buffer, low)
                             => PipeOk(I, D, Asked(up'), page'.buffer, low)
<1> DEFINE W == Messages(r, n)
           b == r.buffer
           c == Pumped(r, n).buffer
<1>1. /\ W \in Seq(OwnMutations)
      /\ \A k \in DOMAIN W : \E i \in DOMAIN b : W[k] = b[i].m
  BY MessagesFacts DEF CanDraw
<1>2. DOMAIN c = DOMAIN b /\ \A k \in DOMAIN b : c[k].m = b[k].m
  BY PumpedIs DEF CanDraw
<1>3. Distinct(b) /\ \A k \in DOMAIN b : Sound(b[k].m)
  BY DEF CanDraw, IsPage, BufferOk
<1> HIDE DEF W, c
<1>4. \A k \in DOMAIN up' : (\E j \in DOMAIN up : up'[k] = up[j])
                            \/ (\E i \in DOMAIN b : up'[k] = b[i].m)
  <2>1. CASE up' = up
    BY <2>1
  <2>2. CASE up' = up \o W
    <3>1. W \in Seq(OwnMutations) /\ up \in Seq(OwnMutations)
      BY <1>1
    <3>2. PICK l \in Nat :
             /\ DOMAIN up = 1 .. l
             /\ \A k \in DOMAIN (up \o W) :
                   \/ k \in DOMAIN up /\ (up \o W)[k] = up[k]
                   \/ k \notin DOMAIN up /\ k - l \in DOMAIN W /\ (up \o W)[k] = W[k - l]
             /\ \A k \in DOMAIN (up \o W) : k \in Nat
      BY <3>1, Extended
    <3>3. \A k \in DOMAIN up' :
             \/ k \in DOMAIN up /\ up'[k] = up[k]
             \/ k - l \in DOMAIN W /\ up'[k] = W[k - l]
      BY <2>2, <3>2
    <3> QED
      BY <1>1, <3>3, Zenon
  <2> QED
    BY <2>1, <2>2 DEF Sent, W
<1>5. \A k \in DOMAIN up' : Sound(up'[k])
  BY <1>3, <1>4
<1>6. Same(c, hist, up')
  <2>1. SUFFICES ASSUME NEW k \in DOMAIN c
                 PROVE  /\ \A j \in DOMAIN hist : hist[j].id = c[k].m.id => hist[j] = c[k].m
                        /\ \A j \in DOMAIN up' : up'[j].id = c[k].m.id => up'[j] = c[k].m
    BY DEF Same
  <2>2. k \in DOMAIN b /\ c[k].m = b[k].m
    BY <1>2
  <2>3. \A j \in DOMAIN hist : hist[j].id = c[k].m.id => hist[j] = c[k].m
    BY <2>2 DEF Same
  <2>4. ASSUME NEW j \in DOMAIN up', up'[j].id = c[k].m.id
        PROVE  up'[j] = c[k].m
    <3>1. CASE \E x \in DOMAIN up : up'[j] = up[x]
      BY <2>2, <2>4, <3>1 DEF Same
    <3>2. CASE \E i \in DOMAIN b : up'[j] = b[i].m
      BY <1>3, <2>2, <2>4, <3>2 DEF Distinct
    <3> QED
      BY <1>4, <3>1, <3>2
  <2> QED
    BY <2>3, <2>4
<1>7. ASSUME NEW I, NEW D, NEW low, link = "joined", low \in Nat,
             \A k \in DOMAIN r.buffer : Num(r.buffer[k].m) > low,
             PipeOk(I, D, Asked(up), r.buffer, low)
      PROVE  PipeOk(I, D, Asked(up'), page'.buffer, low)
  <2>1. PipeOk(I, D, Asked(up \o Messages(r, n)), Pumped(r, n).buffer, low)
    BY <1>7, PipeSends
  <2>2. up' = up \o Messages(r, n)
    BY <1>7 DEF Sent
  <2> QED
    BY <2>1, <2>2
<1> QED
  BY <1>5, <1>6, <1>7 DEF c

\* The own mutations under way have numbers.
LEMMA PipeNumbered ==
    ASSUME IInv
    PROVE  /\ Numbered(Names(page.inbox)) /\ Numbered(Names(down)) /\ Numbered(Asked(up))
           /\ left.own \in Nat
           /\ \A k \in DOMAIN page.buffer : /\ Num(page.buffer[k].m) > left.own
                                            /\ Num(page.buffer[k].m) \in Nat
<1>1. /\ page.inbox \in Seq(Casts) /\ down \in Seq(Sendings) /\ up \in Seq(OwnMutations)
      /\ page.buffer \in Seq(Writes) /\ left \in Bounds
  BY DEF IInv, TypeInv, IsPage
<1>2. \A x \in MutationIds : x[2] \in Nat
  BY DEF MutationIds
<1>3. \A m \in Mutations : m.id \in MutationIds
  BY DEF Mutations
<1>4. \A c \in Casts : \A x \in Named(c) : x \in MutationIds
  BY <1>3 DEF Casts, Named
<1>5. \A c \in Sendings : \A x \in Named(c) : x \in MutationIds
  <2>1. \A c \in Batches : Named(c) = {}
    BY DEF Batches, Named
  <2>2. \A c \in Answers : \A x \in Named(c) : x \in MutationIds
    BY DEF Answers, Named
  <2> QED
    BY <1>4, <2>1, <2>2 DEF Sendings
<1>6. \A k \in DOMAIN page.inbox : page.inbox[k] \in Casts
  BY <1>1, ElementOfSeq, LenProperties
<1>7. \A k \in DOMAIN down : down[k] \in Sendings
  BY <1>1, ElementOfSeq, LenProperties
<1>8. \A k \in DOMAIN up : up[k] \in Mutations
  <2>1. \A k \in DOMAIN up : up[k] \in OwnMutations
    BY <1>1, ElementOfSeq, LenProperties
  <2> QED
    BY <2>1 DEF OwnMutations
<1>9. Numbered(Names(page.inbox))
  BY <1>2, <1>4, <1>6 DEF Numbered, Names
<1>10. Numbered(Names(down))
  BY <1>2, <1>5, <1>7 DEF Numbered, Names
<1>11. Numbered(Asked(up))
  BY <1>2, <1>3, <1>8 DEF Numbered, Asked
<1>12. left.own \in Nat
  BY <1>1 DEF Bounds
<1>13. \A k \in DOMAIN page.buffer : Num(page.buffer[k].m) > left.own
  BY DEF IInv, NumberInv, Num
<1>14. \A k \in DOMAIN page.buffer : Num(page.buffer[k].m) \in Nat
  <2>1. \A k \in DOMAIN page.buffer : page.buffer[k] \in Writes
    BY <1>1, ElementOfSeq, LenProperties
  <2>2. \A w \in Writes : w.m \in Mutations
    BY DEF Writes, OwnMutations
  <2> QED
    BY <1>2, <1>3, <2>1, <2>2 DEF Num
<1> QED
  BY <1>9, <1>10, <1>11, <1>12, <1>13, <1>14

\* The timer of the buffer
LEMMA PumpFollows ==
    ASSUME IInv, FInv, NEW n \in Nat, PumpBufferedWrites(n)
    PROVE  FInv'
<1>1. /\ page' = Pumped(page, n) /\ up' = Sent(Messages(page, n))
      /\ ~page.awaiting /\ link \in {"joined", "broken"}
      /\ UNCHANGED <<hist, down, link, left>>
  BY DEF PumpBufferedWrites, CanWrite, Connected
<1>2. /\ IsPage(page) /\ PageInv(page) /\ up \in Seq(OwnMutations) /\ CanDraw(page)
      /\ \A k \in DOMAIN up : Sound(up[k])
  BY DEF IInv, TypeInv, FInv, SoundInv, CanDraw, PageInv
<1>3. /\ PageInv(page') /\ Else(page', page)
      /\ \A b : Follows(page, b) => Follows(page', b)
  BY <1>1, <1>2, PumpedKeeps
<1>4. page'.buffer = Pumped(page, n).buffer
  BY <1>1
<1>5. /\ Same(page'.buffer, hist, up') /\ \A k \in DOMAIN up' : Sound(up'[k])
      /\ \A I, D, low : /\ link = "joined" /\ low \in Nat
                        /\ \A k \in DOMAIN page.buffer : Num(page.buffer[k].m) > low
                        /\ PipeOk(I, D, Asked(up), page.buffer, low)
                        => PipeOk(I, D, Asked(up'), page'.buffer, low)
  BY <1>1, <1>2, <1>4, SendFollows DEF FInv
<1>6. Board' = Board /\ SoundInv'
  BY <1>1, <1>5, BoardStays DEF FInv, SoundInv
<1>7. /\ page'.seq = page.seq /\ page'.awaiting = page.awaiting /\ page'.inbox = page.inbox
      /\ page'.waiting = page.waiting
  BY <1>3 DEF Else
<1>8. CastInv' /\ EmptyInv'
  BY <1>1, <1>7 DEF FInv, CastInv, EmptyInv
<1>9. LiveInv'
  <2>1. SUFFICES ASSUME Live
                 PROVE  /\ PipeOk(Names(page.inbox), Names(down), Asked(up'), page'.buffer, left.own)
                        /\ page.seq <= Len(hist) /\ Follows(page', Board[page.seq])
    BY <1>1, <1>6, <1>7 DEF LiveInv, Live, PipeInv
  <2>2. PipeInv /\ page.seq <= Len(hist) /\ Follows(page, Board[page.seq]) /\ link = "joined"
    BY <1>1, <2>1 DEF FInv, LiveInv, Live
  <2> QED
    BY <1>3, <1>5, <2>2, PipeNumbered DEF PipeInv
<1> QED
  BY <1>1, <1>3, <1>5, <1>6, <1>8, <1>9 DEF FInv

\* drawAndSend
LEMMA DrawAndSendFollows ==
    ASSUME IInv, FInv, NEW m \in Makes("own", page.view), NEW n \in Nat, DrawAndSend(m, n)
    PROVE  FInv'
<1> DEFINE r == Buffering(page, m)
           w == [m |-> m, queued |-> TRUE, redraw |-> FALSE]
<1>1. /\ page' = DrawnAndSent(page, m, n) /\ up' = Sent(Messages(r, n))
      /\ ~page.awaiting /\ link \in {"joined", "broken"} /\ Spend("own")
      /\ UNCHANGED <<hist, down, link>>
  BY DEF DrawAndSend, DrawnAndSent, Buffering, CanWrite, Connected, Overtakes
<1>2. /\ IsPage(page) /\ PageInv(page) /\ up \in Seq(OwnMutations) /\ left \in Bounds
      /\ \A k \in DOMAIN up : Sound(up[k])
  BY DEF IInv, TypeInv, FInv, SoundInv
<1>3. /\ m \in Mutations /\ m.id = <<"own", left.own>> /\ Sound(m)
  <2>1. left["own"] \in Nat /\ "own" \in Writers
    BY <1>2 DEF Bounds, Writers
  <2> QED
    BY <2>1, MakesFacts, MakesSound
<1>4. m \in OwnMutations /\ Num(m) = left.own
  BY <1>3 DEF OwnMutations, Num
<1>5. \A k \in DOMAIN page.buffer : Num(page.buffer[k].m) > Num(m)
  BY <1>4, PipeNumbered
<1>6. left'.own \in Nat /\ left'.own < left.own
  <2>1. "own" \in DOMAIN left
    BY <1>2 DEF Bounds
  <2>2. left.own \in Nat /\ left'.own \in Nat /\ left.own > left'.own
    BY <1>1, <1>2, <2>1, SpendFacts DEF Spent
  <2> QED
    BY <2>2
<1>7. CanDraw(r)
  BY <1>2, <1>3, <1>4, <1>5, BufferingFacts
<1>8. /\ PageInv(page') /\ Else(page', page) /\ page'.buffer = Pumped(r, n).buffer
      /\ \A b : Follows(page, b) => Follows(page', b)
  BY <1>1, <1>2, <1>3, <1>4, <1>5, DrawKeeps
<1>9. /\ r.buffer = Append(page.buffer, w) /\ w \in Writes /\ w.queued /\ w.m = m
      /\ page.buffer \in Seq(Writes)
  BY <1>2, <1>4 DEF Buffering, IsPage, PageFields, Writes
<1> HIDE DEF r, w
<1>10. \A k \in DOMAIN r.buffer :
          r.buffer[k] = w \/ (k \in DOMAIN page.buffer /\ r.buffer[k] = page.buffer[k])
  BY <1>9, Appended
<1>11. Same(r.buffer, hist, up)
  <2>1. \A j \in DOMAIN hist : hist[j].id # m.id
    <3>1. SUFFICES ASSUME NEW j \in DOMAIN hist, hist[j].id = m.id PROVE FALSE
      OBVIOUS
    <3>2. hist[j].id[1] = "own" /\ hist[j].id[2] = left.own
      BY <1>3, <3>1
    <3>3. left.own > left.own /\ left.own \in Nat
      BY <3>2, PipeNumbered DEF IInv, NumberInv
    <3> QED
      BY <3>3
  <2>2. \A j \in DOMAIN up : up[j].id # m.id
    <3>1. SUFFICES ASSUME NEW j \in DOMAIN up, up[j].id = m.id PROVE FALSE
      OBVIOUS
    <3>2. up[j].id[2] = left.own
      BY <1>3, <3>1
    <3>3. left.own > left.own /\ left.own \in Nat
      BY <3>2, PipeNumbered DEF IInv, NumberInv
    <3> QED
      BY <3>3
  <2> QED
    BY <1>9, <1>10, <2>1, <2>2 DEF FInv, Same
<1>12. /\ Same(page'.buffer, hist, up') /\ \A k \in DOMAIN up' : Sound(up'[k])
       /\ \A I, D, low : /\ link = "joined" /\ low \in Nat
                         /\ \A k \in DOMAIN r.buffer : Num(r.buffer[k].m) > low
                         /\ PipeOk(I, D, Asked(up), r.buffer, low)
                         => PipeOk(I, D, Asked(up'), page'.buffer, low)
  BY <1>1, <1>2, <1>7, <1>8, <1>11, SendFollows
<1>13. Board' = Board /\ SoundInv'
  BY <1>1, <1>12, BoardStays DEF FInv, SoundInv
<1>14. /\ page'.seq = page.seq /\ page'.awaiting = page.awaiting /\ page'.inbox = page.inbox
       /\ page'.waiting = page.waiting
  BY <1>8 DEF Else
<1>15. CastInv' /\ EmptyInv'
  BY <1>1, <1>14 DEF FInv, CastInv, EmptyInv
<1>16. LiveInv'
  <2>1. SUFFICES ASSUME Live
                 PROVE  /\ PipeOk(Names(page.inbox), Names(down), Asked(up'), page'.buffer, left'.own)
                        /\ page.seq <= Len(hist) /\ Follows(page', Board[page.seq])
    BY <1>1, <1>13, <1>14 DEF LiveInv, Live, PipeInv
  <2>2. PipeInv /\ page.seq <= Len(hist) /\ Follows(page, Board[page.seq]) /\ link = "joined"
    BY <1>1, <2>1 DEF FInv, LiveInv, Live
  <2>3. PipeOk(Names(page.inbox), Names(down), Asked(up), r.buffer, left'.own)
    BY <1>4, <1>6, <1>9, <2>2, PipeNumbered, PipeBuffers DEF PipeInv
  <2>4. \A k \in DOMAIN r.buffer : Num(r.buffer[k].m) > left'.own
    <3>1. SUFFICES ASSUME NEW k \in DOMAIN r.buffer
                   PROVE  Num(r.buffer[k].m) > left'.own
      OBVIOUS
    <3>2. CASE r.buffer[k] = w
      BY <1>4, <1>6, <1>9, <3>2
    <3>3. CASE k \in DOMAIN page.buffer /\ r.buffer[k] = page.buffer[k]
      <4>1. Num(page.buffer[k].m) \in Nat /\ Num(page.buffer[k].m) > left.own /\ left.own \in Nat
        BY <3>3, PipeNumbered
      <4> QED
        BY <1>6, <3>3, <4>1
    <3> QED
      BY <1>10, <3>2, <3>3
  <2> QED
    BY <1>6, <1>8, <1>12, <2>2, <2>3, <2>4
<1> QED
  BY <1>1, <1>8, <1>12, <1>13, <1>15, <1>16 DEF FInv

-----------------------------------------------------------------------------
(* The page hears *)

\* An own mutation that is cast is the oldest of those the page waits for.
LEMMA HeardIsNewest ==
    ASSUME IInv, PipeInv, NEW p, p.buffer = page.buffer, NEW S, NEW s \in Seq(S), s # << >>,
           s = page.inbox \/ (s = down /\ page.inbox = << >>), Head(s).kind = "cast",
           Head(s) \in Casts
    PROVE  Newest(p, Head(s))
<1> SUFFICES ASSUME Head(s).own
             PROVE  \A k \in DOMAIN page.buffer : ~(Num(page.buffer[k].m) > Num(Head(s).m))
  BY DEF Newest
<1> DEFINE x == Head(s).m.id
           A == Names(s)
           I == Names(page.inbox)
           D == Names(down)
           U == Asked(up)
           low == left.own
<1>1. A[1] = {x} /\ 1 \in DOMAIN A
  <2>1. A[1] = Named(Head(s)) /\ 1 \in DOMAIN A
    BY NamesPop DEF Popping
  <2> QED
    BY <2>1 DEF Named
<1>2. DOMAIN A \subseteq Nat \ {0}
  BY LenProperties DEF Names
<1>3. A = I \/ (A = D /\ \A k \in DOMAIN I : FALSE)
  BY DEF Names
<1>4. x[2] \in Nat /\ Num(Head(s).m) = x[2]
  BY DEF Casts, Mutations, MutationIds, Num
<1>5. PipeOk(I, D, U, page.buffer, low) /\ \A k \in DOMAIN page.buffer : Num(page.buffer[k].m) \in Nat
  BY PipeNumbered DEF PipeInv
<1> HIDE DEF x, A, I, D, U, low
<1>6. \A k \in DOMAIN page.buffer : ~(Num(page.buffer[k].m) > x[2])
  BY <1>1, <1>2, <1>3, <1>4, <1>5, PipeFirst
<1> QED
  BY <1>4, <1>6

\* A wait for a tool does not number anything.
LEMMA CastNumbers ==
    ASSUME left \in Bounds, NEW p, NEW c, ApplyCast(p, c)
    PROVE  left'.own = left.own /\ UNCHANGED <<up, link>>
BY DEF ApplyCast, Spend, Bounds

\* A mutation that is cast is applied at once.
LEMMA HearCastFollows ==
    ASSUME IInv, FInv, EventLoop, page.waiting = << >>, down # << >>,
           ApplyCast(page, Head(down)), down' = Tail(down), UNCHANGED hist
    PROVE  FInv'
<1> DEFINE c == Head(down)
<1>1. /\ down \in Seq(Sendings) /\ ~page.awaiting /\ c \in Casts /\ c.kind = "cast"
      /\ page.inbox = << >>
  <2>1. c.kind = "cast"
    BY DEF ApplyCast
  <2>2. down \in Seq(Sendings) /\ ~page.awaiting /\ c \in Sendings
    BY <2>1, Hearing
  <2> QED
    BY <2>1, <2>2 DEF Sendings, Batches, Answers, EventLoop
<1>2. /\ IsPage(page) /\ PageInv(page) /\ hist \in Seq(Mutations) /\ SoundHist
      /\ Same(page.buffer, hist, up) /\ left \in Bounds
  BY DEF IInv, TypeInv, FInv, SoundInv
<1>3. CastOk(c, hist) /\ Casting(down', hist)
  BY <1>1, TailOk DEF FInv, CastInv
<1>4. /\ PageInv(page') /\ page'.awaiting = page.awaiting /\ page'.inbox = page.inbox
      /\ Leaves(page'.buffer, page.buffer, Named(c))
      /\ WaitingOk(page'.waiting, hist, page'.seq) /\ page'.seq <= Len(hist)
      /\ Follows(page, Board[page.seq]) /\ Newest(page, c) => Follows(page', Board[page'.seq])
  BY <1>1, <1>2, <1>3, ApplyCastFollows
<1>5. left'.own = left.own /\ UNCHANGED <<up, link>>
  BY <1>2, CastNumbers
<1>6. Batching(down', hist, page'.seq)
  <2>1. \A k \in DOMAIN down' : \E j \in DOMAIN down : down'[k] = down[j]
    BY <1>1, Popped
  <2>2. \A j \in DOMAIN down : down[j].kind # "batch"
    BY <1>1 DEF IInv, AwaitInv
  <2> QED
    BY <2>1, <2>2 DEF Batching, BatchOk
<1>7. Sub(page'.buffer, page.buffer)
  BY <1>4 DEF Leaves
<1>8. ASSUME Live
      PROVE  /\ PipeOk(Names(page'.inbox), Names(down'), Asked(up), page'.buffer, left.own)
             /\ Follows(page', Board[page'.seq])
  <2>1. PipeInv /\ Follows(page, Board[page.seq])
    BY <1>8 DEF FInv, LiveInv
  <2>2. Newest(page, c)
    BY <1>1, <2>1, HeardIsNewest
  <2>3. Popping(Names(down'), Names(down)) /\ Names(down)[1] = Named(c)
    BY <1>1, NamesPop
  <2>4. PipeOk(Names(page.inbox), Names(down'), Asked(up), page'.buffer, left.own)
    BY <1>4, <2>1, <2>3, PipeHeard DEF PipeInv
  <2> QED
    BY <1>4, <2>1, <2>2, <2>4
<1> HIDE DEF c
<1> QED
  BY <1>1, <1>3, <1>4, <1>5, <1>6, <1>7, <1>8, PageMoves DEF FInv, CastInv

\* A mutation that waited in the queue is applied.
LEMMA DrainInboxFollows ==
    ASSUME IInv, FInv, DrainInbox
    PROVE  FInv'
<1> DEFINE c == Head(page.inbox)
           p == [page EXCEPT !.inbox = Tail(@)]
<1>1. /\ page.inbox # << >> /\ page.waiting = << >> /\ Apply(p, c) /\ UNCHANGED hist
      /\ down' = IF link' = "none" THEN << >> ELSE down
  BY DEF DrainInbox, EventLoop
<1>2. /\ IsPage(page) /\ PageInv(page) /\ hist \in Seq(Mutations) /\ SoundHist
      /\ Same(page.buffer, hist, up) /\ left \in Bounds /\ page.inbox \in Seq(Casts)
  BY DEF IInv, TypeInv, FInv, SoundInv, IsPage
<1>3. ~page.awaiting
  BY <1>1 DEF IInv, AwaitInv
<1>4. /\ p.view = page.view /\ p.journal = page.journal /\ p.buffer = page.buffer
      /\ p.crossed = page.crossed /\ p.seq = page.seq /\ p.inbox = Tail(page.inbox)
      /\ p.awaiting = page.awaiting /\ p.waiting = << >> /\ p.paused = page.paused
      /\ DOMAIN p = PageFields
  BY <1>1, <1>2 DEF IsPage, PageFields
<1>5. c \in Casts /\ Tail(page.inbox) \in Seq(Casts) /\ c.kind = "cast"
  <2>1. c \in Casts /\ Tail(page.inbox) \in Seq(Casts)
    BY <1>1, <1>2, Popped
  <2> QED
    BY <2>1 DEF Casts
<1> HIDE DEF p
<1>6. IsPage(p) /\ PageInv(p) /\ \A b : Follows(page, b) => Follows(p, b)
  BY <1>2, <1>4, <1>5, AlikePages DEF IsPage
<1>7. CASE ApplyGap(p, c)
  <2>1. down' = << >>
    BY <1>1, <1>7 DEF ApplyGap
  <2> QED
    BY <1>1, <1>6, <1>7, <2>1, ApplyGapFollows
<1>8. CASE ApplyCast(p, c)
  <2>1. left'.own = left.own /\ UNCHANGED <<up, link>>
    BY <1>2, <1>8, CastNumbers
  <2>2. down' = down
    <3>1. link # "none"
      BY <1>1 DEF IInv, LinkInv
    <3> QED
      BY <1>1, <2>1, <3>1
  <2>3. CastOk(c, hist) /\ Casting(Tail(page.inbox), hist)
    BY <1>1, <1>2, TailOk DEF FInv, CastInv
  <2>4. /\ PageInv(page') /\ page'.awaiting = p.awaiting /\ page'.inbox = p.inbox
        /\ Leaves(page'.buffer, p.buffer, Named(c))
        /\ WaitingOk(page'.waiting, hist, page'.seq) /\ page'.seq <= Len(hist)
        /\ Follows(p, Board[p.seq]) /\ Newest(p, c) => Follows(page', Board[page'.seq])
    BY <1>2, <1>4, <1>5, <1>6, <1>8, <2>3, ApplyCastFollows
  <2>5. Batching(down', hist, page'.seq)
    <3>1. \A j \in DOMAIN down : down[j].kind # "batch"
      BY <1>3 DEF IInv, AwaitInv
    <3> QED
      BY <2>2, <3>1 DEF Batching, BatchOk
  <2>6. Sub(page'.buffer, page.buffer)
    BY <1>4, <2>4 DEF Leaves
  <2>7. ASSUME Live
        PROVE  /\ PipeOk(Names(page'.inbox), Names(down), Asked(up), page'.buffer, left.own)
               /\ Follows(page', Board[page'.seq])
    <3>1. PipeInv /\ Follows(page, Board[page.seq])
      BY <2>7 DEF FInv, LiveInv
    <3>2. Newest(p, c)
      BY <1>1, <1>2, <1>4, <1>5, <3>1, HeardIsNewest
    <3>3. Popping(Names(Tail(page.inbox)), Names(page.inbox)) /\ Names(page.inbox)[1] = Named(c)
      BY <1>1, <1>2, NamesPop
    <3>4. Leaves(page'.buffer, page.buffer, Named(c))
      BY <1>4, <2>4
    <3>5. PipeOk(Names(Tail(page.inbox)), Names(down), Asked(up), page'.buffer, left.own)
      BY <3>1, <3>3, <3>4, PipeDrained DEF PipeInv
    <3> QED
      BY <1>4, <1>6, <2>4, <3>1, <3>2, <3>5
  <2> HIDE DEF c
  <2> QED
    BY <1>1, <1>3, <1>4, <2>1, <2>2, <2>3, <2>4, <2>5, <2>6, <2>7, PageMoves DEF FInv, CastInv
<1>9. ~ApplyReplay(p, c)
  BY <1>5 DEF ApplyReplay
<1> QED
  BY <1>1, <1>7, <1>8, <1>9 DEF Apply

\* A message waits for the one that waits for its tool.
LEMMA QueueFollows ==
    ASSUME IInv, FInv, page.waiting # << >>, down # << >>, Head(down).kind \in {"cast", "batch"},
           page' = [page EXCEPT !.inbox = Append(@, Head(down))], down' = Tail(down),
           UNCHANGED <<hist, up, link, left>>
    PROVE  FInv'
<1> DEFINE c == Head(down)
<1>1. /\ ~page.awaiting /\ down \in Seq(Sendings) /\ c \in Sendings
      /\ c.kind = "batch" => page.awaiting
  BY Hearing DEF IInv, AwaitInv
<1>2. c \in Casts
  BY <1>1 DEF Sendings, Batches, Answers
<1>3. IsPage(page) /\ PageInv(page) /\ page.inbox \in Seq(Casts)
  BY DEF IInv, TypeInv, FInv, IsPage
<1>4. /\ page'.view = page.view /\ page'.journal = page.journal /\ page'.buffer = page.buffer
      /\ page'.crossed = page.crossed /\ page'.seq = page.seq
      /\ page'.inbox = Append(page.inbox, c)
      /\ page'.awaiting = page.awaiting /\ page'.waiting = page.waiting
  BY <1>3 DEF IsPage, PageFields
<1>5. PageInv(page') /\ \A b : Follows(page, b) => Follows(page', b)
  BY <1>3, <1>4, AlikePages
<1>6. Sub(page'.buffer, page.buffer)
  BY <1>4 DEF Sub
<1>7. CastOk(c, hist) /\ Casting(down', hist) /\ Batching(down', hist, page'.seq)
  BY <1>1, <1>4, TailOk DEF FInv, CastInv
<1>8. Casting(page'.inbox, hist)
  <2>1. \A k \in DOMAIN page'.inbox :
           page'.inbox[k] = c \/ (k \in DOMAIN page.inbox /\ page'.inbox[k] = page.inbox[k])
    BY <1>2, <1>3, <1>4, Appended
  <2> QED
    BY <1>7, <2>1 DEF FInv, CastInv, Casting
<1>9. Passing(Names(page'.inbox), Names(page.inbox), Names(down'), Names(down))
  <2>1. Popping(Names(down'), Names(down)) /\ Names(down)[1] = Named(c)
    BY <1>1, NamesPop
  <2>2. Pushing(Names(page'.inbox), Names(page.inbox), Named(c))
    BY <1>2, <1>3, <1>4, NamesPush
  <2> QED
    BY <2>1, <2>2 DEF Passing
<1>10. Live => PipeOk(Names(page'.inbox), Names(down'), Asked(up), page'.buffer, left.own)
  BY <1>4, <1>9, PipeQueue DEF FInv, LiveInv, PipeInv
<1> HIDE DEF c
<1> QED
  BY <1>1, <1>4, <1>5, <1>6, <1>7, <1>8, <1>10, PageMoves DEF FInv, CastInv, LiveInv

\* The replay that comes first on a connection is drawn, and what was held is sent.
LEMMA ReplayFollows ==
    ASSUME IInv, FInv, down # << >>, ApplyReplay(page, Head(down)), down' = Tail(down),
           UNCHANGED hist
    PROVE  FInv'
<1> DEFINE b == Head(down)
           q == Replayed(page, b)
<1>1. b.kind = "batch" /\ UNCHANGED <<link, left>>
  BY DEF ApplyReplay
<1>2. PICK n \in 0 .. IF q.paused THEN 0 ELSE Cardinality(Queued(q.buffer)) :
         page' = Pumped(q, n) /\ up' = Sent(Messages(q, n))
  BY DEF ApplyReplay
<1>3. /\ b \in Sendings /\ down \in Seq(Sendings) /\ page.awaiting /\ up = << >>
      /\ page.waiting = << >> /\ page.inbox = << >> /\ link \in {"joined", "broken"}
  BY <1>1, Hearing
<1>4. b.ms \in Seq(Mutations) /\ Named(b) = {}
  BY <1>1, <1>3 DEF Sendings, Casts, Answers, Batches, Named
<1>5. /\ IsPage(page) /\ PageInv(page) /\ Len(page.journal) = 0 /\ hist \in Seq(Mutations)
      /\ SoundHist /\ Same(page.buffer, hist, up)
  BY <1>3 DEF IInv, TypeInv, FInv, SoundInv, EmptyInv
<1>6. PICK h \in Nat : h = Len(hist) /\ DOMAIN hist = 1 .. h
  BY <1>5, LenProperties
<1>7. PICK l \in Nat : l = Len(b.ms) /\ DOMAIN b.ms = 1 .. l
  BY <1>4, LenProperties
<1>8. /\ \A i \in DOMAIN b.ms : page.seq + i \in DOMAIN hist /\ hist[page.seq + i] = b.ms[i]
      /\ Casting(down', hist)
  <2>1. BatchOk(b, hist, page.seq) /\ Casting(down', hist)
    BY <1>3, TailOk DEF FInv, CastInv
  <2>2. b.kind = "batch"
    BY <1>1
  <2> HIDE DEF b
  <2> QED
    BY <2>1, <2>2 DEF BatchOk
<1>9. \A k \in DOMAIN b.ms : Sound(b.ms[k])
  <2> HIDE DEF b
  <2> SUFFICES ASSUME NEW k \in DOMAIN b.ms PROVE Sound(b.ms[k])
    OBVIOUS
  <2>1. page.seq + k \in DOMAIN hist /\ hist[page.seq + k] = b.ms[k]
    BY <1>8
  <2>2. Sound(hist[page.seq + k])
    BY <1>5, <2>1 DEF SoundHist
  <2> QED
    BY <2>1, <2>2
<1>10. IsDrawing(Board, Opened, hist, h)
  BY <1>5, <1>6, BoardFacts
<1> HIDE DEF q, b
<1>11. /\ IsPage(q) /\ PageInv(q) /\ q.seq = page.seq + l /\ ~q.awaiting
       /\ q.inbox = page.inbox /\ q.waiting = page.waiting /\ Sub(q.buffer, page.buffer)
       /\ page.seq + l <= h /\ Follows(page, Board[page.seq]) => Follows(q, Board[page.seq + l])
  <2> DEFINE r == Replayed(page, b)
  <2>1. /\ IsPage(r) /\ PageInv(r) /\ r.seq = page.seq + Len(b.ms) /\ ~r.awaiting
        /\ r.inbox = page.inbox /\ r.waiting = page.waiting /\ Sub(r.buffer, page.buffer)
        /\ /\ page.seq + Len(b.ms) <= h /\ \A k \in DOMAIN b.ms : hist[page.seq + k] = b.ms[k]
           /\ Follows(page, Board[page.seq])
           => Follows(r, Board[page.seq + Len(b.ms)])
    <3> HIDE DEF b
    <3> QED
      BY <1>4, <1>5, <1>9, <1>10, ReplayedKeeps
  <2>2. Len(b.ms) = l /\ \A k \in DOMAIN b.ms : hist[page.seq + k] = b.ms[k]
    BY <1>7, <1>8
  <2>3. q = r
    BY DEF q
  <2> HIDE DEF b, r
  <2> QED
    BY <2>1, <2>2, <2>3
<1>12. n \in Nat
  <2>1. CASE q.paused
    BY <1>2, <2>1
  <2>2. CASE ~q.paused
    <3>1. PICK c \in Nat : DOMAIN q.buffer = 1 .. c
      BY <1>11 DEF IsPage
    <3>2. Queued(q.buffer) \in SUBSET (1 .. c)
      BY <3>1 DEF Queued
    <3>3. PICK d \in Nat : d = Cardinality(Queued(q.buffer))
      BY <3>2, Ranks
    <3> QED
      BY <1>2, <2>2, <3>3
  <2> QED
    BY <2>1, <2>2
<1>13. /\ PageInv(page') /\ Else(page', q)
       /\ \A board : Follows(q, board) => Follows(page', board)
  BY <1>2, <1>11, <1>12, PumpedKeeps
<1>14. CanDraw(q) /\ up \in Seq(OwnMutations) /\ \A k \in DOMAIN up : Sound(up[k])
  BY <1>11 DEF CanDraw, PageInv, IInv, TypeInv, FInv, SoundInv
<1>15. Same(q.buffer, hist, up)
  <2>1. Sub(up, up)
    BY DEF Sub
  <2> QED
    BY <1>5, <1>11, <2>1, FewerSame
<1>16. page'.buffer = Pumped(q, n).buffer
  BY <1>2
<1>17. /\ Same(page'.buffer, hist, up') /\ \A k \in DOMAIN up' : Sound(up'[k])
       /\ \A I, D, low : /\ link = "joined" /\ low \in Nat
                         /\ \A k \in DOMAIN q.buffer : Num(q.buffer[k].m) > low
                         /\ PipeOk(I, D, Asked(up), q.buffer, low)
                         => PipeOk(I, D, Asked(up'), page'.buffer, low)
  BY <1>2, <1>12, <1>14, <1>15, <1>16, SendFollows
<1>18. Board' = Board /\ SoundInv'
  BY <1>17, BoardStays DEF FInv, SoundInv
<1>19. /\ page'.seq = page.seq + l /\ ~page'.awaiting /\ page'.inbox = << >>
       /\ page'.waiting = << >>
  BY <1>3, <1>11, <1>13 DEF Else
<1>20. CastInv'
  <2>1. \A k \in DOMAIN down' : down'[k].kind # "batch"
    <3>1. \A k \in DOMAIN down' : k + 1 \in DOMAIN down /\ down'[k] = down[k + 1] /\ k + 1 # 1
      BY <1>3, Popped
    <3> QED
      BY <3>1 DEF IInv, AwaitInv
  <2>2. Batching(down', hist, page'.seq)
    BY <2>1 DEF Batching, BatchOk
  <2> QED
    BY <1>8, <1>19, <2>2, NothingUnderWay DEF CastInv
<1>21. EmptyInv'
  BY <1>19 DEF EmptyInv
<1>22. LiveInv'
  <2>1. SUFFICES ASSUME Live
                 PROVE  /\ PipeOk(Names(<< >>), Names(down'), Asked(up'), page'.buffer, left.own)
                        /\ page.seq + l <= h /\ Follows(page', Board[page.seq + l])
    BY <1>1, <1>6, <1>18, <1>19 DEF LiveInv, Live, PipeInv
  <2>2. /\ PipeOk(Names(<< >>), Names(down), Asked(up), page.buffer, left.own)
        /\ page.seq <= h /\ Follows(page, Board[page.seq]) /\ link = "joined"
    BY <1>3, <1>6, <2>1 DEF FInv, LiveInv, PipeInv, Live
  <2>3. page.seq + l <= h
    <3>1. PICK z \in Nat : z = page.seq
      BY <1>5 DEF IsPage
    <3>2. CASE l = 0
      BY <2>2, <3>1, <3>2
    <3>3. CASE l # 0
      BY <1>6, <1>7, <1>8, <3>1, <3>3
    <3> QED
      BY <3>2, <3>3
  <2>4. Popping(Names(down'), Names(down)) /\ Names(down)[1] = {}
    <3>1. Popping(Names(Tail(down)), Names(down)) /\ Names(down)[1] = Named(Head(down))
      BY <1>3, NamesPop
    <3> QED
      BY <1>4, <3>1 DEF b
  <2>5. Leaves(q.buffer, page.buffer, Names(down)[1])
    BY <1>11, <2>4 DEF Leaves
  <2>6. PipeOk(Names(<< >>), Names(down'), Asked(up), q.buffer, left.own)
    BY <2>2, <2>4, <2>5, PipeHeard
  <2>7. left.own \in Nat /\ \A k \in DOMAIN q.buffer : Num(q.buffer[k].m) > left.own
    BY <1>11, PipeNumbered DEF Sub
  <2> QED
    BY <1>11, <1>13, <1>17, <2>2, <2>3, <2>6, <2>7
<1> QED
  BY <1>13, <1>17, <1>18, <1>20, <1>21, <1>22 DEF FInv

\* enqueueIncomingBroadcast
LEMMA HearBroadcastFollows ==
    ASSUME IInv, FInv, HearBroadcast
    PROVE  FInv'
<1>1. /\ EventLoop /\ down # << >> /\ Head(down).kind \in {"cast", "batch"}
      /\ down' = (IF link' = "none" THEN << >> ELSE Tail(down)) /\ UNCHANGED hist
  BY DEF HearBroadcast
<1>2. IsPage(page) /\ PageInv(page) /\ link # "none" /\ left \in Bounds
  BY <1>1 DEF IInv, TypeInv, FInv, LinkInv
<1>3. CASE page.waiting # << >>
  <2>1. /\ page' = [page EXCEPT !.inbox = Append(@, Head(down))]
        /\ UNCHANGED <<up, link, left>>
    BY <1>3 DEF HearBroadcast
  <2> QED
    BY <1>1, <1>2, <1>3, <2>1, QueueFollows
<1>4. CASE page.waiting = << >>
  <2>1. Apply(page, Head(down))
    BY <1>4 DEF HearBroadcast
  <2>2. CASE ApplyReplay(page, Head(down))
    BY <1>1, <1>2, <2>2, ReplayFollows DEF ApplyReplay
  <2>3. CASE ApplyCast(page, Head(down))
    BY <1>1, <1>2, <1>4, <2>3, CastNumbers, HearCastFollows
  <2>4. CASE ApplyGap(page, Head(down))
    <3>1. down' = << >>
      BY <1>1, <2>4 DEF ApplyGap
    <3> QED
      BY <1>1, <1>2, <2>4, <3>1, ApplyGapFollows
  <2> QED
    BY <2>1, <2>2, <2>3, <2>4 DEF Apply
<1> QED
  BY <1>3, <1>4

-----------------------------------------------------------------------------
(* The theorem *)

\* A page that was just opened shows the stored board, and nothing is under way.
LEMMA InitFInv == Init => FInv
<1> SUFFICES ASSUME Init PROVE FInv
  OBVIOUS
<1>1. /\ hist = << >> /\ up = << >> /\ down = << >>
      /\ page = [view |-> Opened, seq |-> 0, awaiting |-> FALSE, paused |-> FALSE,
                 journal |-> << >>, buffer |-> << >>, inbox |-> << >>,
                 waiting |-> << >>, pending |-> << >>, stray |-> {}, crossed |-> FALSE]
  BY DEF Init
<1>2. /\ page.view = Opened /\ page.seq = 0 /\ page.journal = << >> /\ page.buffer = << >>
      /\ page.inbox = << >> /\ page.waiting = << >> /\ page.crossed = FALSE
      /\ page.awaiting = FALSE
  BY <1>1
<1>3. DOMAIN << >> = {} /\ hist \in Seq(Mutations) /\ Len(hist) = 0
  BY <1>1
<1>4. BufferOk(page.buffer) /\ \A k \in DOMAIN page.buffer : page.buffer[k].redraw
  BY <1>2, <1>3 DEF BufferOk
<1>5. PageInv(page) /\ Len(page.journal) = 0 /\ Follows(page, page.view)
  BY <1>2, <1>4, OpenedView, FreshPage
<1>6. SoundHist /\ \A k \in DOMAIN up : Sound(up[k])
  BY <1>1, <1>3 DEF SoundHist
<1>7. Board[page.seq] = page.view /\ page.seq <= Len(hist)
  <2>1. IsDrawing(Board, Opened, hist, Len(hist))
    BY <1>3, <1>6, BoardFacts
  <2> QED
    BY <1>2, <1>3, <2>1 DEF IsDrawing
<1>8. Same(page.buffer, hist, up)
  BY <1>2, <1>3 DEF Same
<1>9. CastInv
  BY <1>1, <1>2, NothingUnderWay DEF CastInv
<1>10. PipeInv
  <2>1. DOMAIN Names(<< >>) = {} /\ DOMAIN Asked(<< >>) = {}
    BY DEF Names, Asked
  <2>2. \A k \in DOMAIN page.buffer : page.buffer[k].queued
    BY <1>2, <1>3
  <2>3. PipeOk(Names(<< >>), Names(<< >>), Asked(<< >>), page.buffer, left.own)
    BY <2>1, <2>2, PipeEmpty
  <2> QED
    BY <1>1, <1>2, <2>3 DEF PipeInv
<1> QED
  BY <1>2, <1>5, <1>6, <1>7, <1>8, <1>9, <1>10 DEF FInv, SoundInv, EmptyInv, LiveInv

\* A board that is not guarded, and a page that was never told that it passed a check
OpenInv ==
    /\ left.guarded = FALSE /\ gate.told = FALSE
    /\ DOMAIN gate = {"cleared", "told", "valid", "ignored"}

\* Nothing of a check happens on such a board.
LEMMA NothingIsChecked ==
    ASSUME OpenInv
    PROVE  /\ ~Ignore /\ ~VerifyToken
           /\ \A m : ~DrawAndKeep(m)
           /\ \A n : ~FlushPendingWrites(n)
BY DEF OpenInv, Ignore, Cleared, VerifyToken, DrawAndKeep, FlushPendingWrites

\* A board does not become a guarded one.
LEMMA BoardStaysOpen == IInv /\ OpenInv /\ [Next]_vars => OpenInv'
<1> SUFFICES ASSUME IInv, OpenInv, [Next]_vars PROVE OpenInv'
  OBVIOUS
<1>1. left \in Bounds
  BY DEF IInv, TypeInv
<1>2. ASSUME NEW what \in Spent, Spend(what)
      PROVE  left'.guarded = left.guarded
  <2>1. "guarded" \in DOMAIN left /\ "guarded" # what
    BY <1>1 DEF Bounds, Spent
  <2> QED
    BY <1>1, <1>2, <2>1, SpendFacts
<1>3. left' = left \/ \E what \in Spent : Spend(what)
  <2>1. \A p, c : Apply(p, c) => UNCHANGED left \/ Spend("waits")
    BY DEF Apply, ApplyReplay, ApplyCast, ApplyGap
  <2>2. HearBroadcast \/ DrainInbox => UNCHANGED left \/ Spend("waits")
    BY <2>1 DEF HearBroadcast, DrainInbox
  <2>3. (\E m, n : DrawAndSend(m, n)) => Spend("own")
    BY DEF DrawAndSend
  <2>4. (\E m : OtherWrites(m)) => Spend("others")
    BY DEF OtherWrites
  <2>5. (\E n : Cut(n)) => Spend("cuts")
    BY DEF Cut
  <2>6. Refuse => UNCHANGED left \/ Spend("refusals")
    BY DEF Refuse
  <2>7. Limit => Spend("limits")
    BY DEF Limit
  <2>8. \/ ValidationEnds \/ ClearanceEnds \/ Accept \/ ToolReady \/ HearRejection \/ HearLimit
        \/ PauseEnds \/ Disconnected \/ Join \/ (\E n : PumpBufferedWrites(n))
        \/ (\E n : Start(n)) \/ UNCHANGED vars
        => UNCHANGED left
    BY DEF ValidationEnds, ClearanceEnds, Accept, ToolReady, HearRejection, HearLimit, PauseEnds,
           Disconnected, Join, PumpBufferedWrites, Start, vars
  <2>9. {"own", "others", "refusals", "limits", "waits", "cuts"} \subseteq Spent
    BY DEF Spent
  <2> QED
    BY <2>2, <2>3, <2>4, <2>5, <2>6, <2>7, <2>8, <2>9, NothingIsChecked DEF Next
<1>4. left'.guarded = FALSE
  BY <1>2, <1>3 DEF OpenInv
<1>5. gate'.told = FALSE /\ DOMAIN gate' = {"cleared", "told", "valid", "ignored"}
  <2>1. CASE UNCHANGED gate
    BY <2>1 DEF OpenInv
  <2>2. CASE gate' = Unchecked
    BY <2>2 DEF Unchecked
  <2>3. CASE \/ gate' = [gate EXCEPT !.valid = FALSE]
             \/ gate' = [gate EXCEPT !.cleared = FALSE]
             \/ gate' = [gate EXCEPT !.ignored = {}]
    BY <2>3 DEF OpenInv
  <2>4. ValidationEnds => gate' = [gate EXCEPT !.valid = FALSE]
    BY DEF ValidationEnds
  <2>5. ClearanceEnds => gate' = [gate EXCEPT !.cleared = FALSE]
    BY DEF ClearanceEnds
  <2>6. (\E n : Start(n)) => gate' = [gate EXCEPT !.ignored = {}]
    BY DEF Start
  <2>7. Join => gate' = Unchecked
    BY DEF Join
  <2>8. \/ Accept \/ Refuse \/ Limit \/ HearBroadcast \/ ToolReady \/ DrainInbox
        \/ HearRejection \/ HearLimit \/ PauseEnds \/ Disconnected
        \/ (\E m, n : DrawAndSend(m, n)) \/ (\E n : PumpBufferedWrites(n))
        \/ (\E m : OtherWrites(m)) \/ (\E n : Cut(n)) \/ UNCHANGED vars
        => UNCHANGED gate
    BY DEF Accept, Refuse, Limit, HearBroadcast, ToolReady, DrainInbox, HearRejection, HearLimit,
           PauseEnds, Disconnected, DrawAndSend, PumpBufferedWrites, OtherWrites, Cut, vars
  <2> QED
    BY <2>1, <2>2, <2>3, <2>4, <2>5, <2>6, <2>7, <2>8, NothingIsChecked DEF Next
<1> QED
  BY <1>4, <1>5 DEF OpenInv

\* Every step keeps it, on a board that is not guarded.
LEMMA NextFInv ==
    stored \in Nat /\ IInv /\ OpenInv /\ FInv /\ [Next]_vars => FInv'
<1> SUFFICES ASSUME stored \in Nat, IInv, OpenInv, FInv, [Next]_vars PROVE FInv'
  OBVIOUS
<1>1. ASSUME NEW m \in Makes("own", page.view), NEW n \in 0 .. Len(page.buffer) + 1,
             DrawAndSend(m, n)
      PROVE  FInv'
  <2>1. n \in Nat
    BY LenProperties DEF IInv, TypeInv, IsPage
  <2> QED
    BY <1>1, <2>1, DrawAndSendFollows
<1>2. ASSUME NEW n \in 1 .. Len(page.buffer), PumpBufferedWrites(n)
      PROVE  FInv'
  <2>1. n \in Nat
    BY LenProperties DEF IInv, TypeInv, IsPage
  <2> QED
    BY <1>2, <2>1, PumpFollows
<1>3. CASE Accept
  BY <1>3, AcceptFollows
<1>4. CASE Refuse
  BY <1>4, RefuseFollows
<1>5. CASE Limit
  BY <1>5, LimitFollows
<1>6. ASSUME NEW m \in Makes("others", Now), OtherWrites(m)
      PROVE  FInv'
  BY <1>6, OtherWritesFollows
<1>7. ASSUME NEW n \in 0 .. Len(down), Cut(n)
      PROVE  FInv'
  BY <1>7, CutFollows
<1>8. CASE HearBroadcast
  BY <1>8, HearBroadcastFollows
<1>9. CASE ToolReady
  BY <1>9, ToolReadyFollows
<1>10. CASE DrainInbox
  BY <1>10, DrainInboxFollows
<1>11. CASE HearRejection
  BY <1>11, HearRejectionFollows
<1>12. CASE HearLimit
  BY <1>12, HearLimitFollows
<1>13. CASE PauseEnds
  BY <1>13, PauseEndsFollows
<1>14. CASE Disconnected
  BY <1>14, DisconnectedFollows
<1>15. ASSUME NEW n \in stored .. Len(hist), Start(n)
       PROVE  FInv'
  <2>1. PICK l \in Nat : l = Len(hist)
    BY LenProperties DEF IInv, TypeInv
  <2>2. n \in Nat
    BY <2>1
  <2> QED
    BY <1>15, <2>2, StartFollows
<1>16. CASE Join
  BY <1>16, JoinFollows
<1>17. CASE ValidationEnds \/ ClearanceEnds \/ UNCHANGED vars
  <2>1. UNCHANGED <<hist, page, up, down, link, left>>
    BY <1>17 DEF vars, ValidationEnds, ClearanceEnds
  <2>2. Board' = Board /\ SoundHist'
    BY <2>1, BoardStays DEF FInv, SoundInv
  <2>3. SoundInv' /\ CastInv' /\ EmptyInv' /\ Same(page'.buffer, hist', up')
    BY <2>1, <2>2 DEF FInv, SoundInv, CastInv, EmptyInv
  <2>4. LiveInv'
    BY <2>1, <2>2 DEF FInv, LiveInv, Live, PipeInv
  <2> QED
    BY <2>1, <2>3, <2>4 DEF FInv
<1> QED
  BY <1>1, <1>2, <1>3, <1>4, <1>5, <1>6, <1>7, <1>8, <1>9, <1>10, <1>11, <1>12, <1>13, <1>14,
     <1>15, <1>16, <1>17, NothingIsChecked DEF Next

\* It is what a page promises.
LEMMA FollowsIsEnough == IInv /\ FInv => PageFollowsServer
<1> SUFFICES ASSUME IInv, FInv PROVE PageFollowsServer
  OBVIOUS
<1>1. PageInv(page) /\ Distinct(page.buffer) /\ Distinct(page.journal)
  BY DEF FInv, PageInv, IInv, TypeInv, IsPage
<1>2. JournalFollowsBuffer
  <2>1. Ids(page.journal) \subseteq Ids(page.buffer)
    BY <1>1 DEF PageInv, Matching, Ids
  <2>2. \A k \in DOMAIN page.buffer :
           page.buffer[k].redraw \/ page.buffer[k].m.id \in Ids(page.journal)
    BY <1>1 DEF PageInv, Matching, Ids
  <2> QED
    BY <1>1, <2>1, <2>2 DEF JournalFollowsBuffer
<1>3. ASSUME Settled, ~page.crossed
      PROVE  page.view = Now
  <2>1. link = "joined" /\ page.seq = Len(hist) /\ page.journal = << >>
    BY <1>3 DEF Settled
  <2>2. Follows(page, Board[page.seq]) /\ Len(page.journal) = 0
    BY <2>1 DEF FInv, LiveInv, Live
  <2>3. page.view = Board[page.seq]
    BY <1>1, <1>3, <2>2, JournalEmpty
  <2> QED
    BY <2>1, <2>3 DEF Now
<1> QED
  BY <1>2, <1>3 DEF PageFollowsServer, AgreesUnlessCrossed

\* On a board that is not guarded, what is pending can be answered and undone, and a page
\* for which nothing is pending shows the board unless it was crossed (PageFollowsServer).
THEOREM PagesFollowTheServer ==
    ASSUME \A s \in Scenarios : s.guarded = FALSE
    PROVE  Spec => []PageFollowsServer
<1>1. Init => stored \in Nat
  BY DEF Init
<1>2. Init => OpenInv
  BY DEF Init, OpenInv, Unchecked
<1> QED
  BY <1>1, <1>2, InitIInv, NextIInv, BoardStaysOpen, InitFInv, NextFInv, FollowsIsEnough,
     StoredKept, PTL DEF Spec
=============================================================================
