------------------------- MODULE EventStreamProofs -------------------------
(***************************************************************************)
(* EventStream for any number of jobs, readers, rows, batches and faults:  *)
(* a console has received exactly the rows of its run up to the last one,  *)
(* in order and once, and a stream says done only after the event that     *)
(* ends the run.                                                           *)
(*                                                                         *)
(* The invariant follows the rows a stream has chosen: what the console    *)
(* has received, what is in the socket and what is left of the batch are,  *)
(* one after the other, the rows of the job from the first on, with none   *)
(* left out; and the server's place in the table is the last row it wrote. *)
(***************************************************************************)
EXTENDS EventStream, FiniteSetTheorems, SequenceTheorems, WellFoundedInduction, TLAPS

(* The step of induction over the naturals: a set has a least element. *)
LEMMA LeastNat ==
    ASSUME NEW T \in SUBSET Nat, T # {}
    PROVE  \E x \in T : \A y \in T : x <= y
<1> DEFINE R == OpToRel(<, Nat)
<1>1. IsWellFoundedOn(R, Nat)
  BY NatLessThanWellFounded
<1>2. \A x, y \in Nat : x < y => <<x, y>> \in R
  BY DEF OpToRel
<1>3. \E x \in T : \A y \in T : ~(<<y, x>> \in R)
  <2> HIDE DEF R
  <2> QED
    BY <1>1, WFMin
<1>4. PICK x \in T : \A y \in T : ~(<<y, x>> \in R)
  BY <1>3
<1>5. ASSUME NEW y \in T
      PROVE  x <= y
  <2> HIDE DEF R
  <2>1. ~(y < x)
    BY <1>2, <1>4
  <2> QED
    BY <2>1
<1> QED
  BY <1>5

(* A set of n numbers can be listed in increasing order. *)
Sorted(S, n) ==
    \E s \in [1..n -> S] : \A i, k \in 1..n : i < k => s[i] < s[k]

LEMMA EnumerationExists ==
    ASSUME NEW S \in SUBSET Nat, IsFiniteSet(S)
    PROVE  Sorted(S, Cardinality(S))
<1> DEFINE Bad == {n \in Nat : \E X \in SUBSET Nat :
                      IsFiniteSet(X) /\ Cardinality(X) = n /\ ~Sorted(X, n)}
<1>1. ASSUME NEW n \in Bad, \A y \in Bad : n <= y
      PROVE  FALSE
  <2>1. PICK X \in SUBSET Nat : IsFiniteSet(X) /\ Cardinality(X) = n /\ ~Sorted(X, n)
    OBVIOUS
  <2>2. n \in Nat
    OBVIOUS
  <2>3. CASE X = {}
    <3>1. n = 0
      BY <2>1, <2>3, FS_EmptySet
    <3>2. 1..0 = {}
      OBVIOUS
    <3>3. [i \in 1..0 |-> 0] \in [1..0 -> X]
      BY <3>2
    <3> QED
      BY <2>1, <3>1, <3>2, <3>3 DEF Sorted
  <2>4. CASE X # {}
    <3>1. PICK m \in X : \A y \in X : m <= y
      BY <2>4, LeastNat
    <3>2. /\ IsFiniteSet(X \ {m})
          /\ Cardinality(X \ {m}) = n - 1
      BY <2>1, <3>1, FS_RemoveElement
    <3>3. n \in Nat \ {0} /\ n - 1 \in Nat
      BY <2>1, <2>2, <2>4, FS_EmptySet
    <3>4. n - 1 \notin Bad
      BY <1>1, <3>3
    <3>5. Sorted(X \ {m}, n - 1)
      BY <3>2, <3>3, <3>4
    <3>6. PICK t \in [1..(n - 1) -> X \ {m}] :
             \A i, k \in 1..(n - 1) : i < k => t[i] < t[k]
      BY <3>5 DEF Sorted
    <3> DEFINE s == [i \in 1..n |-> IF i = 1 THEN m ELSE t[i - 1]]
    <3>7. \A i \in 1..n : i # 1 => /\ i - 1 \in 1..(n - 1)
                                   /\ t[i - 1] \in X \ {m} /\ m < t[i - 1]
      <4> TAKE i \in 1..n
      <4> HAVE i # 1
      <4>1. i - 1 \in 1..(n - 1)
        BY <3>3
      <4>2. t[i - 1] \in X \ {m}
        BY <4>1, <3>6
      <4>3. m <= t[i - 1] /\ m # t[i - 1]
        BY <4>2, <3>1
      <4> QED
        <5>1. m \in Nat /\ t[i - 1] \in Nat
          BY <3>1, <4>2
        <5>2. m < t[i - 1]
          BY <4>3, <5>1
        <5> QED
          BY <4>1, <4>2, <5>2
    <3>8. s \in [1..n -> X]
      BY <3>1, <3>7
    <3>9. ASSUME NEW i \in 1..n, NEW k \in 1..n, i < k
          PROVE  s[i] < s[k]
      <4>1. k # 1 /\ s[k] = t[k - 1]
        BY <3>9
      <4>2. CASE i = 1
        BY <3>7, <4>1, <4>2
      <4>3. CASE i # 1
        <5>1. s[i] = t[i - 1] /\ i - 1 < k - 1
          BY <4>3, <3>9
        <5> QED
          BY <3>6, <3>7, <4>1, <4>3, <5>1
      <4> QED
        BY <4>2, <4>3
    <3> QED
      BY <2>1, <3>8, <3>9 DEF Sorted
  <2> QED
    BY <2>3, <2>4
<1>2. Bad = {}
  <2> SUFFICES ASSUME Bad # {} PROVE FALSE
    OBVIOUS
  <2>1. Bad \in SUBSET Nat
    OBVIOUS
  <2> HIDE DEF Bad
  <2> QED
    BY <1>1, <2>1, LeastNat
<1>3. Cardinality(S) \in Nat
  BY FS_CardinalityType
<1> QED
  BY <1>2, <1>3

(* What InOrder chooses. *)
LEMMA InOrderFacts ==
    ASSUME NEW S \in SUBSET Nat, IsFiniteSet(S)
    PROVE  /\ InOrder(S) \in Seq(Nat)
           /\ \A i, k \in 1..Len(InOrder(S)) : i < k => InOrder(S)[i] < InOrder(S)[k]
           /\ \A k \in 1..Len(InOrder(S)) : InOrder(S)[k] \in S
           /\ \A e \in S : \E k \in 1..Len(InOrder(S)) : InOrder(S)[k] = e
<1> DEFINE n == Cardinality(S)
<1>1. n \in Nat
  BY FS_CardinalityType
<1>2. /\ InOrder(S) \in [1..n -> S]
      /\ \A i, k \in 1..n : i < k => InOrder(S)[i] < InOrder(S)[k]
  BY EnumerationExists DEF InOrder, Sorted
<1>3. InOrder(S) \in Seq(Nat) /\ Len(InOrder(S)) = n
  <2> HIDE DEF n
  <2>1. InOrder(S) \in [1..n -> Nat]
    BY <1>2
  <2>2. InOrder(S) \in Seq(Nat)
    BY <1>1, <2>1, SeqDef
  <2>3. 1..Len(InOrder(S)) = 1..n /\ Len(InOrder(S)) \in Nat
    BY <2>1, <2>2, LenProperties
  <2> QED
    BY <1>1, <2>2, <2>3
<1>4. InOrder(S) \in Injection(1..n, S)
  <2> HIDE DEF n
  <2>1. ASSUME NEW i \in 1..n, NEW k \in 1..n, InOrder(S)[i] = InOrder(S)[k]
        PROVE  i = k
    <3>1. InOrder(S)[i] \in Nat
      BY <1>2
    <3>2. ~(i < k) /\ ~(k < i)
      BY <1>2, <2>1, <3>1
    <3> QED
      BY <1>1, <3>2
  <2> QED
    BY <1>2, <2>1 DEF Injection, IsInjective
<1>5. Cardinality(1..n) = n
  BY <1>1, FS_Interval
<1>6. InOrder(S) \in Surjection(1..n, S)
  BY <1>4, <1>5, FS_Injection
<1> QED
  BY <1>2, <1>3, <1>6 DEF Surjection
-----------------------------------------------------------------------------
(* The shapes of the server's side of a stream. *)

OpenConn ==
    [at : {"get", "list", "send", "done", "expired"}, last : Nat, over : BOOLEAN,
     batch : Seq(Nat), rounds : 0..1]

LEMMA ConnShapes ==
    ASSUME NEW n \in Conn
    PROVE  n.at = "closed" \/ n \in OpenConn
BY DEF Conn, OpenConn

LEMMA OpenIsConn ==
    /\ Closed \in Conn /\ Closed.at = "closed"
    /\ \A n \in OpenConn : n \in Conn /\ n.at # "closed"
BY DEF Conn, OpenConn, Closed

(* The table of rows only grows, and a row keeps its place. *)
LEMMA AddGrows ==
    ASSUME rows \in Seq(Row), NEW j \in Jobs, NEW n \in Nat, NEW ends \in BOOLEAN,
           Add(j, n, ends)
    PROVE  /\ rows' \in Seq(Row)
           /\ Len(rows') = Len(rows) + n
           /\ \A i \in 1..Len(rows) : rows'[i] = rows[i]
           /\ \A i \in (Len(rows) + 1)..(Len(rows) + n) :
                 rows'[i] = [job |-> j, ends |-> ends]
<1> DEFINE e == [job |-> j, ends |-> ends]
           s == [i \in 1..n |-> e]
<1>1. e \in Row
  BY DEF Row
<1>2. rows' = rows \o s
  BY DEF Add
<1>3. s \in [1..n -> Row] /\ \A i \in 1..n : s[i] = e
  BY <1>1
<1> HIDE DEF e, s
<1>4. s \in Seq(Row)
  BY <1>3, SeqDef
<1>5. Len(s) = n
  <2>1. 1..Len(s) = 1..n /\ Len(s) \in Nat
    BY <1>3, <1>4, LenProperties
  <2> QED
    BY <2>1
<1>6. /\ rows \o s \in Seq(Row)
      /\ Len(rows \o s) = Len(rows) + n
      /\ \A i \in 1..(Len(rows) + n) :
            (rows \o s)[i] = IF i <= Len(rows) THEN rows[i] ELSE s[i - Len(rows)]
  BY <1>4, <1>5, ConcatProperties
<1>7. Len(rows) \in Nat
  BY LenProperties
<1>8. ASSUME NEW i \in (Len(rows) + 1)..(Len(rows) + n)
      PROVE  rows'[i] = e
  <2>1. i \in 1..(Len(rows) + n) /\ ~(i <= Len(rows)) /\ i - Len(rows) \in 1..n
    BY <1>7, <1>8
  <2> QED
    BY <1>2, <1>3, <1>6, <2>1
<1> QED
  BY <1>2, <1>6, <1>7, <1>8 DEF e

(* The rows a stream has still to send are finitely many, so they are listed. *)
LEMMA RowsListed ==
    ASSUME rows \in Seq(Row), NEW j, NEW last \in Nat
    PROVE  LET b == InOrder(EventsAfter(j, last))
           IN  /\ b \in Seq(Nat)
               /\ \A i, k \in 1..Len(b) : i < k => b[i] < b[k]
               /\ \A k \in 1..Len(b) : b[k] \in EventsAfter(j, last)
               /\ \A e \in EventsAfter(j, last) : \E k \in 1..Len(b) : b[k] = e
<1>1. DOMAIN rows = 1..Len(rows) /\ Len(rows) \in Nat
  BY LenProperties
<1>2. /\ EventsAfter(j, last) \in SUBSET Nat
      /\ EventsAfter(j, last) \in SUBSET (1..Len(rows))
  BY <1>1 DEF EventsAfter, RowIds
<1>3. IsFiniteSet(EventsAfter(j, last))
  <2>1. IsFiniteSet(1..Len(rows))
    BY <1>1, FS_Interval
  <2> QED
    BY <1>2, <2>1, FS_Subset
<1> QED
  BY <1>2, <1>3, InOrderFacts
-----------------------------------------------------------------------------
(* What a round of the loop does to the server's side of the stream it serves, *)
(* and to no other.                                                            *)
OnlyConn(r) ==
    /\ conn' \in [Readers -> Conn]
    /\ conn'[r] \in OpenConn
    /\ \A q \in Readers \ {r} : conn'[q] = conn[q]

LEMMA GetJobEffect ==
    ASSUME TypeOK, NEW r \in Readers, GetJob(r)
    PROVE  /\ OnlyConn(r)
           /\ conn'[r].at = "list" /\ conn'[r].over = (client[r].job \in over)
           /\ conn'[r].last = conn[r].last /\ conn'[r].batch = conn[r].batch
<1> DEFINE o == client[r].job \in over
           w == [conn[r] EXCEPT !.at = "list", !.over = o]
<1>1. conn[r] \in OpenConn /\ o \in BOOLEAN
  BY ConnShapes DEF GetJob, TypeOK
<1>2. conn' = [conn EXCEPT ![r] = w]
  BY DEF GetJob
<1> HIDE DEF o
<1>3. /\ w \in OpenConn /\ w.at = "list" /\ w.over = o
      /\ w.last = conn[r].last /\ w.batch = conn[r].batch
  BY <1>1 DEF OpenConn
<1> HIDE DEF w
<1>4. OnlyConn(r) /\ conn'[r] = w
  BY <1>2, <1>3, OpenIsConn DEF TypeOK, OnlyConn
<1> QED
  BY <1>3, <1>4 DEF o

LEMMA ListEventsEffect ==
    ASSUME TypeOK, NEW r \in Readers, ListEvents(r)
    PROVE  /\ OnlyConn(r)
           /\ InOrder(EventsAfter(client[r].job, conn[r].last)) \in Seq(Nat)
           /\ conn'[r].at = "send"
           /\ conn'[r].batch = InOrder(EventsAfter(client[r].job, conn[r].last))
           /\ conn'[r].last = conn[r].last /\ conn'[r].over = conn[r].over
<1> DEFINE b == InOrder(EventsAfter(client[r].job, conn[r].last))
           w == [conn[r] EXCEPT !.at = "send", !.batch = b]
<1>1. conn[r] \in OpenConn
  BY ConnShapes DEF ListEvents, TypeOK
<1>2. b \in Seq(Nat)
  <2>1. conn[r].last \in Nat
    BY <1>1 DEF OpenConn
  <2> QED
    BY <2>1, RowsListed DEF TypeOK
<1>3. conn' = [conn EXCEPT ![r] = w]
  BY DEF ListEvents
<1> HIDE DEF b
<1>4. /\ w \in OpenConn /\ w.at = "send" /\ w.batch = b
      /\ w.last = conn[r].last /\ w.over = conn[r].over
  BY <1>1, <1>2 DEF OpenConn
<1> HIDE DEF w
<1>5. OnlyConn(r) /\ conn'[r] = w
  BY <1>3, <1>4, OpenIsConn DEF TypeOK, OnlyConn
<1> QED
  BY <1>2, <1>4, <1>5 DEF b

LEMMA SendEventEffect ==
    ASSUME TypeOK, NEW r \in Readers, SendEvent(r)
    PROVE  /\ OnlyConn(r)
           /\ conn[r].batch \in Seq(Nat) /\ conn[r].batch # <<>>
           /\ Head(conn[r].batch) \in Nat
           /\ conn'[r].at = "send" /\ conn'[r].over = conn[r].over
           /\ conn'[r].last = Head(conn[r].batch) /\ conn'[r].batch = Tail(conn[r].batch)
           /\ wire' \in [Readers -> Seq(Nat)]
           /\ wire'[r] = Append(wire[r], Head(conn[r].batch))
           /\ \A q \in Readers \ {r} : wire'[q] = wire[q]
<1> DEFINE w == [conn[r] EXCEPT !.last = Head(conn[r].batch), !.batch = Tail(conn[r].batch)]
           f == Append(wire[r], Head(conn[r].batch))
<1>1. conn[r] \in OpenConn /\ conn[r].at = "send"
  BY ConnShapes DEF SendEvent, TypeOK
<1>2. conn[r].batch \in Seq(Nat) /\ conn[r].batch # <<>>
  BY <1>1 DEF OpenConn, SendEvent
<1>3. Head(conn[r].batch) \in Nat /\ Tail(conn[r].batch) \in Seq(Nat)
  BY <1>2, HeadTailProperties
<1>4. /\ w \in OpenConn /\ w.at = "send" /\ w.over = conn[r].over
      /\ w.last = Head(conn[r].batch) /\ w.batch = Tail(conn[r].batch)
  BY <1>1, <1>3 DEF OpenConn
<1>5. conn' = [conn EXCEPT ![r] = w] /\ wire' = [wire EXCEPT ![r] = f]
  BY DEF SendEvent
<1>6. f \in Seq(Nat)
  BY <1>3, AppendProperties DEF TypeOK
<1> HIDE DEF w
<1>7. OnlyConn(r) /\ conn'[r] = w
  BY <1>4, <1>5, OpenIsConn DEF TypeOK, OnlyConn
<1>8. /\ wire' \in [Readers -> Seq(Nat)] /\ wire'[r] = f
      /\ \A q \in Readers \ {r} : wire'[q] = wire[q]
  <2> HIDE DEF f
  <2> QED
    BY <1>5, <1>6 DEF TypeOK
<1> QED
  BY <1>2, <1>3, <1>4, <1>7, <1>8

LEMMA RoundEndsEffect ==
    ASSUME TypeOK, NEW r \in Readers, RoundEnds(r)
    PROVE  /\ OnlyConn(r)
           /\ conn'[r].at = IF SawEnd(r) THEN "done" ELSE "get"
           /\ conn'[r].last = conn[r].last /\ conn'[r].batch = conn[r].batch
           /\ conn'[r].over = conn[r].over
<1> DEFINE a == IF SawEnd(r) THEN "done" ELSE "get"
           w == [conn[r] EXCEPT !.at = a, !.rounds = 1]
<1>1. conn[r] \in OpenConn /\ a \in {"done", "get"}
  BY ConnShapes DEF RoundEnds, TypeOK
<1>3. conn' = [conn EXCEPT ![r] = w]
  BY DEF RoundEnds
<1> HIDE DEF a
<1>2. /\ w \in OpenConn /\ w.at = a /\ w.over = conn[r].over
      /\ w.last = conn[r].last /\ w.batch = conn[r].batch
  <2>1. 1 \in 0..1
    OBVIOUS
  <2>2. /\ w.at = a /\ w.over = conn[r].over
        /\ w.last = conn[r].last /\ w.batch = conn[r].batch
    BY <1>1 DEF OpenConn
  <2>3. w \in OpenConn
    BY <1>1, <2>1 DEF OpenConn
  <2> QED
    BY <2>2, <2>3
<1>4. a = IF SawEnd(r) THEN "done" ELSE "get"
  BY DEF a
<1> HIDE DEF w
<1> QED
  BY <1>2, <1>3, <1>4, OpenIsConn DEF TypeOK, OnlyConn

LEMMA DeadlineEffect ==
    ASSUME TypeOK, NEW r \in Readers, Deadline(r)
    PROVE  /\ OnlyConn(r)
           /\ conn'[r].at = "expired"
           /\ conn'[r].last = conn[r].last /\ conn'[r].batch = conn[r].batch
           /\ conn'[r].over = conn[r].over
<1> DEFINE w == [conn[r] EXCEPT !.at = "expired"]
<1>1. conn[r] \in OpenConn
  BY ConnShapes DEF Deadline, TypeOK
<1>2. /\ w \in OpenConn /\ w.at = "expired" /\ w.over = conn[r].over
      /\ w.last = conn[r].last /\ w.batch = conn[r].batch
  BY <1>1 DEF OpenConn
<1>3. conn' = [conn EXCEPT ![r] = w]
  BY DEF Deadline
<1> HIDE DEF w
<1> QED
  BY <1>2, <1>3, OpenIsConn DEF TypeOK, OnlyConn
-----------------------------------------------------------------------------
(* What the browser's steps do. *)

LEMMA WatchEffect ==
    ASSUME TypeOK, NEW r \in Readers, NEW j \in Jobs, Watch(r, j)
    PROVE  /\ client' \in [Readers -> Client]
           /\ client'[r].at = "connecting" /\ client'[r].job = j
           /\ \A q \in Readers \ {r} : client'[q] = client[q]
<1> DEFINE d == [at |-> "connecting", job |-> j]
<1>1. d \in Client /\ d.at = "connecting" /\ d.job = j
  BY DEF Client
<1>2. client' = [client EXCEPT ![r] = d]
  BY DEF Watch
<1> HIDE DEF d
<1> QED
  BY <1>1, <1>2 DEF TypeOK

(* The client of reader r moves to `a` and still asks for the same job. *)
OnlyClient(r, a) ==
    /\ client' \in [Readers -> Client]
    /\ client'[r].at = a /\ client'[r].job = client[r].job
    /\ client[r].at # "idle" /\ client[r].job \in Jobs
    /\ \A q \in Readers \ {r} : client'[q] = client[q]

LEMMA ClientMoves ==
    ASSUME TypeOK, NEW r \in Readers, client[r].at # "idle",
           NEW a \in {"connecting", "open", "ended", "refused"},
           client' = [client EXCEPT ![r].at = a]
    PROVE  OnlyClient(r, a)
<1> DEFINE d == [client[r] EXCEPT !.at = a]
<1>1. d \in Client /\ d.at = a /\ d.job = client[r].job /\ client[r].job \in Jobs
  <2>1. client[r] \in Client
    BY DEF TypeOK
  <2> DEFINE c == client[r]
  <2> HIDE DEF c
  <2>2. c \in Client /\ c.at # "idle"
    BY <2>1 DEF c
  <2>3. /\ c.job \in Jobs /\ [c EXCEPT !.at = a] \in Client
        /\ [c EXCEPT !.at = a].at = a /\ [c EXCEPT !.at = a].job = c.job
    BY <2>2 DEF Client
  <2> QED
    BY <2>3 DEF c
<1>2. client' = [client EXCEPT ![r] = d]
  OBVIOUS
<1> HIDE DEF d
<1> QED
  BY <1>1, <1>2 DEF TypeOK, OnlyClient

LEMMA ConnectEffect ==
    ASSUME TypeOK, NEW r \in Readers, Connect(r)
    PROVE  /\ OnlyClient(r, "open") /\ client[r].at = "connecting"
           /\ OnlyConn(r)
           /\ conn'[r].at = "get" /\ conn'[r].last = LastSeen(r)
           /\ conn'[r].over = FALSE /\ conn'[r].batch = <<>>
<1> DEFINE w == [at |-> "get", last |-> ResumeFrom(r), over |-> FALSE, batch |-> <<>>,
                 rounds |-> 0]
<1>1. LastSeen(r) \in Nat
  <2>1. seen[r] \in Seq(Nat)
    BY DEF TypeOK
  <2>2. CASE seen[r] # <<>>
    <3>1. Len(seen[r]) \in 1..Len(seen[r])
      BY <2>1, <2>2, EmptySeq
    <3> QED
      BY <2>1, <2>2, <3>1, ElementOfSeq DEF LastSeen
  <2> QED
    BY <2>2 DEF LastSeen
<1>2. <<>> \in Seq(Nat)
  BY EmptySeq
<1>3. /\ w \in OpenConn /\ w.at = "get" /\ w.last = LastSeen(r)
      /\ w.over = FALSE /\ w.batch = <<>>
  BY <1>1, <1>2 DEF OpenConn, ResumeFrom
<1>4. conn' = [conn EXCEPT ![r] = w] /\ client[r].at = "connecting"
  BY DEF Connect
<1> HIDE DEF w
<1>5. OnlyConn(r) /\ conn'[r] = w
  BY <1>3, <1>4, OpenIsConn DEF TypeOK, OnlyConn
<1>6. OnlyClient(r, "open")
  BY <1>4, ClientMoves DEF Connect
<1> QED
  BY <1>3, <1>4, <1>5, <1>6

(* A console that reads takes the first row of the socket.  The row that ends *)
(* the run closes the stream.                                                 *)
LEMMA ReceiveEffect ==
    ASSUME TypeOK, NEW r \in Readers, Receive(r), wire[r] # <<>> => client[r].at # "idle"
    PROVE  /\ wire[r] # <<>> /\ Head(wire[r]) \in Nat
           /\ seen' \in [Readers -> Seq(Nat)]
           /\ seen'[r] = Append(seen[r], Head(wire[r]))
           /\ wire' \in [Readers -> Seq(Nat)]
           /\ \A q \in Readers \ {r} : seen'[q] = seen[q] /\ wire'[q] = wire[q]
           /\ \/ /\ wire'[r] = Tail(wire[r])
                 /\ client' = client /\ conn' = conn
              \/ /\ wire'[r] = <<>>
                 /\ OnlyClient(r, "ended")
                 /\ conn' \in [Readers -> Conn] /\ conn'[r].at = "closed"
                 /\ \A q \in Readers \ {r} : conn'[q] = conn[q]
<1> DEFINE e == Head(wire[r])
           s == Append(seen[r], e)
           t == Tail(wire[r])
<1>1. wire[r] # <<>> /\ wire[r] \in Seq(Nat) /\ seen[r] \in Seq(Nat)
  BY DEF Receive, TypeOK
<1>2. e \in Nat /\ t \in Seq(Nat)
  BY <1>1, HeadTailProperties
<1>3. s \in Seq(Nat)
  BY <1>1, <1>2, AppendProperties
<1>4. seen' = [seen EXCEPT ![r] = s]
  BY DEF Receive
<1>5. \/ wire' = [wire EXCEPT ![r] = t] /\ client' = client /\ conn' = conn
      \/ /\ client' = [client EXCEPT ![r].at = "ended"]
         /\ conn' = [conn EXCEPT ![r] = Closed] /\ wire' = [wire EXCEPT ![r] = <<>>]
  BY DEF Receive
<1>6. client' = [client EXCEPT ![r].at = "ended"] => OnlyClient(r, "ended")
  BY <1>1, ClientMoves
<1>7. conn' = [conn EXCEPT ![r] = Closed] =>
         /\ conn' \in [Readers -> Conn] /\ conn'[r].at = "closed"
         /\ \A q \in Readers \ {r} : conn'[q] = conn[q]
  BY OpenIsConn DEF TypeOK
<1>8. <<>> \in Seq(Nat)
  BY EmptySeq
<1> HIDE DEF s, t
<1>9. /\ seen' \in [Readers -> Seq(Nat)] /\ seen'[r] = s
      /\ \A q \in Readers \ {r} : seen'[q] = seen[q]
  BY <1>3, <1>4 DEF TypeOK
<1>10. wire' = [wire EXCEPT ![r] = t] =>
          /\ wire' \in [Readers -> Seq(Nat)] /\ wire'[r] = t
          /\ \A q \in Readers \ {r} : wire'[q] = wire[q]
  BY <1>2 DEF TypeOK
<1>11. wire' = [wire EXCEPT ![r] = <<>>] =>
          /\ wire' \in [Readers -> Seq(Nat)] /\ wire'[r] = <<>>
          /\ \A q \in Readers \ {r} : wire'[q] = wire[q]
  BY <1>8 DEF TypeOK
<1> QED
  BY <1>1, <1>2, <1>5, <1>6, <1>7, <1>9, <1>10, <1>11 DEF s, t

(* A cut connection: what was in the socket is gone, and a console that had *)
(* its stream open asks again.                                              *)
LEMMA DisconnectEffect ==
    ASSUME TypeOK, NEW R \in SUBSET Readers, Disconnect(R)
    PROVE  /\ conn' \in [Readers -> Conn]
           /\ wire' \in [Readers -> Seq(Nat)]
           /\ client' \in [Readers -> Client]
           /\ \A q \in Readers \ R :
                 conn'[q] = conn[q] /\ wire'[q] = wire[q] /\ client'[q] = client[q]
           /\ \A q \in R :
                 /\ conn'[q].at = "closed" /\ wire'[q] = <<>>
                 /\ IF client[q].at = "open"
                    THEN client'[q].at = "connecting" /\ client'[q].job = client[q].job
                    ELSE client'[q] = client[q]
<1>1. <<>> \in Seq(Nat)
  BY EmptySeq
<1>2. conn' \in [Readers -> Conn] /\ wire' \in [Readers -> Seq(Nat)]
  BY <1>1, OpenIsConn DEF TypeOK, Disconnect
<1>3. ASSUME NEW q \in Readers, client[q].at = "open"
      PROVE  /\ [client[q] EXCEPT !.at = "connecting"] \in Client
             /\ [client[q] EXCEPT !.at = "connecting"].at = "connecting"
             /\ [client[q] EXCEPT !.at = "connecting"].job = client[q].job
  <2> DEFINE c == client[q]
  <2>1. c \in Client /\ c.at = "open"
    BY <1>3 DEF TypeOK
  <2> HIDE DEF c
  <2>2. /\ [c EXCEPT !.at = "connecting"] \in Client
        /\ [c EXCEPT !.at = "connecting"].at = "connecting"
        /\ [c EXCEPT !.at = "connecting"].job = c.job
    BY <2>1 DEF Client
  <2> QED
    BY <2>2 DEF c
<1>4. client' \in [Readers -> Client]
  BY <1>3 DEF TypeOK, Disconnect
<1>5. \A q \in Readers \ R :
         conn'[q] = conn[q] /\ wire'[q] = wire[q] /\ client'[q] = client[q]
  BY DEF Disconnect
<1>6. ASSUME NEW q \in R
      PROVE  /\ conn'[q].at = "closed" /\ wire'[q] = <<>>
             /\ IF client[q].at = "open"
                THEN client'[q].at = "connecting" /\ client'[q].job = client[q].job
                ELSE client'[q] = client[q]
  BY <1>3, OpenIsConn DEF Disconnect
<1> QED
  BY <1>2, <1>4, <1>5, <1>6
-----------------------------------------------------------------------------
(* Rows of a job, in order, from its first on, with none left out. *)
Faithful(q, j) ==
    /\ \A i, k \in 1..Len(q) : i < k => q[i] < q[k]
    /\ \A k \in 1..Len(q) : q[k] \in RowIds(j)
    /\ \A i \in RowIds(j) : \A k \in 1..Len(q) :
          i <= q[k] => \E m \in 1..Len(q) : q[m] = i

LastOf(q) == IF q = <<>> THEN 0 ELSE q[Len(q)]

LEMMA LastOfFacts ==
    ASSUME NEW q \in Seq(Nat)
    PROVE  /\ LastOf(q) \in Nat
           /\ q # <<>> => Len(q) \in 1..Len(q) /\ LastOf(q) = q[Len(q)]
<1>1. CASE q # <<>>
  <2>1. Len(q) \in 1..Len(q)
    BY <1>1, EmptySeq
  <2> QED
    BY <1>1, <2>1, ElementOfSeq DEF LastOf
<1> QED
  BY <1>1 DEF LastOf

LEMMA IdsAreNumbers ==
    ASSUME rows \in Seq(Row), NEW j
    PROVE  RowIds(j) \subseteq Nat \ {0} /\ RowIds(j) \subseteq 1..Len(rows)
<1>1. DOMAIN rows = 1..Len(rows) /\ Len(rows) \in Nat
  BY LenProperties
<1> QED
  BY <1>1 DEF RowIds

LEMMA PrefixIsFaithful ==
    ASSUME NEW j, NEW s \in Seq(Nat), NEW t \in Seq(Nat), Faithful(s \o t, j)
    PROVE  Faithful(s, j)
<1> DEFINE q == s \o t
<1>1. /\ q \in Seq(Nat) /\ Len(q) = Len(s) + Len(t)
      /\ Len(s) \in Nat /\ Len(t) \in Nat
      /\ \A i \in 1..Len(s) : i \in 1..Len(q) /\ q[i] = s[i]
  <2>1. /\ q \in Seq(Nat) /\ Len(q) = Len(s) + Len(t)
        /\ \A i \in 1..(Len(s) + Len(t)) :
              q[i] = IF i <= Len(s) THEN s[i] ELSE t[i - Len(s)]
    BY ConcatProperties
  <2>2. Len(s) \in Nat /\ Len(t) \in Nat
    BY LenProperties
  <2> HIDE DEF q
  <2>3. \A i \in 1..Len(s) : i \in 1..(Len(s) + Len(t)) /\ i <= Len(s)
    BY <2>2
  <2> QED
    BY <2>1, <2>2, <2>3
<1>2. Faithful(q, j)
  OBVIOUS
<1> HIDE DEF q
<1>3. \A i, k \in 1..Len(s) : i < k => s[i] < s[k]
  BY <1>1, <1>2 DEF Faithful
<1>4. \A k \in 1..Len(s) : s[k] \in RowIds(j)
  BY <1>1, <1>2 DEF Faithful
<1>5. ASSUME NEW i \in RowIds(j), NEW k \in 1..Len(s), i <= s[k]
      PROVE  \E m \in 1..Len(s) : s[m] = i
  <2>1. k \in 1..Len(q) /\ i <= q[k]
    BY <1>1, <1>5
  <2>2. PICK m \in 1..Len(q) : q[m] = i
    BY <1>2, <2>1 DEF Faithful
  <2>3. ~(k < m)
    <3>1. q[k] \in Nat /\ q[m] \in Nat
      BY <1>1, <2>1, <2>2, ElementOfSeq
    <3> QED
      BY <1>2, <2>1, <2>2, <3>1 DEF Faithful
  <2>4. m \in 1..Len(s)
    BY <1>1, <2>3
  <2> QED
    BY <1>1, <2>2, <2>4
<1> QED
  BY <1>3, <1>4, <1>5 DEF Faithful

(* A row of the job that the sequence has reached is in it. *)
LEMMA ReachedIsThere ==
    ASSUME rows \in Seq(Row), NEW j, NEW q \in Seq(Nat), Faithful(q, j),
           NEW i \in RowIds(j), i <= LastOf(q)
    PROVE  \E m \in 1..Len(q) : q[m] = i
<1>1. q # <<>>
  <2>1. i \in Nat \ {0}
    BY IdsAreNumbers
  <2> QED
    BY <2>1 DEF LastOf
<1> QED
  BY <1>1, LastOfFacts DEF Faithful

(* The batch a round lists carries on where the stream is. *)
LEMMA BatchIsFaithful ==
    ASSUME rows \in Seq(Row), NEW j, NEW q \in Seq(Nat), Faithful(q, j)
    PROVE  LET b == InOrder(EventsAfter(j, LastOf(q))) IN Faithful(q \o b, j)
<1> DEFINE b == InOrder(EventsAfter(j, LastOf(q)))
<1>1. LastOf(q) \in Nat
  BY LastOfFacts
<1>2. /\ b \in Seq(Nat)
      /\ \A i, k \in 1..Len(b) : i < k => b[i] < b[k]
      /\ \A k \in 1..Len(b) : b[k] \in EventsAfter(j, LastOf(q))
      /\ \A e \in EventsAfter(j, LastOf(q)) : \E k \in 1..Len(b) : b[k] = e
  BY <1>1, RowsListed
<1> HIDE DEF b
<1> DEFINE l == Len(q)
           n == Len(b)
           p == q \o b
<1>3. l \in Nat /\ n \in Nat
  BY <1>2, LenProperties
<1>4. /\ p \in Seq(Nat) /\ Len(p) = l + n
      /\ \A i \in 1..(l + n) : p[i] = IF i <= l THEN q[i] ELSE b[i - l]
  BY <1>2, ConcatProperties
<1>5. /\ \A i \in 1..l : i \in 1..(l + n) /\ p[i] = q[i] /\ q[i] \in Nat
      /\ \A i \in 1..(l + n) : i \in 1..l \/ (i - l \in 1..n /\ p[i] = b[i - l])
      /\ \A i \in 1..n : i + l \in 1..(l + n) /\ p[i + l] = b[i] /\ b[i] \in Nat
  <2>1. \A i \in 1..l : q[i] \in Nat
    BY ElementOfSeq
  <2>2. \A i \in 1..n : b[i] \in Nat
    BY <1>2, ElementOfSeq
  <2>3. \A i \in 1..l : i \in 1..(l + n) /\ i <= l
    BY <1>3
  <2>4. \A i \in 1..(l + n) : i \in 1..l \/ (i - l \in 1..n /\ ~(i <= l))
    BY <1>3
  <2>5. \A i \in 1..n : i + l \in 1..(l + n) /\ ~(i + l <= l) /\ (i + l) - l = i
    BY <1>3
  <2> HIDE DEF l, n, p
  <2> QED
    BY <1>4, <2>1, <2>2, <2>3, <2>4, <2>5
(* Every entry of the batch comes after every row sent before it. *)
<1>6. ASSUME NEW i \in 1..l, NEW k \in 1..n
      PROVE  q[i] < b[k]
  <2>1. q[i] \in Nat /\ b[k] \in Nat /\ b[k] > LastOf(q)
    BY <1>2, <1>5 DEF EventsAfter
  <2>2. q # <<>> /\ LastOf(q) = q[l] /\ l \in 1..l
    BY <1>3, LastOfFacts, EmptySeq
  <2>3. i = l \/ i < l
    BY <1>3
  <2>4. i < l => q[i] < q[l]
    BY <2>2 DEF Faithful
  <2> QED
    BY <1>1, <2>1, <2>2, <2>3, <2>4
<1> HIDE DEF l, n, p
<1>7. ASSUME NEW i \in 1..(l + n), NEW k \in 1..(l + n), i < k
      PROVE  p[i] < p[k]
  <2>1. CASE i \in 1..l /\ k \in 1..l
    BY <1>5, <1>7, <2>1 DEF Faithful, l
  <2>2. CASE i \in 1..l /\ k - l \in 1..n /\ p[k] = b[k - l]
    BY <1>5, <1>6, <2>2
  <2>3. CASE i - l \in 1..n /\ p[i] = b[i - l] /\ k - l \in 1..n /\ p[k] = b[k - l]
    <3>1. i - l < k - l
      BY <1>3, <1>7
    <3> QED
      BY <1>2, <2>3, <3>1 DEF n
  <2>4. CASE i - l \in 1..n /\ k \in 1..l
    BY <1>3, <1>7, <2>4
  <2> QED
    BY <1>5, <2>1, <2>2, <2>3, <2>4
<1>8. ASSUME NEW k \in 1..(l + n)
      PROVE  p[k] \in RowIds(j)
  <2>1. CASE k \in 1..l
    BY <1>5, <2>1 DEF Faithful, l
  <2>2. CASE k - l \in 1..n /\ p[k] = b[k - l]
    BY <1>2, <2>2 DEF EventsAfter, n
  <2> QED
    BY <1>5, <2>1, <2>2
<1>9. ASSUME NEW i \in RowIds(j)
      PROVE  \E m \in 1..(l + n) : p[m] = i
  <2>1. i \in Nat \ {0}
    BY IdsAreNumbers
  <2>2. CASE i <= LastOf(q)
    <3>1. PICK m \in 1..l : q[m] = i
      BY <2>1, <2>2, ReachedIsThere DEF l
    <3> QED
      BY <1>5, <3>1
  <2>3. CASE i > LastOf(q)
    <3>1. PICK m \in 1..n : b[m] = i
      BY <1>2, <2>3 DEF EventsAfter, n
    <3> QED
      BY <1>5, <3>1
  <2> QED
    BY <1>1, <2>1, <2>2, <2>3
<1>10. Len(p) = l + n
  BY <1>4
<1>11. Faithful(p, j)
  BY <1>7, <1>8, <1>9, <1>10 DEF Faithful
<1> QED
  BY <1>11 DEF p, b

(* The rows of a job are its rows of before and, at the end, those added. *)
LEMMA FaithfulGrows ==
    ASSUME rows \in Seq(Row), NEW i \in Jobs, NEW n \in Nat, NEW ends \in BOOLEAN,
           Add(i, n, ends), NEW j, NEW q \in Seq(Nat), Faithful(q, j)
    PROVE  Faithful(q, j)'
<1>1. /\ rows' \in Seq(Row) /\ Len(rows') = Len(rows) + n /\ Len(rows) \in Nat
      /\ \A m \in 1..Len(rows) : rows'[m] = rows[m]
      /\ DOMAIN rows = 1..Len(rows) /\ DOMAIN rows' = 1..Len(rows')
  BY AddGrows, LenProperties
<1>2. RowIds(j) \subseteq RowIds(j)'
  BY <1>1 DEF RowIds
<1>3. \A m \in RowIds(j)' : m \in RowIds(j) \/ m > Len(rows)
  BY <1>1 DEF RowIds
<1>4. \A k \in 1..Len(q) : q[k] \in RowIds(j) /\ q[k] \in Nat /\ q[k] <= Len(rows)
  BY <1>1, IdsAreNumbers DEF Faithful
<1>5. ASSUME NEW m \in RowIds(j)', NEW k \in 1..Len(q), m <= q[k]
      PROVE  m \in RowIds(j)
  <2>1. m \in Nat
    BY <1>1 DEF RowIds
  <2>2. q[k] \in Nat /\ q[k] <= Len(rows)
    BY <1>4
  <2>3. ~(m > Len(rows))
    BY <1>1, <1>5, <2>1, <2>2
  <2> QED
    BY <1>3, <2>3
<1> QED
  BY <1>2, <1>5 DEF Faithful

(* How a row moves along a stream. *)
LEMMA SendMoves ==
    ASSUME NEW s \in Seq(Nat), NEW w \in Seq(Nat), NEW b \in Seq(Nat), b # <<>>
    PROVE  /\ (s \o Append(w, Head(b))) \o Tail(b) = (s \o w) \o b
           /\ LastOf(s \o Append(w, Head(b))) = Head(b)
<1> DEFINE e == Head(b)
           t == Tail(b)
<1>1. e \in Nat /\ t \in Seq(Nat) /\ <<e>> \in Seq(Nat)
  BY HeadTailProperties
<1>2. b = <<e>> \o t
  <2>1. /\ Len(t) = Len(b) - 1 /\ \A i \in 1..Len(t) : t[i] = b[i + 1]
        /\ Len(b) \in Nat \ {0} /\ b[1] = e
    BY HeadTailProperties, EmptySeq
  <2> HIDE DEF e, t
  <2>2. /\ <<e>> \o t \in Seq(Nat) /\ Len(<<e>> \o t) = 1 + Len(t)
        /\ \A i \in 1..(1 + Len(t)) :
              (<<e>> \o t)[i] = IF i <= 1 THEN e ELSE t[i - 1]
    <3>1. Len(<<e>>) = 1 /\ <<e>>[1] = e
      OBVIOUS
    <3>2. /\ <<e>> \o t \in Seq(Nat) /\ Len(<<e>> \o t) = 1 + Len(t)
          /\ \A i \in 1..(1 + Len(t)) :
                (<<e>> \o t)[i] = IF i <= 1 THEN <<e>>[i] ELSE t[i - 1]
      BY <1>1, <3>1, ConcatProperties
    <3>3. \A i \in 1..(1 + Len(t)) : i <= 1 => i = 1
      OBVIOUS
    <3> QED
      BY <3>1, <3>2, <3>3
  <2>3. \A i \in 1..Len(b) : b[i] = (<<e>> \o t)[i]
    <3> TAKE i \in 1..Len(b)
    <3>1. i \in 1..(1 + Len(t))
      BY <2>1
    <3>2. (<<e>> \o t)[i] = IF i <= 1 THEN e ELSE t[i - 1]
      BY <2>2, <3>1
    <3>3. CASE i = 1
      BY <2>1, <3>2, <3>3
    <3>4. CASE i # 1
      <4>1. ~(i <= 1) /\ i - 1 \in 1..Len(t) /\ (i - 1) + 1 = i
        BY <3>1, <3>4
      <4>2. t[i - 1] = b[(i - 1) + 1]
        BY <2>1, <4>1
      <4> QED
        BY <3>2, <4>1, <4>2
    <3> QED
      BY <3>3, <3>4
  <2>4. Len(b) = Len(<<e>> \o t) /\ <<e>> \o t \in Seq(Nat)
    BY <2>1, <2>2
  <2> DEFINE c == <<e>> \o t
  <2> HIDE DEF c
  <2>5. b = c
    BY <2>3, <2>4, SeqEqual DEF c
  <2> QED
    BY <2>5 DEF c
<1>3. Append(w, e) = w \o <<e>> /\ Append(w, e) \in Seq(Nat)
  BY <1>1, AppendIsConcat, AppendProperties
<1> HIDE DEF e, t
<1>4. s \o w \in Seq(Nat)
  BY ConcatProperties
<1>5. s \o Append(w, e) = (s \o w) \o <<e>>
  BY <1>1, <1>3, ConcatAssociative, SMTT(30)
<1>6. ((s \o w) \o <<e>>) \o t = (s \o w) \o b
  BY <1>1, <1>2, <1>4, ConcatAssociative, SMTT(30)
<1>7. LastOf(s \o Append(w, e)) = e
  <2>1. s \o Append(w, e) = Append(s \o w, e)
    BY <1>1, <1>4, <1>5, AppendIsConcat
  <2> QED
    BY <1>1, <1>4, <2>1, AppendProperties DEF LastOf
<1> QED
  BY <1>5, <1>6, <1>7 DEF e, t

LEMMA ReceiveMoves ==
    ASSUME NEW s \in Seq(Nat), NEW w \in Seq(Nat), w # <<>>
    PROVE  Append(s, Head(w)) \o Tail(w) = s \o w
<1>1. <<>> \in Seq(Nat) /\ Append(<<>>, Head(w)) \in Seq(Nat) /\ Tail(w) \in Seq(Nat)
      /\ Head(w) \in Nat
  BY EmptySeq, HeadTailProperties, AppendProperties
<1>2. (s \o Append(<<>>, Head(w))) \o Tail(w) = (s \o <<>>) \o w
  <2> DEFINE none == <<>>
  <2>1. none \in Seq(Nat)
    BY <1>1
  <2> HIDE DEF none
  <2>2. (s \o Append(none, Head(w))) \o Tail(w) = (s \o none) \o w
    BY <2>1, SendMoves
  <2> QED
    BY <2>2 DEF none
<1>3. s \o <<>> = s
  BY ConcatEmptySeq
<1>4. s \o Append(<<>>, Head(w)) = Append(s, Head(w))
  <2>1. Append(<<>>, Head(w)) = <<Head(w)>>
    BY <1>1, AppendIsConcat, ConcatEmptySeq
  <2> QED
    BY <1>1, <2>1, AppendIsConcat
<1> QED
  BY <1>2, <1>3, <1>4
-----------------------------------------------------------------------------
(* The invariant, for a reader's console, stream, socket and received rows. *)

(* What the stream has chosen and not written yet. *)
Held(n) == IF n.at = "closed" THEN <<>> ELSE n.batch

RowsFit(c, n, w, s) ==
    /\ c.at = "idle" => s = <<>>
    /\ c.at = "open" <=> n.at # "closed"
    /\ n.at = "closed" => w = <<>>
    /\ c.at # "idle" => Faithful((s \o w) \o Held(n), c.job)
    /\ n.at # "closed" => n.last = LastOf(s \o w) /\ (n.at # "send" => n.batch = <<>>)

(* A round that saw the run over has its last event in the batch or behind it. *)
EndFits(c, n) ==
    n.at # "closed" =>
        /\ n.over => c.job \in over
        /\ n.at = "send" /\ n.over =>
              \E i \in RowIds(c.job) :
                 rows[i].ends /\ (i <= n.last \/ \E k \in 1..Len(n.batch) : n.batch[k] = i)
        /\ n.at = "done" => \E i \in RowIds(c.job) : rows[i].ends /\ i <= n.last

ReaderFits(r) == RowsFit(client[r], conn[r], wire[r], seen[r]) /\ EndFits(client[r], conn[r])

(* A terminal status is never stored without its event. *)
EndsStored == \A j \in over : \E i \in RowIds(j) : rows[i].ends

IInv ==
    /\ TypeOK
    /\ EndsStored
    /\ \A r \in Readers : ReaderFits(r)

(* The types of what a reader's predicates are about. *)
LEMMA ReaderTypes ==
    ASSUME TypeOK, NEW r \in Readers
    PROVE  /\ conn[r] \in Conn /\ wire[r] \in Seq(Nat) /\ seen[r] \in Seq(Nat)
           /\ client[r] \in Client
           /\ seen[r] \o wire[r] \in Seq(Nat)
           /\ Held(conn[r]) \in Seq(Nat)
<1>1. /\ conn[r] \in Conn /\ wire[r] \in Seq(Nat) /\ seen[r] \in Seq(Nat)
      /\ client[r] \in Client
  BY DEF TypeOK
<1>2. seen[r] \o wire[r] \in Seq(Nat)
  BY <1>1, ConcatProperties
<1>3. Held(conn[r]) \in Seq(Nat)
  BY <1>1, ConnShapes, EmptySeq DEF Held, OpenConn
<1> QED
  BY <1>1, <1>2, <1>3

(* What was received alone is faithful too. *)
LEMMA SeenIsFaithful ==
    ASSUME IInv, NEW r \in Readers, client[r].at # "idle"
    PROVE  Faithful(seen[r], client[r].job) /\ Faithful(seen[r] \o wire[r], client[r].job)
<1>1. Faithful((seen[r] \o wire[r]) \o Held(conn[r]), client[r].job)
  BY DEF IInv, ReaderFits, RowsFit
<1>2. TypeOK
  BY DEF IInv
<1>3. Faithful(seen[r] \o wire[r], client[r].job)
  BY <1>1, <1>2, ReaderTypes, PrefixIsFaithful
<1>4. Faithful(seen[r], client[r].job)
  BY <1>2, <1>3, ReaderTypes, PrefixIsFaithful
<1> QED
  BY <1>3, <1>4

LEMMA SameStore ==
    ASSUME UNCHANGED storeVars, NEW x, NEW j, Faithful(x, j)
    PROVE  Faithful(x, j)'
BY DEF Faithful, RowIds, storeVars

(* A reader nothing happens to keeps its invariant, and so does every reader *)
(* while rows are added and runs end.                                        *)
LEMMA OthersFit ==
    ASSUME UNCHANGED storeVars, NEW q \in Readers, ReaderFits(q),
           conn'[q] = conn[q], wire'[q] = wire[q], client'[q] = client[q], seen'[q] = seen[q]
    PROVE  ReaderFits(q)'
<1>1. ReaderFits(q)
  OBVIOUS
<1>2. ASSUME NEW x, NEW j, Faithful(x, j)
      PROVE  Faithful(x, j)'
  BY <1>2, SameStore
<1>3. PICK x, j : x = (seen[q] \o wire[q]) \o Held(conn[q]) /\ j = client[q].job
  OBVIOUS
<1>4. x = ((seen[q] \o wire[q]) \o Held(conn[q]))' /\ j = client'[q].job
  BY <1>3 DEF Held
<1>5. client[q].at # "idle" => Faithful(x, j)'
  BY <1>1, <1>2, <1>3 DEF ReaderFits, RowsFit
<1>6. RowsFit(client[q], conn[q], wire[q], seen[q])'
  BY <1>1, <1>4, <1>5 DEF ReaderFits, RowsFit, LastOf
<1>7. EndFits(client[q], conn[q])'
  BY <1>1 DEF ReaderFits, EndFits, RowIds, storeVars
<1> QED
  BY <1>6, <1>7 DEF ReaderFits

LEMMA WriterFits ==
    ASSUME IInv, UNCHANGED readerVars, over \subseteq over',
           NEW i \in Jobs, NEW n \in Nat, NEW ends \in BOOLEAN, Add(i, n, ends)
    PROVE  \A r \in Readers : ReaderFits(r)'
<1> SUFFICES ASSUME NEW r \in Readers
             PROVE  ReaderFits(r)'
  OBVIOUS
<1>1. TypeOK /\ ReaderFits(r) /\ rows \in Seq(Row)
  BY DEF IInv, TypeOK
<1>2. /\ conn'[r] = conn[r] /\ wire'[r] = wire[r] /\ client'[r] = client[r]
      /\ seen'[r] = seen[r]
  BY DEF readerVars
<1>3. PICK q \in Seq(Nat) : q = (seen[r] \o wire[r]) \o Held(conn[r])
  BY <1>1, ReaderTypes, ConcatProperties
<1>4. ASSUME NEW j, Faithful(q, j)
      PROVE  Faithful(q, j)'
  BY <1>1, <1>4, FaithfulGrows
<1>5. RowsFit(client[r], conn[r], wire[r], seen[r])'
  <2>1. RowsFit(client[r], conn[r], wire[r], seen[r])
    BY <1>1 DEF ReaderFits
  <2>2. PICK j : j = client[r].job
    OBVIOUS
  <2>3. client[r].at # "idle" => Faithful(q, j)'
    BY <1>3, <1>4, <2>1, <2>2 DEF RowsFit
  <2>4. q = ((seen[r] \o wire[r]) \o Held(conn[r]))' /\ j = client'[r].job
    BY <1>2, <1>3, <2>2 DEF Held
  <2> QED
    BY <1>2, <2>1, <2>3, <2>4 DEF RowsFit, LastOf
<1>6. \A j : \A m \in RowIds(j) : m \in RowIds(j)' /\ rows'[m] = rows[m]
  <2>1. /\ rows' \in Seq(Row) /\ Len(rows') = Len(rows) + n /\ Len(rows) \in Nat
        /\ \A m \in 1..Len(rows) : rows'[m] = rows[m]
    BY <1>1, AddGrows, LenProperties
  <2>2. DOMAIN rows = 1..Len(rows) /\ DOMAIN rows' = 1..Len(rows')
    BY <1>1, <2>1, LenProperties
  <2> QED
    BY <2>1, <2>2 DEF RowIds
<1>7. EndFits(client[r], conn[r])'
  <2>1. EndFits(client[r], conn[r])
    BY <1>1 DEF ReaderFits
  <2> DEFINE to == conn[r]
  <2>2. PICK j : j = client[r].job
    OBVIOUS
  <2>3. ASSUME NEW m \in RowIds(j)
        PROVE  m \in RowIds(j)' /\ rows'[m] = rows[m]
    BY <1>6
  <2>4. to.at = "send" /\ to.over => \E m \in RowIds(j)' :
           rows'[m].ends /\ (m <= to.last \/ \E k \in 1..Len(to.batch) : to.batch[k] = m)
    BY <2>1, <2>3, <2>2 DEF EndFits
  <2>5. to.at = "done" => \E m \in RowIds(j)' : rows'[m].ends /\ m <= to.last
    BY <2>1, <2>3, <2>2 DEF EndFits
  <2>6. to.at # "closed" /\ to.over => j \in over'
    BY <2>1, <2>2 DEF EndFits
  <2> QED
    BY <1>2, <2>4, <2>5, <2>6, <2>2 DEF EndFits
<1> QED
  BY <1>5, <1>7 DEF ReaderFits
-----------------------------------------------------------------------------
(* The steps of a reader's stream and of its browser, for that reader. *)

(* A step after which the same rows are on their way. *)
LEMMA SameRows ==
    ASSUME UNCHANGED storeVars, NEW r \in Readers,
           RowsFit(client[r], conn[r], wire[r], seen[r]),
           client[r].at # "idle", client'[r].at # "idle", client'[r].job = client[r].job,
           (client'[r].at = "open") <=> (conn'[r].at # "closed"),
           conn'[r].at = "closed" => wire'[r] = <<>>,
           (seen'[r] \o wire'[r]) \o Held(conn'[r])
               = (seen[r] \o wire[r]) \o Held(conn[r]),
           conn'[r].at # "closed" =>
               /\ conn'[r].last = LastOf(seen'[r] \o wire'[r])
               /\ conn'[r].at # "send" => conn'[r].batch = <<>>
    PROVE  RowsFit(client[r], conn[r], wire[r], seen[r])'
<1>1. PICK x, j : x = (seen[r] \o wire[r]) \o Held(conn[r]) /\ j = client[r].job
  OBVIOUS
<1>2. Faithful(x, j)
  BY <1>1 DEF RowsFit
<1>3. Faithful(x, j)'
  BY <1>2, SameStore
<1>4. x = ((seen[r] \o wire[r]) \o Held(conn[r]))' /\ j = client'[r].job
  BY <1>1 DEF Held
<1> QED
  BY <1>3, <1>4 DEF RowsFit, LastOf

LEMMA GetJobFits ==
    ASSUME IInv, NEW r \in Readers, GetJob(r)
    PROVE  ReaderFits(r)'
<1>1. /\ TypeOK /\ RowsFit(client[r], conn[r], wire[r], seen[r])
      /\ EndFits(client[r], conn[r])
  BY DEF IInv, ReaderFits
<1>2. /\ conn[r].at = "get" /\ UNCHANGED storeVars
      /\ wire' = wire /\ client' = client /\ seen' = seen
  BY DEF GetJob
<1>3. /\ conn'[r].at = "list" /\ conn'[r].over = (client[r].job \in over)
      /\ conn'[r].last = conn[r].last /\ conn'[r].batch = conn[r].batch
  BY <1>1, GetJobEffect
<1>4. RowsFit(client[r], conn[r], wire[r], seen[r])'
  BY <1>1, <1>2, <1>3, SameRows DEF RowsFit, Held
<1>5. EndFits(client[r], conn[r])'
  BY <1>2, <1>3 DEF EndFits, storeVars
<1> QED
  BY <1>4, <1>5 DEF ReaderFits

LEMMA RoundEndsFits ==
    ASSUME IInv, NEW r \in Readers, RoundEnds(r)
    PROVE  ReaderFits(r)'
<1>1. /\ TypeOK /\ RowsFit(client[r], conn[r], wire[r], seen[r])
      /\ EndFits(client[r], conn[r])
  BY DEF IInv, ReaderFits
<1>2. /\ conn[r].at = "send" /\ conn[r].batch = <<>> /\ UNCHANGED storeVars
      /\ wire' = wire /\ client' = client /\ seen' = seen
  BY DEF RoundEnds
<1>3. /\ conn'[r].at = IF conn[r].over THEN "done" ELSE "get"
      /\ conn'[r].last = conn[r].last /\ conn'[r].batch = conn[r].batch
      /\ conn'[r].over = conn[r].over
  BY <1>1, RoundEndsEffect DEF SawEnd
<1>4. RowsFit(client[r], conn[r], wire[r], seen[r])'
  BY <1>1, <1>2, <1>3, SameRows DEF RowsFit, Held
<1>5. conn[r].over => \E i \in RowIds(client[r].job) : rows[i].ends /\ i <= conn[r].last
  BY <1>1, <1>2, EmptySeq DEF EndFits
<1>6. EndFits(client[r], conn[r])'
  BY <1>1, <1>2, <1>3, <1>5 DEF EndFits, RowIds, storeVars
<1> QED
  BY <1>4, <1>6 DEF ReaderFits

LEMMA DeadlineFits ==
    ASSUME IInv, NEW r \in Readers, Deadline(r)
    PROVE  ReaderFits(r)'
<1>1. /\ TypeOK /\ RowsFit(client[r], conn[r], wire[r], seen[r])
      /\ EndFits(client[r], conn[r])
  BY DEF IInv, ReaderFits
<1>2. /\ conn[r].at = "get" /\ UNCHANGED storeVars
      /\ wire' = wire /\ client' = client /\ seen' = seen
  BY DEF Deadline
<1>3. /\ conn'[r].at = "expired"
      /\ conn'[r].last = conn[r].last /\ conn'[r].batch = conn[r].batch
      /\ conn'[r].over = conn[r].over
  BY <1>1, DeadlineEffect
<1>4. RowsFit(client[r], conn[r], wire[r], seen[r])'
  BY <1>1, <1>2, <1>3, SameRows DEF RowsFit, Held
<1>5. EndFits(client[r], conn[r])'
  BY <1>1, <1>2, <1>3 DEF EndFits, storeVars
<1> QED
  BY <1>4, <1>5 DEF ReaderFits

LEMMA SendEventFits ==
    ASSUME IInv, NEW r \in Readers, SendEvent(r)
    PROVE  ReaderFits(r)'
<1> DEFINE b == conn[r].batch
<1>1. /\ TypeOK /\ RowsFit(client[r], conn[r], wire[r], seen[r])
      /\ EndFits(client[r], conn[r])
  BY DEF IInv, ReaderFits
<1>2. /\ conn[r].at = "send" /\ UNCHANGED storeVars /\ client' = client /\ seen' = seen
  BY DEF SendEvent
<1>3. /\ b \in Seq(Nat) /\ b # <<>> /\ Head(b) \in Nat
      /\ conn'[r].at = "send" /\ conn'[r].over = conn[r].over
      /\ conn'[r].last = Head(b) /\ conn'[r].batch = Tail(b)
      /\ wire'[r] = Append(wire[r], Head(b))
  BY <1>1, SendEventEffect
<1>4. /\ (seen[r] \o Append(wire[r], Head(b))) \o Tail(b) = (seen[r] \o wire[r]) \o b
      /\ LastOf(seen[r] \o Append(wire[r], Head(b))) = Head(b)
  <2>1. seen[r] \in Seq(Nat) /\ wire[r] \in Seq(Nat)
    BY <1>1, ReaderTypes
  <2> HIDE DEF b
  <2> QED
    BY <1>3, <2>1, SendMoves
<1>5. client[r].at = "open"
  BY <1>1, <1>2 DEF RowsFit
<1>6. RowsFit(client[r], conn[r], wire[r], seen[r])'
  BY <1>1, <1>2, <1>3, <1>4, <1>5, SameRows DEF Held
(* The batch is in order and behind what was sent before it. *)
<1>7. conn[r].last <= Head(b)
  <2> DEFINE q == seen[r] \o wire[r]
  <2>1. Faithful(q \o b, client[r].job)
    BY <1>1, <1>2, <1>5 DEF RowsFit, Held
  <2>2. q \in Seq(Nat) /\ conn[r].last = LastOf(q)
    BY <1>1, <1>2, ReaderTypes DEF RowsFit
  <2> HIDE DEF q, b
  <2>3. CASE q = <<>>
    BY <1>3, <2>2, <2>3 DEF LastOf
  <2>4. CASE q # <<>>
    <3>1. Len(q) \in 1..Len(q) /\ LastOf(q) = q[Len(q)] /\ Len(q) \in Nat \ {0}
      BY <2>2, <2>4, LastOfFacts, EmptySeq
    <3>2. Len(b) \in Nat \ {0} /\ Head(b) = b[1]
      BY <1>3, EmptySeq
    <3>3. /\ Len(q \o b) = Len(q) + Len(b)
          /\ \A i \in 1..(Len(q) + Len(b)) :
                (q \o b)[i] = IF i <= Len(q) THEN q[i] ELSE b[i - Len(q)]
      BY <1>3, <2>2, ConcatProperties
    <3>4. /\ Len(q) \in 1..(Len(q) + Len(b)) /\ Len(q) + 1 \in 1..(Len(q) + Len(b))
          /\ ~(Len(q) + 1 <= Len(q)) /\ (Len(q) + 1) - Len(q) = 1
      BY <3>1, <3>2
    <3>5. (q \o b)[Len(q)] = LastOf(q) /\ (q \o b)[Len(q) + 1] = Head(b)
      BY <3>1, <3>2, <3>3, <3>4
    <3>6. LastOf(q) < Head(b)
      <4>1. Len(q) < Len(q) + 1 /\ Len(q \o b) = Len(q) + Len(b)
        BY <3>1, <3>3
      <4>2. (q \o b)[Len(q)] < (q \o b)[Len(q) + 1]
        BY <2>1, <3>4, <4>1 DEF Faithful
      <4> QED
        BY <3>5, <4>2
    <3> QED
      BY <1>3, <2>2, <3>6, LastOfFacts
  <2> QED
    BY <2>3, <2>4
<1>8. conn[r].over =>
         \E i \in RowIds(client[r].job) :
            rows[i].ends /\ (i <= Head(b) \/ \E k \in 1..Len(Tail(b)) : Tail(b)[k] = i)
  <2> SUFFICES ASSUME conn[r].over
               PROVE  \E i \in RowIds(client[r].job) : rows[i].ends /\
                         (i <= Head(b) \/ \E k \in 1..Len(Tail(b)) : Tail(b)[k] = i)
    OBVIOUS
  <2>1. PICK i \in RowIds(client[r].job) :
           rows[i].ends /\ (i <= conn[r].last \/ \E k \in 1..Len(b) : b[k] = i)
    BY <1>1, <1>2 DEF EndFits
  <2>2. CASE i <= conn[r].last
    <3>1. i \in Nat /\ conn[r].last \in Nat
      BY <1>1, <1>2, IdsAreNumbers, ConnShapes DEF TypeOK, OpenConn
    <3> QED
      BY <1>3, <1>7, <2>1, <2>2, <3>1
  <2>3. ASSUME NEW k \in 1..Len(b), b[k] = i
        PROVE  i = Head(b) \/ \E m \in 1..Len(Tail(b)) : Tail(b)[m] = i
    <3>1. /\ Len(Tail(b)) = Len(b) - 1 /\ \A m \in 1..Len(Tail(b)) : Tail(b)[m] = b[m + 1]
          /\ Len(b) \in Nat \ {0} /\ b[1] = Head(b)
      BY <1>3, HeadTailProperties, EmptySeq
    <3> HIDE DEF b
    <3>2. k = 1 \/ (k - 1 \in 1..Len(Tail(b)) /\ (k - 1) + 1 = k)
      BY <3>1
    <3> QED
      BY <2>3, <3>1, <3>2
  <2>4. i = Head(b) => i <= Head(b)
    BY <1>3
  <2> QED
    BY <2>1, <2>2, <2>3, <2>4
<1>9. EndFits(client[r], conn[r])'
  BY <1>1, <1>2, <1>3, <1>8 DEF EndFits, RowIds, storeVars
<1> QED
  BY <1>6, <1>9 DEF ReaderFits

LEMMA ListEventsFits ==
    ASSUME IInv, NEW r \in Readers, ListEvents(r)
    PROVE  ReaderFits(r)'
<1> DEFINE q == seen[r] \o wire[r]
           j == client[r].job
           b == InOrder(EventsAfter(j, conn[r].last))
<1>1. /\ TypeOK /\ EndsStored /\ RowsFit(client[r], conn[r], wire[r], seen[r])
      /\ EndFits(client[r], conn[r]) /\ rows \in Seq(Row)
  BY DEF IInv, ReaderFits, TypeOK
<1>2. /\ conn[r].at = "list" /\ UNCHANGED storeVars
      /\ wire' = wire /\ client' = client /\ seen' = seen
  BY DEF ListEvents
<1>3. /\ b \in Seq(Nat)
      /\ conn'[r].at = "send" /\ conn'[r].batch = b
      /\ conn'[r].last = conn[r].last /\ conn'[r].over = conn[r].over
  BY <1>1, ListEventsEffect
<1>4. /\ client[r].at = "open" /\ conn[r].last = LastOf(q) /\ q \in Seq(Nat)
      /\ conn[r].last \in Nat
  BY <1>1, <1>2, ReaderTypes, LastOfFacts DEF RowsFit
<1>5. Faithful(q, j)
  BY <1>4, SeenIsFaithful
<1>6. PICK x, k : x = q \o b /\ k = j
  OBVIOUS
<1>7. Faithful(x, k)'
  <2>1. Faithful(x, k)
    BY <1>1, <1>4, <1>5, <1>6, BatchIsFaithful
  <2> QED
    BY <1>2, <2>1, SameStore
<1>8. RowsFit(client[r], conn[r], wire[r], seen[r])'
  <2>1. x = (seen'[r] \o wire'[r]) \o Held(conn'[r]) /\ k = client'[r].job
    BY <1>2, <1>3, <1>6 DEF Held
  <2> HIDE DEF b
  <2> QED
    BY <1>2, <1>3, <1>4, <1>7, <2>1 DEF RowsFit, LastOf, Held
<1>9. \A e \in EventsAfter(j, conn[r].last) : \E m \in 1..Len(b) : b[m] = e
  BY <1>1, <1>4, RowsListed, SMTT(30)
<1>10. conn[r].over =>
         \E i \in RowIds(j) :
            rows[i].ends /\ (i <= conn[r].last \/ \E m \in 1..Len(b) : b[m] = i)
  <2> SUFFICES ASSUME conn[r].over
               PROVE  \E i \in RowIds(j) :
                         rows[i].ends /\ (i <= conn[r].last \/ \E m \in 1..Len(b) : b[m] = i)
    OBVIOUS
  <2>1. PICK i \in RowIds(j) : rows[i].ends
    BY <1>1, <1>2 DEF EndFits, EndsStored
  <2>2. i \in Nat
    BY <1>1, IdsAreNumbers
  <2> HIDE DEF b
  <2>3. i > conn[r].last => \E m \in 1..Len(b) : b[m] = i
    BY <1>9, <2>1 DEF EventsAfter
  <2>4. i <= conn[r].last \/ i > conn[r].last
    BY <1>4, <2>2
  <2> QED
    BY <2>1, <2>3, <2>4
<1>11. EndFits(client[r], conn[r])'
  <2> HIDE DEF b
  <2>1. RowIds(j)' = RowIds(j) /\ rows' = rows /\ over' = over
    BY <1>2 DEF RowIds, storeVars
  <2> QED
    BY <1>1, <1>2, <1>3, <1>10, <2>1 DEF EndFits
<1> QED
  BY <1>8, <1>11 DEF ReaderFits

LEMMA ConnectFits ==
    ASSUME IInv, NEW r \in Readers, Connect(r)
    PROVE  ReaderFits(r)'
<1>1. /\ TypeOK /\ RowsFit(client[r], conn[r], wire[r], seen[r])
  BY DEF IInv, ReaderFits
<1>2. UNCHANGED storeVars /\ wire' = wire /\ seen' = seen
  BY DEF Connect
<1>3. /\ client[r].at = "connecting"
      /\ client'[r].at = "open" /\ client'[r].job = client[r].job
      /\ conn'[r].at = "get" /\ conn'[r].last = LastSeen(r)
      /\ conn'[r].over = FALSE /\ conn'[r].batch = <<>>
  BY <1>1, ConnectEffect DEF OnlyClient
<1>4. conn[r].at = "closed" /\ wire[r] = <<>>
  BY <1>1, <1>3 DEF RowsFit
<1>5. LastSeen(r) = LastOf(seen[r] \o wire[r])
  <2>1. seen[r] \o wire[r] = seen[r]
    BY <1>1, <1>4, ReaderTypes, ConcatEmptySeq
  <2> QED
    BY <2>1 DEF LastSeen, LastOf
<1>6. RowsFit(client[r], conn[r], wire[r], seen[r])'
  BY <1>1, <1>2, <1>3, <1>4, <1>5, SameRows DEF Held
<1>7. EndFits(client[r], conn[r])'
  BY <1>3 DEF EndFits
<1> QED
  BY <1>6, <1>7 DEF ReaderFits

LEMMA RefuseFits ==
    ASSUME IInv, NEW r \in Readers, Refuse(r)
    PROVE  OnlyClient(r, "refused") /\ ReaderFits(r)'
<1>1. /\ TypeOK /\ RowsFit(client[r], conn[r], wire[r], seen[r])
  BY DEF IInv, ReaderFits
<1>2. /\ UNCHANGED storeVars /\ wire' = wire /\ seen' = seen /\ conn' = conn
      /\ client[r].at = "connecting"
  BY DEF Refuse
<1>3. OnlyClient(r, "refused")
  BY <1>1, <1>2, ClientMoves DEF Refuse
<1>4. client'[r].at = "refused" /\ client'[r].job = client[r].job
  BY <1>3 DEF OnlyClient
<1>5. conn[r].at = "closed" /\ wire[r] = <<>>
  BY <1>1, <1>2 DEF RowsFit
<1>6. RowsFit(client[r], conn[r], wire[r], seen[r])'
  BY <1>1, <1>2, <1>4, <1>5, SameRows DEF Held
<1>7. EndFits(client[r], conn[r])'
  BY <1>2, <1>5 DEF EndFits
<1> QED
  BY <1>3, <1>6, <1>7 DEF ReaderFits

LEMMA WatchFits ==
    ASSUME IInv, NEW r \in Readers, NEW j \in Jobs, Watch(r, j)
    PROVE  ReaderFits(r)'
<1>1. /\ TypeOK /\ RowsFit(client[r], conn[r], wire[r], seen[r])
  BY DEF IInv, ReaderFits
<1>2. wire' = wire /\ seen' = seen /\ conn' = conn /\ client[r].at = "idle"
  BY DEF Watch
<1>3. client'[r].at = "connecting" /\ client'[r].job = j
  BY <1>1, WatchEffect
<1>4. seen[r] = <<>> /\ conn[r].at = "closed" /\ wire[r] = <<>>
  BY <1>1, <1>2 DEF RowsFit
<1>5. (<<>> \o <<>>) \o <<>> = <<>>
  BY EmptySeq, ConcatEmptySeq
<1>6. Faithful(<<>>, j)'
  BY EmptySeq DEF Faithful
<1> QED
  BY <1>2, <1>3, <1>4, <1>5, <1>6 DEF ReaderFits, RowsFit, EndFits, Held

LEMMA ReceiveFits ==
    ASSUME IInv, NEW r \in Readers, Receive(r)
    PROVE  client[r].at # "idle" /\ ReaderFits(r)'
<1> DEFINE w == wire[r]
           h == Head(wire[r])
<1>1. /\ TypeOK /\ RowsFit(client[r], conn[r], wire[r], seen[r])
      /\ EndFits(client[r], conn[r])
  BY DEF IInv, ReaderFits
<1>2. UNCHANGED storeVars /\ w # <<>>
  BY DEF Receive
<1>3. client[r].at = "open" /\ conn[r].at # "closed"
  BY <1>1, <1>2 DEF RowsFit
<1>4. Append(seen[r], h) \o Tail(w) = seen[r] \o w
  BY <1>1, <1>2, ReaderTypes, ReceiveMoves
<1>5. seen'[r] = Append(seen[r], h) /\ h \in Nat
  BY <1>1, <1>3, ReceiveEffect
<1>6. CASE wire'[r] = Tail(w) /\ client' = client /\ conn' = conn
  <2>1. RowsFit(client[r], conn[r], wire[r], seen[r])'
    <3>1. (seen'[r] \o wire'[r]) \o Held(conn'[r]) = (seen[r] \o wire[r]) \o Held(conn[r])
      BY <1>4, <1>5, <1>6
    <3>2. conn'[r].last = LastOf(seen'[r] \o wire'[r])
      BY <1>1, <1>3, <1>4, <1>5, <1>6 DEF RowsFit
    <3> QED
      BY <1>1, <1>2, <1>3, <1>6, <3>1, <3>2, SameRows DEF RowsFit
  <2>2. EndFits(client[r], conn[r])'
    BY <1>1, <1>2, <1>6 DEF EndFits, RowIds, storeVars
  <2> QED
    BY <1>3, <2>1, <2>2 DEF ReaderFits
<1>7. CASE wire'[r] = <<>> /\ OnlyClient(r, "ended") /\ conn'[r].at = "closed"
  <2>1. client'[r].at = "ended" /\ client'[r].job = client[r].job
    BY <1>7 DEF OnlyClient
  <2>2. PICK x, j : x = Append(seen[r], h) /\ j = client[r].job
    OBVIOUS
  <2>3. x \in Seq(Nat) /\ Tail(w) \in Seq(Nat)
    BY <1>1, <1>2, <1>5, <2>2, ReaderTypes, AppendProperties, HeadTailProperties
  <2>4. Faithful(x \o Tail(w), j)
    BY <1>3, <1>4, <2>2, SeenIsFaithful
  <2>5. Faithful(x, j)'
    <3>1. Faithful(x, j)
      BY <2>3, <2>4, PrefixIsFaithful
    <3> QED
      BY <1>2, <3>1, SameStore
  <2>6. (x \o <<>>) \o <<>> = x
    BY <2>3, ConcatEmptySeq
  <2>7. /\ (seen'[r] \o wire'[r]) \o Held(conn'[r]) = x /\ client'[r].job = j
    BY <1>5, <1>7, <2>1, <2>2, <2>6 DEF Held
  <2>8. RowsFit(client[r], conn[r], wire[r], seen[r])'
    BY <1>7, <2>1, <2>5, <2>7 DEF RowsFit, Held
  <2> QED
    BY <1>3, <1>7, <2>8 DEF ReaderFits, EndFits
<1> QED
  BY <1>1, <1>3, <1>6, <1>7, ReceiveEffect

LEMMA DisconnectFits ==
    ASSUME IInv, UNCHANGED storeVars, seen' = seen,
           NEW R \in SUBSET Readers, Disconnect(R), NEW r \in R
    PROVE  ReaderFits(r)'
<1>1. /\ TypeOK /\ RowsFit(client[r], conn[r], wire[r], seen[r]) /\ r \in Readers
  BY DEF IInv, ReaderFits
<1>2. /\ conn'[r].at = "closed" /\ wire'[r] = <<>>
      /\ IF client[r].at = "open"
         THEN client'[r].at = "connecting" /\ client'[r].job = client[r].job
         ELSE client'[r] = client[r]
  BY <1>1, DisconnectEffect
<1>3. PICK x, j : x = seen[r] /\ j = client[r].job
  OBVIOUS
<1>4. x \in Seq(Nat) /\ (x \o <<>>) \o <<>> = x
  BY <1>1, <1>3, ReaderTypes, ConcatEmptySeq
<1>5. client[r].at # "idle" => Faithful(x, j)'
  <2> SUFFICES ASSUME client[r].at # "idle" PROVE Faithful(x, j)'
    OBVIOUS
  <2>1. Faithful(x, j)
    BY <1>1, <1>3, SeenIsFaithful
  <2> QED
    BY <2>1, SameStore
<1>6. (seen'[r] \o wire'[r]) \o Held(conn'[r]) = x
  BY <1>2, <1>3, <1>4 DEF Held
<1>7. RowsFit(client[r], conn[r], wire[r], seen[r])'
  BY <1>1, <1>2, <1>3, <1>5, <1>6 DEF RowsFit, Held
<1> QED
  BY <1>2, <1>7 DEF ReaderFits, EndFits
-----------------------------------------------------------------------------
(* The writers of the record: rows are added at the end, and a terminal status *)
(* comes with the row that ends the run.                                       *)
LEMMA WriterStep ==
    ASSUME IInv, NEW j \in Jobs, Create(j) \/ Progress(j) \/ End(j)
    PROVE  IInv'
<1>1. PICK n \in Nat, ends \in BOOLEAN :
         /\ Add(j, n, ends)
         /\ over' \in {over, over \union {j}}
         /\ over' # over => n = 1 /\ ends = TRUE
         /\ UNCHANGED <<serving, readerVars, faults>>
  <2>1. CASE Create(j)
    <3>1. Add(j, 1, FALSE) /\ over' = over /\ UNCHANGED <<serving, readerVars, faults>>
      BY <2>1 DEF Create
    <3>2. 1 \in Nat /\ FALSE \in BOOLEAN
      OBVIOUS
    <3> QED
      BY <3>1, <3>2
  <2>2. CASE Progress(j)
    <3>1. PICK n \in 1..MaxBatch : Add(j, n, FALSE)
      BY <2>2 DEF Progress
    <3>2. over' = over /\ UNCHANGED <<serving, readerVars, faults>>
      BY <2>2 DEF Progress
    <3>3. n \in Nat /\ FALSE \in BOOLEAN
      BY StreamAssumption
    <3> QED
      BY <3>1, <3>2, <3>3
  <2>3. CASE End(j)
    <3>1. /\ Add(j, 1, TRUE) /\ over' = over \union {j}
          /\ UNCHANGED <<serving, readerVars, faults>>
      BY <2>3 DEF End
    <3>2. 1 \in Nat /\ TRUE \in BOOLEAN
      OBVIOUS
    <3> QED
      BY <3>1, <3>2
  <2> QED
    BY <2>1, <2>2, <2>3
<1>2. TypeOK /\ rows \in Seq(Row) /\ EndsStored
  BY DEF IInv, TypeOK
<1>3. /\ rows' \in Seq(Row) /\ Len(rows') = Len(rows) + n
      /\ \A i \in 1..Len(rows) : rows'[i] = rows[i]
      /\ \A i \in (Len(rows) + 1)..(Len(rows) + n) : rows'[i] = [job |-> j, ends |-> ends]
      /\ Len(rows) \in Nat /\ DOMAIN rows = 1..Len(rows) /\ DOMAIN rows' = 1..Len(rows')
  BY <1>1, <1>2, AddGrows, LenProperties
<1>4. TypeOK'
  BY <1>1, <1>2, <1>3 DEF TypeOK, readerVars
<1>5. EndsStored'
  <2> SUFFICES ASSUME NEW k \in over'
               PROVE  \E i \in RowIds(k)' : rows'[i].ends
    BY DEF EndsStored
  <2>1. CASE k \in over
    <3>1. PICK i \in RowIds(k) : rows[i].ends
      BY <1>2, <2>1 DEF EndsStored
    <3>2. i \in RowIds(k)' /\ rows'[i] = rows[i]
      BY <1>3 DEF RowIds
    <3> QED
      BY <3>1, <3>2
  <2>2. CASE k \notin over
    <3>1. k = j /\ n = 1 /\ ends = TRUE
      BY <1>1, <2>2
    <3>2. /\ Len(rows) + 1 \in (Len(rows) + 1)..(Len(rows) + n)
          /\ Len(rows) + 1 \in 1..Len(rows')
      BY <1>3, <3>1
    <3>3. rows'[Len(rows) + 1] = [job |-> j, ends |-> TRUE]
      BY <1>3, <3>1, <3>2
    <3>4. Len(rows) + 1 \in RowIds(k)'
      BY <1>3, <3>1, <3>2, <3>3 DEF RowIds
    <3> QED
      BY <3>3, <3>4
  <2> QED
    BY <2>1, <2>2
<1>6. \A r \in Readers : ReaderFits(r)'
  BY <1>1, WriterFits
<1> QED
  BY <1>4, <1>5, <1>6 DEF IInv

LEMMA StoreStays ==
    ASSUME EndsStored, UNCHANGED storeVars
    PROVE  EndsStored'
BY DEF EndsStored, RowIds, storeVars

(* The steps of one reader's stream and browser. *)
LEMMA ReaderStep ==
    ASSUME IInv, NEW r \in Readers,
           \/ Streaming(r) \/ Connect(r) \/ Refuse(r) \/ Receive(r)
           \/ \E j \in Jobs : Watch(r, j)
    PROVE  IInv'
<1>1. TypeOK /\ EndsStored /\ \A q \in Readers : ReaderFits(q)
  BY DEF IInv
<1>2. UNCHANGED storeVars /\ serving' = serving /\ faults' = faults
  BY DEF Streaming, GetJob, ListEvents, SendEvent, RoundEnds, Deadline, Connect, Refuse,
         Receive, Watch
<1>3. /\ TypeOK'
      /\ \A q \in Readers \ {r} : /\ conn'[q] = conn[q] /\ wire'[q] = wire[q]
                                  /\ client'[q] = client[q] /\ seen'[q] = seen[q]
      /\ ReaderFits(r)'
  <2> USE DEF storeVars
  <2>1. CASE GetJob(r)
    BY <1>1, <1>2, <2>1, GetJobEffect, GetJobFits DEF GetJob, TypeOK, OnlyConn
  <2>2. CASE ListEvents(r)
    BY <1>1, <1>2, <2>2, ListEventsEffect, ListEventsFits DEF ListEvents, TypeOK, OnlyConn
  <2>3. CASE SendEvent(r)
    BY <1>1, <1>2, <2>3, SendEventEffect, SendEventFits DEF SendEvent, TypeOK, OnlyConn
  <2>4. CASE RoundEnds(r)
    BY <1>1, <1>2, <2>4, RoundEndsEffect, RoundEndsFits DEF RoundEnds, TypeOK, OnlyConn
  <2>5. CASE Deadline(r)
    BY <1>1, <1>2, <2>5, DeadlineEffect, DeadlineFits DEF Deadline, TypeOK, OnlyConn
  <2>6. CASE Connect(r)
    BY <1>1, <1>2, <2>6, ConnectEffect, ConnectFits
       DEF Connect, TypeOK, OnlyConn, OnlyClient
  <2>7. CASE Refuse(r)
    BY <1>1, <1>2, <2>7, RefuseFits DEF Refuse, TypeOK, OnlyClient
  <2>8. CASE Receive(r)
    <3>1. client[r].at # "idle" /\ ReaderFits(r)'
      BY <2>8, ReceiveFits
    <3>2. /\ seen' \in [Readers -> Seq(Nat)] /\ wire' \in [Readers -> Seq(Nat)]
          /\ \A q \in Readers \ {r} : seen'[q] = seen[q] /\ wire'[q] = wire[q]
          /\ \/ client' = client /\ conn' = conn
             \/ /\ OnlyClient(r, "ended") /\ conn' \in [Readers -> Conn]
                /\ \A q \in Readers \ {r} : conn'[q] = conn[q]
      BY <1>1, <2>8, <3>1, ReceiveEffect
    <3> QED
      BY <1>1, <1>2, <3>1, <3>2 DEF TypeOK, OnlyClient
  <2>9. ASSUME NEW j \in Jobs, Watch(r, j)
        PROVE  /\ TypeOK'
               /\ \A q \in Readers \ {r} : /\ conn'[q] = conn[q] /\ wire'[q] = wire[q]
                                           /\ client'[q] = client[q] /\ seen'[q] = seen[q]
               /\ ReaderFits(r)'
    BY <1>1, <1>2, <2>9, WatchEffect, WatchFits DEF Watch, TypeOK
  <2> QED
    BY <2>1, <2>2, <2>3, <2>4, <2>5, <2>6, <2>7, <2>8, <2>9 DEF Streaming
<1>4. EndsStored'
  BY <1>1, <1>2, StoreStays
<1>5. ASSUME NEW q \in Readers \ {r}
      PROVE  ReaderFits(q)'
  BY <1>1, <1>2, <1>3, OthersFit
<1> QED
  BY <1>3, <1>4, <1>5 DEF IInv

(* Connections are cut: at the end of a stream, by the network, by a crash. *)
LEMMA CutStep ==
    ASSUME IInv, NEW R \in SUBSET Readers, Disconnect(R), UNCHANGED storeVars, seen' = seen,
           serving' \in BOOLEAN, faults' \in 0..MaxFaults
    PROVE  IInv'
<1>1. TypeOK /\ EndsStored /\ \A q \in Readers : ReaderFits(q)
  BY DEF IInv
<1>2. TypeOK'
  BY <1>1, DisconnectEffect DEF TypeOK, storeVars
<1>3. ASSUME NEW q \in Readers
      PROVE  ReaderFits(q)'
  <2>1. CASE q \in R
    BY <2>1, DisconnectFits
  <2>2. CASE q \notin R
    <3>1. conn'[q] = conn[q] /\ wire'[q] = wire[q] /\ client'[q] = client[q]
      BY <1>1, <2>2, DisconnectEffect
    <3> QED
      BY <1>1, <3>1, OthersFit
  <2> QED
    BY <2>1, <2>2
<1>4. EndsStored'
  BY <1>1, StoreStays
<1> QED
  BY <1>2, <1>3, <1>4 DEF IInv

LEMMA Inductive == IInv /\ [Next]_vars => IInv'
<1> SUFFICES ASSUME IInv, [Next]_vars
             PROVE  IInv'
  OBVIOUS
<1>1. serving \in BOOLEAN /\ faults \in 0..MaxFaults
  BY DEF IInv, TypeOK
<1>2. ASSUME NEW j \in Jobs, Create(j) \/ Progress(j) \/ End(j)
      PROVE  IInv'
  BY <1>2, WriterStep
<1>3. ASSUME NEW r \in Readers, Streaming(r) \/ Connect(r) \/ Refuse(r) \/ Receive(r)
      PROVE  IInv'
  BY <1>3, ReaderStep
<1>4. ASSUME NEW r \in Readers, NEW j \in Jobs, Watch(r, j)
      PROVE  IInv'
  BY <1>4, ReaderStep
<1>5. ASSUME NEW r \in Readers, StreamEnds(r) \/ ConnectionLost(r)
      PROVE  IInv'
  <2>1. Disconnect({r}) /\ UNCHANGED storeVars /\ seen' = seen /\ serving' = serving
    BY <1>5 DEF StreamEnds, ConnectionLost
  <2>2. faults' \in 0..MaxFaults
    BY <1>1, <1>5, StreamAssumption DEF StreamEnds, ConnectionLost
  <2>3. {r} \in SUBSET Readers
    OBVIOUS
  <2> QED
    BY <1>1, <2>1, <2>2, <2>3, CutStep
<1>6. CASE Crash
  <2>1. Disconnect(Readers) /\ UNCHANGED storeVars /\ seen' = seen /\ serving' = FALSE
    BY <1>6 DEF Crash
  <2>2. faults' \in 0..MaxFaults
    BY <1>1, <1>6, StreamAssumption DEF Crash
  <2>3. Readers \in SUBSET Readers
    OBVIOUS
  <2> QED
    BY <2>1, <2>2, <2>3, CutStep
<1>7. CASE Serve \/ UNCHANGED vars
  <2>1. UNCHANGED <<storeVars, readerVars, faults>> /\ serving' \in BOOLEAN
    BY <1>1, <1>7 DEF Serve, vars
  <2>2. UNCHANGED storeVars /\ UNCHANGED readerVars
    BY <2>1
  <2>3. /\ TypeOK /\ EndsStored /\ \A q \in Readers : ReaderFits(q)
    BY DEF IInv
  <2>4. TypeOK'
    BY <2>1, <2>3 DEF TypeOK, storeVars, readerVars
  <2>5. EndsStored'
    BY <2>2, <2>3, StoreStays
  <2>6. \A q \in Readers : ReaderFits(q)'
    BY <2>2, <2>3, OthersFit DEF readerVars
  <2> QED
    BY <2>4, <2>5, <2>6 DEF IInv
<1> QED
  BY <1>2, <1>3, <1>4, <1>5, <1>6, <1>7 DEF Next, Reading, Restarting, Reconcile

LEMMA InitHolds == Init => IInv
<1> SUFFICES ASSUME Init
             PROVE  IInv
  OBVIOUS
<1>1. TypeOK
  BY StreamAssumption, OpenIsConn, EmptySeq DEF Init, TypeOK, Client
<1>2. EndsStored
  BY DEF Init, EndsStored
<1>3. ASSUME NEW r \in Readers
      PROVE  ReaderFits(r)
  <2>1. /\ client[r].at = "idle" /\ conn[r].at = "closed"
        /\ wire[r] = <<>> /\ seen[r] = <<>>
    BY OpenIsConn DEF Init
  <2> QED
    BY <2>1 DEF ReaderFits, RowsFit, EndFits
<1> QED
  BY <1>1, <1>2, <1>3 DEF IInv

LEMMA Invariance == Spec => []IInv
BY InitHolds, Inductive, PTL DEF Spec
-----------------------------------------------------------------------------
(* Every variable of the stream and its readers has its type: a stream never *)
(* sends from a batch it did not list, and never resumes from something that *)
(* is no row id.                                                             *)
THEOREM TypeCorrect == Spec => []TypeOK
<1>1. IInv => TypeOK
  BY DEF IInv
<1> QED
  BY <1>1, Invariance, PTL

(* The rows a console of _send_events has received are, in the order of the  *)
(* table, all rows of its run up to the last one received, each once: over   *)
(* any number of deadlines, lost connections and restarts of the server, and *)
(* with any number of other jobs writing rows in between.                    *)
THEOREM NeverLostOrRepeated == Spec => []NothingLostOrRepeated
<1>1. IInv => NothingLostOrRepeated
  <2> SUFFICES ASSUME IInv, NEW r \in Readers, seen[r] # <<>>
               PROVE  /\ \A i, k \in DOMAIN seen[r] : i < k => seen[r][i] < seen[r][k]
                      /\ {seen[r][i] : i \in DOMAIN seen[r]} =
                           {i \in RowIds(client[r].job) : i <= LastSeen(r)}
    BY DEF NothingLostOrRepeated
  <2> DEFINE s == seen[r]
             j == client[r].job
  <2>1. TypeOK /\ rows \in Seq(Row) /\ s \in Seq(Nat) /\ client[r].at # "idle"
    BY DEF IInv, TypeOK, ReaderFits, RowsFit
  <2>2. Faithful(s, j)
    BY <2>1, SeenIsFaithful
  <2>3. DOMAIN s = 1..Len(s) /\ Len(s) \in Nat /\ LastSeen(r) = s[Len(s)]
        /\ Len(s) \in 1..Len(s)
    BY <2>1, LenProperties, EmptySeq DEF LastSeen
  <2> HIDE DEF s, j
  <2>4. \A i, k \in DOMAIN s : i < k => s[i] < s[k]
    BY <2>2, <2>3 DEF Faithful
  <2>5. ASSUME NEW i \in DOMAIN s
        PROVE  s[i] \in RowIds(j) /\ s[i] <= LastSeen(r)
    <3>1. s[i] \in Nat /\ s[Len(s)] \in Nat
      BY <2>1, <2>3, ElementOfSeq
    <3>2. i = Len(s) \/ i < Len(s)
      BY <2>3
    <3> QED
      BY <2>2, <2>3, <3>1, <3>2 DEF Faithful
  <2>6. ASSUME NEW i \in RowIds(j), i <= LastSeen(r)
        PROVE  \E m \in DOMAIN s : s[m] = i
    BY <2>2, <2>3, <2>6 DEF Faithful
  <2>7. {s[i] : i \in DOMAIN s} = {i \in RowIds(j) : i <= LastSeen(r)}
    BY <2>5, <2>6
  <2> QED
    BY <2>4, <2>7 DEF s, j
<1> QED
  BY <1>1, Invariance, PTL

(* _send_events writes done only behind the event that ended the run: the     *)
(* status it acts on was read before the events were listed.                  *)
THEOREM NeverDoneEarly == Spec => []DoneAfterEnd
<1>1. IInv => DoneAfterEnd
  BY DEF IInv, ReaderFits, EndFits, DoneAfterEnd
<1> QED
  BY <1>1, Invariance, PTL
=============================================================================
