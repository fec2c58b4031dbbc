----------------------------- MODULE StreamProofs -----------------------------
(***************************************************************************)
(* Proofs about a proxied stream (ProxiedStream, StreamTransport and       *)
(* ProxyDial), for every set of answers of a provider and of a proxy and   *)
(* for every bound.                                                        *)
(*                                                                         *)
(* A step is one of the stream's, with which the dial stutters, begins or  *)
(* loses its tunnel, or one of the dial alone: the two are proved apart.   *)
(*                                                                         *)
(* PermitInv, of the stream, says where a permit, a socket, a timer and a  *)
(* listener may be; ContentInv, what became of the lines that have arrived.*)
(* DialInv says what a dialogue has read, and how much time is left to it. *)
(***************************************************************************)
EXTENDS ProxiedStream, FiniteSetTheorems, WellFoundedInduction, TLAPS

-----------------------------------------------------------------------------
(* Positions in order                                                      *)

Below(S, i) == {j \in S : j < i}

\* Every set of numbers that is not empty has a least element.
LEMMA LeastElement ==
  ASSUME NEW S \in SUBSET Nat, S # {}
  PROVE  \E m \in S : \A i \in S : m <= i
<1>1. PICK m \in S : \A i \in S : ~ (<<i, m>> \in OpToRel(<, Nat))
  BY NatLessThanWellFounded, WFMin
<1>2. ASSUME NEW i \in S PROVE m <= i
  <2>1. ~ (i < m)
    BY <1>1 DEF OpToRel
  <2> QED
    BY <2>1
<1> QED
  BY <1>2

\* How many elements of a finite set are below a number.
LEMMA BelowFinite ==
  ASSUME NEW S, IsFiniteSet(S), NEW i
  PROVE  /\ IsFiniteSet(Below(S, i))
         /\ Cardinality(Below(S, i)) \in Nat
<1>1. Below(S, i) \in SUBSET S
  BY DEF Below
<1> QED
  BY <1>1, FS_Subset, FS_CardinalityType

\* The least element of what is not below or at i has i and what is below it.
LEMMA NextAbove ==
  ASSUME NEW S \in SUBSET Nat, IsFiniteSet(S), NEW i \in S,
         Cardinality(Below(S, i)) + 1 < Cardinality(S)
  PROVE  \E e \in S : Cardinality(Below(S, e)) = Cardinality(Below(S, i)) + 1
<1> DEFINE upto == Below(S, i) \union {i}
<1>1. IsFiniteSet(upto) /\ Cardinality(upto) = Cardinality(Below(S, i)) + 1
  <2>1. i \notin Below(S, i)
    BY DEF Below
  <2> QED
    BY <2>1, BelowFinite, FS_AddElement
<1>2. S \ upto # {} /\ S \ upto \in SUBSET Nat
  <2>1. upto \subseteq S
    BY DEF Below
  <2>2. upto # S
    BY <1>1, BelowFinite
  <2> QED
    BY <2>1, <2>2
<1>3. PICK e \in S \ upto : \A j \in S \ upto : e <= j
  <2> HIDE DEF upto
  <2> QED
    BY <1>2, LeastElement
<1>4. Below(S, e) = upto
  <2>1. i < e
    BY <1>3 DEF Below
  <2>2. \A j \in upto : j \in S /\ j < e
    BY <2>1, <1>3 DEF Below
  <2>3. \A j \in S : j < e => j \in upto
    BY <1>3
  <2> HIDE DEF upto
  <2> QED
    BY <2>2, <2>3 DEF Below
<1> QED
  BY <1>1, <1>3, <1>4

\* Every rank is taken.
LEMMA RankTaken ==
  ASSUME NEW S \in SUBSET Nat, IsFiniteSet(S), NEW n \in 1..Cardinality(S)
  PROVE  \E i \in S : Cardinality(Below(S, i)) = n - 1
<1> DEFINE Open_n == {k \in 1..Cardinality(S) : \A i \in S : Cardinality(Below(S, i)) # k - 1}
<1> SUFFICES ASSUME Open_n # {} PROVE FALSE
  OBVIOUS
<1>0. Cardinality(S) \in Nat
  BY FS_CardinalityType
<1>1. PICK m \in Open_n : \A k \in Open_n : m <= k
  <2>1. Open_n \in SUBSET Nat
    BY <1>0
  <2> HIDE DEF Open_n
  <2> QED
    BY <2>1, LeastElement
<1>2. CASE m = 1
  <2>1. S # {}
    BY <1>0, <1>2, FS_EmptySet
  <2>2. PICK e \in S : \A j \in S : e <= j
    BY <2>1, LeastElement
  <2>3. Below(S, e) = {}
    <3>1. \A j \in S : ~ (j < e)
      BY <2>2
    <3> QED
      BY <3>1 DEF Below
  <2> QED
    BY <1>1, <1>2, <2>2, <2>3, FS_EmptySet
<1>3. CASE m # 1
  <2>1. m - 1 \in 1..Cardinality(S) /\ m - 1 \notin Open_n
    BY <1>0, <1>1, <1>3
  <2>2. PICK i \in S : Cardinality(Below(S, i)) = (m - 1) - 1
    BY <2>1
  <2>3. Cardinality(Below(S, i)) + 1 < Cardinality(S)
    BY <1>0, <1>1, <2>1, <2>2
  <2>4. PICK e \in S : Cardinality(Below(S, e)) = Cardinality(Below(S, i)) + 1
    BY <2>3, NextAbove
  <2> QED
    BY <1>0, <1>1, <2>2, <2>4
<1> QED
  BY <1>2, <1>3

\* No rank is taken twice.
LEMMA RankOnce ==
  ASSUME NEW S \in SUBSET Nat, IsFiniteSet(S), NEW i \in S, NEW j \in S,
         Cardinality(Below(S, i)) = Cardinality(Below(S, j))
  PROVE  i = j
<1>1. ASSUME NEW a \in S, NEW b \in S, a < b,
             Cardinality(Below(S, a)) = Cardinality(Below(S, b))
      PROVE  FALSE
  <2>1. \A c \in S : c < a => c < b
    BY <1>1
  <2>2. ~ (a < a)
    OBVIOUS
  <2>3. Below(S, a) \in SUBSET Below(S, b) /\ a \in Below(S, b) /\ a \notin Below(S, a)
    BY <1>1, <2>1, <2>2 DEF Below
  <2> QED
    BY <1>1, <2>3, BelowFinite, FS_Subset
<1> QED
  BY <1>1

\* The n-th position has n - 1 below it, and is the only one of that rank.
LEMMA InOrderElements ==
  ASSUME NEW S \in SUBSET Nat, IsFiniteSet(S)
  PROVE  /\ InOrder(S) \in Seq(S) /\ InOrder(S) \in Seq(Nat)
         /\ Len(InOrder(S)) = Cardinality(S) /\ Cardinality(S) \in Nat
         /\ \A n \in 1..Cardinality(S) :
              /\ InOrder(S)[n] \in S
              /\ Cardinality(Below(S, InOrder(S)[n])) = n - 1
              /\ \A i \in S : Cardinality(Below(S, i)) = n - 1 => InOrder(S)[n] = i
<1>1. Cardinality(S) \in Nat
  BY FS_CardinalityType
<1>2. ASSUME NEW n \in 1..Cardinality(S)
      PROVE  /\ InOrder(S)[n] \in S
             /\ Cardinality(Below(S, InOrder(S)[n])) = n - 1
  <2>1. \E i \in S : Cardinality(Below(S, i)) = n - 1
    BY RankTaken
  <2>2. InOrder(S)[n] = CHOOSE i \in S : Cardinality(Below(S, i)) = n - 1
    BY DEF InOrder, Below
  <2> QED
    BY <2>1, <2>2
<1>3. InOrder(S) \in [1..Cardinality(S) -> S]
  <2> DEFINE ranked(n) == CHOOSE i \in S : Cardinality(Below(S, i)) = n - 1
  <2>1. InOrder(S) = [n \in 1..Cardinality(S) |-> ranked(n)]
    BY DEF InOrder, Below
  <2> HIDE DEF ranked
  <2>2. \A n \in 1..Cardinality(S) : ranked(n) \in S
    BY <1>2, <2>1
  <2> QED
    BY <2>1, <2>2
<1>4. InOrder(S) \in Seq(S) /\ InOrder(S) \in Seq(Nat) /\ Len(InOrder(S)) = Cardinality(S)
  <2>1. InOrder(S) \in [1..Cardinality(S) -> Nat]
    BY <1>3
  <2> QED
    BY <1>1, <1>3, <2>1
<1>5. ASSUME NEW n \in 1..Cardinality(S), NEW i \in S, Cardinality(Below(S, i)) = n - 1
      PROVE  InOrder(S)[n] = i
  <2>1. InOrder(S)[n] \in S /\ Cardinality(Below(S, InOrder(S)[n])) = n - 1
    BY <1>2
  <2> QED
    BY <1>5, <2>1, RankOnce
<1> QED
  BY <1>1, <1>2, <1>4, <1>5

LEMMA InOrderOfRank ==
  ASSUME NEW S \in SUBSET Nat, IsFiniteSet(S), NEW n \in 1..Cardinality(S),
         NEW i \in S, Cardinality(Below(S, i)) = n - 1
  PROVE  InOrder(S)[n] = i
BY InOrderElements

\* Two sequences are joined when they are so element by element.
LEMMA Joined ==
  ASSUME NEW A, NEW s \in Seq(A), NEW t \in Seq(A), NEW u \in Seq(A),
         Len(u) = Len(s) + Len(t),
         \A n \in 1..Len(s) : u[n] = s[n],
         \A n \in 1..Len(t) : u[Len(s) + n] = t[n]
  PROVE  u = s \o t
<1>1. s \o t \in Seq(A) /\ Len(s \o t) = Len(s) + Len(t)
  OBVIOUS
<1>2. ASSUME NEW n \in 1..Len(u) PROVE u[n] = (s \o t)[n]
  <2>1. CASE n <= Len(s)
    BY <2>1
  <2>2. CASE n > Len(s)
    <3>1. n - Len(s) \in 1..Len(t) /\ Len(s) + (n - Len(s)) = n
      BY <2>2
    <3>2. (s \o t)[n] = t[n - Len(s)]
      BY <2>2
    <3> QED
      BY <3>1, <3>2
  <2> QED
    BY <2>1, <2>2
<1> QED
  BY <1>1, <1>2

\* The positions of two sets, one below the other, are those of the first and
\* then those of the second.
LEMMA InOrderJoins ==
  ASSUME NEW S \in SUBSET Nat, IsFiniteSet(S), NEW T \in SUBSET Nat, IsFiniteSet(T),
         \A i \in S, j \in T : i < j
  PROVE  InOrder(S \union T) = InOrder(S) \o InOrder(T)
<1> DEFINE U == S \union T
<1>1. IsFiniteSet(U) /\ Cardinality(U) = Cardinality(S) + Cardinality(T) /\ U \in SUBSET Nat
  <2>1. S \cap T = {}
    OBVIOUS
  <2>2. Cardinality(S \cap T) = 0
    BY <2>1, FS_EmptySet
  <2>3. Cardinality(S) \in Nat /\ Cardinality(T) \in Nat
    BY FS_CardinalityType
  <2>4. IsFiniteSet(U) /\ Cardinality(U) = Cardinality(S) + Cardinality(T) - Cardinality(S \cap T)
    BY FS_Union
  <2> QED
    BY <2>2, <2>3, <2>4
<1>2. ASSUME NEW i \in S PROVE Below(U, i) = Below(S, i)
  <2>1. \A j \in T : ~ (j < i)
    OBVIOUS
  <2> QED
    BY <2>1 DEF Below
<1>3. ASSUME NEW j \in T
      PROVE  Cardinality(Below(U, j)) = Cardinality(S) + Cardinality(Below(T, j))
  <2>1. Below(U, j) = S \union Below(T, j)
    <3>1. \A i \in S : i < j
      OBVIOUS
    <3> QED
      BY <3>1 DEF Below
  <2>2. S \cap Below(T, j) = {}
    <3>1. \A i \in S : ~ (i < i)
      OBVIOUS
    <3>2. S \cap T = {}
      BY <3>1
    <3> QED
      BY <3>2 DEF Below
  <2>3. Cardinality(S \cap Below(T, j)) = 0
    BY <2>2, FS_EmptySet
  <2>4. /\ Cardinality(S) \in Nat
        /\ IsFiniteSet(Below(T, j)) /\ Cardinality(Below(T, j)) \in Nat
    BY BelowFinite, FS_CardinalityType
  <2>5. Cardinality(S \union Below(T, j))
          = Cardinality(S) + Cardinality(Below(T, j)) - Cardinality(S \cap Below(T, j))
    BY <2>4, FS_Union
  <2>6. Cardinality(S \union Below(T, j)) = Cardinality(S) + Cardinality(Below(T, j))
    BY <2>3, <2>4, <2>5
  <2> QED
    BY <2>1, <2>6
<1> HIDE DEF U
<1>4. /\ InOrder(S) \in Seq(Nat) /\ Len(InOrder(S)) = Cardinality(S) /\ Cardinality(S) \in Nat
      /\ InOrder(T) \in Seq(Nat) /\ Len(InOrder(T)) = Cardinality(T) /\ Cardinality(T) \in Nat
      /\ InOrder(U) \in Seq(Nat) /\ Len(InOrder(U)) = Cardinality(U)
  BY <1>1, InOrderElements
<1>5. ASSUME NEW n \in 1..Cardinality(S) PROVE InOrder(U)[n] = InOrder(S)[n]
  <2>1. InOrder(S)[n] \in S /\ Cardinality(Below(S, InOrder(S)[n])) = n - 1
    BY InOrderElements
  <2>2. InOrder(S)[n] \in U /\ Cardinality(Below(U, InOrder(S)[n])) = n - 1
    BY <2>1, <1>2 DEF U
  <2>3. n \in 1..Cardinality(U)
    BY <1>1, <1>4
  <2> QED
    BY <1>1, <2>2, <2>3, InOrderOfRank
<1>6. ASSUME NEW n \in 1..Cardinality(T)
      PROVE  InOrder(U)[Cardinality(S) + n] = InOrder(T)[n]
  <2>1. InOrder(T)[n] \in T /\ Cardinality(Below(T, InOrder(T)[n])) = n - 1
    BY InOrderElements
  <2>2. /\ InOrder(T)[n] \in U
        /\ Cardinality(Below(U, InOrder(T)[n])) = (Cardinality(S) + n) - 1
    <3>1. InOrder(T)[n] \in U
      BY <2>1 DEF U
    <3>2. Cardinality(Below(U, InOrder(T)[n]))
            = Cardinality(S) + Cardinality(Below(T, InOrder(T)[n]))
      BY <1>3, <2>1
    <3>3. n \in Int /\ Cardinality(S) \in Nat
      BY <1>4
    <3> QED
      BY <2>1, <3>1, <3>2, <3>3
  <2>3. Cardinality(S) + n \in 1..Cardinality(U)
    BY <1>1, <1>4
  <2>4. (Cardinality(S) + n) \in 1..Cardinality(U) /\ InOrder(T)[n] \in U
    BY <2>2, <2>3
  <2>5. \A k \in 1..Cardinality(U), i \in U :
          Cardinality(Below(U, i)) = k - 1 => InOrder(U)[k] = i
    BY <1>1, InOrderOfRank
  <2> QED
    BY <2>2, <2>4, <2>5, Zenon
<1>7. InOrder(U) = InOrder(S) \o InOrder(T)
  <2>1. Len(InOrder(U)) = Len(InOrder(S)) + Len(InOrder(T))
    BY <1>1, <1>4
  <2>2. \A n \in 1..Len(InOrder(S)) : InOrder(U)[n] = InOrder(S)[n]
    BY <1>4, <1>5
  <2>3. \A n \in 1..Len(InOrder(T)) : InOrder(U)[Len(InOrder(S)) + n] = InOrder(T)[n]
    BY <1>4, <1>6
  <2>4. InOrder(S) \in Seq(Nat) /\ InOrder(T) \in Seq(Nat) /\ InOrder(U) \in Seq(Nat)
    BY <1>4
  <2> QED
    BY <2>1, <2>2, <2>3, <2>4, Joined
<1> QED
  BY <1>7 DEF U

\* One position, and none.
LEMMA InOrderSmall ==
  /\ \A i \in Nat : InOrder({i}) = <<i>>
  /\ InOrder({}) = <<>>
<1>1. ASSUME NEW i \in Nat PROVE InOrder({i}) = <<i>>
  <2>1. IsFiniteSet({i}) /\ Cardinality({i}) = 1
    BY FS_Singleton
  <2>2. {i} \in SUBSET Nat
    OBVIOUS
  <2>3. InOrder({i}) \in Seq(Nat) /\ Len(InOrder({i})) = 1
    BY <2>1, <2>2, InOrderElements
  <2>4. 1 \in 1..1 /\ \A n \in 1..Cardinality({i}) : InOrder({i})[n] \in {i}
    BY <2>1, <2>2, InOrderElements
  <2>5. InOrder({i})[1] = i
    BY <2>1, <2>4
  <2> QED
    BY <2>3, <2>5
<1>2. InOrder({}) = <<>>
  <2>1. InOrder({}) \in Seq({}) /\ Len(InOrder({})) = 0
    BY FS_EmptySet, InOrderElements
  <2> QED
    BY <2>1
<1> QED
  BY <1>1, <1>2

-----------------------------------------------------------------------------
(* The chunks among the lines                                              *)

ChunkLines(a, b) == {i \in a..b : script[i] = "chunk"}

LEMMA ChunkLinesFinite ==
  ASSUME NEW a \in Nat, NEW b \in Int
  PROVE  /\ ChunkLines(a, b) \in SUBSET Nat /\ IsFiniteSet(ChunkLines(a, b))
         /\ Chunks(a, b) = InOrder(ChunkLines(a, b))
<1>1. ChunkLines(a, b) \in SUBSET (a..b)
  BY DEF ChunkLines
<1>2. IsFiniteSet(a..b)
  BY FS_Interval
<1>3. a..b \subseteq Nat
  OBVIOUS
<1> QED
  BY <1>1, <1>2, <1>3, FS_Subset DEF Chunks, ChunkLines

\* The chunks of two adjoining ranges are those of the first, then the second's.
LEMMA ChunksJoin ==
  ASSUME NEW a \in Nat, NEW b \in Int, NEW c \in Int, a <= b + 1, b <= c
  PROVE  Chunks(a, c) = Chunks(a, b) \o Chunks(b + 1, c)
<1>0. b + 1 \in Nat
  OBVIOUS
<1>1. ChunkLines(a, c) = ChunkLines(a, b) \union ChunkLines(b + 1, c)
  <2>1. a..c = (a..b) \union (b + 1..c)
    OBVIOUS
  <2> QED
    BY <2>1 DEF ChunkLines
<1>2. \A i \in ChunkLines(a, b), j \in ChunkLines(b + 1, c) : i < j
  BY DEF ChunkLines
<1>3. InOrder(ChunkLines(a, b) \union ChunkLines(b + 1, c))
        = InOrder(ChunkLines(a, b)) \o InOrder(ChunkLines(b + 1, c))
  BY <1>0, <1>2, ChunkLinesFinite, InOrderJoins
<1> QED
  BY <1>0, <1>1, <1>3, ChunkLinesFinite

\* Lines without a chunk add nothing, and a line that is one adds itself.
LEMMA ChunksNone ==
  ASSUME NEW a \in Nat, NEW b \in Int, \A i \in a..b : script[i] # "chunk"
  PROVE  Chunks(a, b) = <<>>
<1>1. ChunkLines(a, b) = {}
  BY DEF ChunkLines
<1> QED
  BY <1>1, ChunkLinesFinite, InOrderSmall

LEMMA ChunksType ==
  ASSUME NEW a \in Nat, NEW b \in Int
  PROVE  Chunks(a, b) \in Seq(a..b) /\ Chunks(a, b) \in Seq(Nat)
<1>1. Chunks(a, b) \in Seq(ChunkLines(a, b)) /\ Chunks(a, b) \in Seq(Nat)
  BY ChunkLinesFinite, InOrderElements
<1>2. ChunkLines(a, b) \subseteq a..b
  BY DEF ChunkLines
<1>3. \A A, B, t : A \subseteq B /\ t \in Seq(A) => t \in Seq(B)
  OBVIOUS
<1> QED
  BY <1>1, <1>2, <1>3

\* A range with a chunk has a first one, and then the rest.
LEMMA ChunksFirst ==
  ASSUME NEW a \in Nat, NEW b \in Int, Chunks(a, b) # <<>>
  PROVE  \E h \in a..b : /\ Chunks(a, h) = <<h>>
                         /\ Head(Chunks(a, b)) = h
                         /\ Tail(Chunks(a, b)) = Chunks(h + 1, b)
<1>1. ChunkLines(a, b) # {}
  BY ChunksNone DEF ChunkLines
<1>2. PICK h \in ChunkLines(a, b) : \A i \in ChunkLines(a, b) : h <= i
  BY <1>1, ChunkLinesFinite, LeastElement
<1>3. h \in a..b /\ script[h] = "chunk"
  BY <1>2 DEF ChunkLines
<1>4. ChunkLines(a, h) = {h}
  <2>1. \A i \in a..h : script[i] = "chunk" => i = h
    BY <1>2, <1>3 DEF ChunkLines
  <2> QED
    BY <1>3, <2>1 DEF ChunkLines
<1>5. Chunks(a, h) = <<h>>
  BY <1>3, <1>4, ChunkLinesFinite, InOrderSmall
<1>6. Chunks(a, b) = <<h>> \o Chunks(h + 1, b)
  <2>1. h \in Int /\ a <= h + 1 /\ h <= b
    BY <1>3
  <2>2. Chunks(a, b) = Chunks(a, h) \o Chunks(h + 1, b)
    BY <2>1, ChunksJoin
  <2> QED
    BY <1>5, <2>2
<1>7. Chunks(h + 1, b) \in Seq(Nat)
  BY <1>3, ChunksType
<1>8. \A t \in Seq(Nat) : Head(<<h>> \o t) = h /\ Tail(<<h>> \o t) = t
  BY <1>3
<1> QED
  BY <1>3, <1>5, <1>6, <1>7, <1>8

-----------------------------------------------------------------------------
(* What the stream's steps preserve                                        *)

Running == gen \in {"next", "yield"}
Starting == gen \in {"egress", "acquire"}

\* A generator that has not begun its request, or never began it, has no socket.
PermitInv ==
  /\ gen \in {"egress", "acquire", "next", "yield", "returned", "thrown"}
  /\ PermitBracketsCall
  /\ Starting \/ gen = "thrown" => socket = "none" /\ timers = {} /\ ~listening

\* The content: the client has the chunks of the first m lines, the queue holds
\* those of the rest of the first n.  As long as lines may arrive, those are all
\* that have; and the next line after an end is the one that says so.
Content(m, n) ==
  /\ out = Chunks(1, m)
  /\ items = Chunks(m + 1, n)
  /\ socket \in {"none", "asked", "open"} => n = pos /\ ~ended
  /\ ended /\ gen # "returned" => n < pos /\ script[n + 1] = "done"

ContentInv ==
  /\ \E n \in 0..pos : \E m \in 0..n : Content(m, n)
  /\ Starting => items = <<>>
  /\ QueuedIsDelivered
  /\ reply = "done" => gen = "returned" /\ DoneMeansWhole

\* A chunk is asked for only when there is room for it.
RoomInv ==
  /\ unread \in 0..Window
  /\ gen = "next" => unread < Window
  /\ Starting => unread = 0

StreamInv == TypeOK /\ PermitInv /\ ContentInv /\ RoomInv

LEMMA StreamInit ==
  ASSUME Init
  PROVE  StreamInv
<1>0. /\ Window \in Nat \ {0} /\ MaxMalformed \in Nat /\ script \in Seq(Kinds)
  BY StreamAssumption DEF Init
<1>1. TypeOK
  <2>1. <<>> \in Seq(1..Len(script)) /\ 0 \in 0..Len(script)
    BY <1>0
  <2>2. 0 \in 0..MaxMalformed /\ 0 \in 0..Window
    BY <1>0
  <2> QED
    BY <2>1, <2>2 DEF Init, TypeOK
<1>2. PermitInv /\ RoomInv
  BY <1>0 DEF Init, PermitInv, RoomInv, PermitBracketsCall, Running, Starting
<1>3. ContentInv
  <2>1. Chunks(1, 0) = <<>>
    BY ChunksNone
  <2>2. Content(0, 0)
    BY <2>1 DEF Init, Content
  <2> QED
    BY <2>2 DEF Init, ContentInv, QueuedIsDelivered
<1> QED
  BY <1>1, <1>2, <1>3 DEF StreamInv

\* The permit, by action.
LEMMA PermitStep ==
  ASSUME PermitInv, [Next]_vars
  PROVE  PermitInv'
<1> USE DEF PermitInv, PermitBracketsCall, Running, Starting
<1>1. CASE UNCHANGED vars
  BY <1>1 DEF vars
<1>2. CASE Open
  BY <1>2 DEF Open, upstream, queue, downstream
<1>3. ASSUME NEW ok \in BOOLEAN, Respond(ok) PROVE PermitInv'
  BY <1>3 DEF Respond, upstream, downstream, Fail
<1>4. CASE Break
  BY <1>4 DEF Break, upstream, downstream, Fail
<1>5. ASSUME NEW allowed \in BOOLEAN, CheckEgress(allowed) PROVE PermitInv'
  BY <1>5 DEF CheckEgress, upstream, queue
<1>6. CASE Refused \/ OpenThrows
  BY <1>6 DEF Refused, OpenThrows, upstream, queue
<1>7. ASSUME NEW k \in 0..MaxLines + 1, Data(k) PROVE PermitInv'
  <2>1. /\ socket = "open" /\ UNCHANGED <<listening, permit, gen>>
        /\ \/ socket' = "destroyed"
           \/ UNCHANGED socket
    BY <1>7 DEF Data, ReadFails, Destroy
  <2> QED
    BY <2>1
<1>8. ASSUME NEW t \in {0, 1}, End(t) PROVE PermitInv'
  BY <1>8 DEF End, downstream
<1>9. ASSUME NEW t \in {"idle", "total"}, Timeout(t) PROVE PermitInv'
  BY <1>9 DEF Timeout, Destroy, upstream, downstream
<1>10. CASE Deliver
  BY <1>10 DEF Deliver, upstream
<1>11. CASE Raise
  BY <1>11 DEF Raise, Finally, Destroy, upstream
<1>12. CASE Complete
  BY <1>12 DEF Complete, Finally, Destroy, upstream, queue
<1>13. CASE Pull
  BY <1>13 DEF Pull, upstream, queue, downstream
<1>14. CASE Abandon
  BY <1>14 DEF Abandon, Finally, Destroy, upstream, queue
<1>15. CASE Reads
  BY <1>15 DEF Reads, upstream, queue
<1>16. CASE Leaves
  BY <1>16 DEF Leaves, Destroy, upstream
<1>17. CASE Over
  BY <1>17 DEF Over, vars
<1> QED
  BY <1>1, <1>2, <1>3, <1>4, <1>5, <1>6, <1>7, <1>8, <1>9, <1>10, <1>11, <1>12,
     <1>13, <1>14, <1>15, <1>16, <1>17 DEF Next, Rest

\* The room of the client, by action.
LEMMA RoomStep ==
  ASSUME PermitInv, RoomInv, [Next]_vars
  PROVE  RoomInv'
<1>0. Window \in Nat \ {0}
  BY StreamAssumption
<1> USE DEF RoomInv, Starting
<1>1. CASE UNCHANGED <<unread, gen>>
  BY <1>1
<1>2. CASE Open
  BY <1>0, <1>2 DEF Open, downstream
<1>3. ASSUME NEW allowed \in BOOLEAN, CheckEgress(allowed) PROVE RoomInv'
  BY <1>3 DEF CheckEgress
<1>4. CASE unread' = unread /\ gen' \in {"returned", "thrown"}
  BY <1>4
<1>5. CASE Deliver
  BY <1>0, <1>5 DEF Deliver
<1>6. CASE Pull
  BY <1>6 DEF Pull, downstream
<1>7. CASE Reads
  BY <1>0, <1>7 DEF Reads
<1>8. CASE Leaves
  BY <1>8 DEF Leaves
<1>9. ASSUME NEW ok \in BOOLEAN, Respond(ok) PROVE UNCHANGED <<unread, gen>>
  BY <1>9 DEF Respond, downstream
<1>10. Break => UNCHANGED <<unread, gen>>
  BY DEF Break, downstream
<1>11. ASSUME NEW k \in 0..MaxLines + 1, Data(k) PROVE UNCHANGED <<unread, gen>>
  BY <1>11 DEF Data, downstream
<1>12. ASSUME NEW t \in {0, 1}, End(t) PROVE UNCHANGED <<unread, gen>>
  BY <1>12 DEF End, downstream
<1>13. ASSUME NEW t \in {"idle", "total"}, Timeout(t) PROVE UNCHANGED <<unread, gen>>
  BY <1>13 DEF Timeout, downstream
<1>14. Refused \/ OpenThrows \/ Raise \/ Complete \/ Abandon =>
         unread' = unread /\ gen' \in {"returned", "thrown"}
  BY DEF Refused, OpenThrows, Raise, Complete, Abandon, Finally
<1>15. Over \/ UNCHANGED vars => UNCHANGED <<unread, gen>>
  BY DEF Over, vars
<1> QED
  BY <1>1, <1>2, <1>3, <1>4, <1>5, <1>6, <1>7, <1>8, <1>9, <1>10, <1>11, <1>12,
     <1>13, <1>14, <1>15 DEF Next, Rest

-----------------------------------------------------------------------------
(* A read                                                                  *)

\* The reader stops behind the first [DONE], or at the end of the read.
LEMMA CutLine ==
  ASSUME pos \in Nat, NEW k \in Nat
  PROVE  \/ Cut(k) = pos + k
         \/ Cut(k) \in pos + 1..pos + k /\ script[Cut(k)] = "done"
<1> DEFINE dones == {i \in pos + 1..pos + k : script[i] = "done"}
<1>1. CASE dones = {}
  BY <1>1 DEF Cut
<1>2. CASE dones # {}
  <2>1. dones \in SUBSET Nat
    OBVIOUS
  <2>2. \E i \in dones : \A j \in dones : i <= j
    <3> HIDE DEF dones
    <3> QED
      BY <1>2, <2>1, LeastElement
  <2>3. Cut(k) = CHOOSE i \in dones : \A j \in dones : i <= j
    BY <1>2 DEF Cut
  <2>4. Cut(k) \in dones
    <3> HIDE DEF dones
    <3> QED
      BY <2>2, <2>3
  <2> QED
    BY <2>4
<1> QED
  BY <1>1, <1>2

\* What is pushed ends before the first line that is bad, or with the last.
LEMMA PushedLine ==
  ASSUME pos \in Nat, NEW last \in Nat, pos <= last
  PROVE  PushedTo(last) \in pos..last
<1> DEFINE bad == LinesOf("bad", last)
<1>1. CASE bad = {}
  BY <1>1 DEF PushedTo
<1>2. CASE bad # {}
  <2>1. bad \in SUBSET (pos + 1..last) /\ bad \in SUBSET Nat
    BY DEF LinesOf
  <2>2. \E i \in bad : \A j \in bad : i <= j
    <3> HIDE DEF bad
    <3> QED
      BY <1>2, <2>1, LeastElement
  <2>3. PushedTo(last) = (CHOOSE i \in bad : \A j \in bad : i <= j) - 1
    BY <1>2 DEF PushedTo
  <2>4. (CHOOSE i \in bad : \A j \in bad : i <= j) \in pos + 1..last
    <3> HIDE DEF bad
    <3> QED
      BY <2>1, <2>2
  <2> QED
    BY <2>3, <2>4
<1> QED
  BY <1>1, <1>2

LEMMA StrikesType ==
  ASSUME pos \in Nat, malformed \in Nat, NEW last \in Nat
  PROVE  Strikes(last) \in Nat
<1>1. LinesOf("malformed", last) \in SUBSET (pos + 1..last) /\ IsFiniteSet(pos + 1..last)
  BY FS_Interval DEF LinesOf
<1>2. Cardinality(LinesOf("malformed", last)) \in Nat
  BY <1>1, FS_Subset, FS_CardinalityType
<1> QED
  BY <1>2 DEF Strikes

\* A read pushes the chunks up to some line n: up to its last line as long as
\* the stream goes on, and up to the one before [DONE] where it ends.
Pushes(n) ==
  /\ items' = items \o Chunks(pos + 1, n)
  /\ \/ socket' = "open" /\ n = pos' /\ ended' = ended
     \/ socket' = "destroyed" /\ ended' = ended
     \/ socket' = "destroyed" /\ n < pos' /\ script[n + 1] = "done" /\ ended' = TRUE

LEMMA DataPushes ==
  ASSUME TypeOK, NEW k \in 0..MaxLines + 1, Data(k)
  PROVE  /\ socket = "open"
         /\ UNCHANGED <<script, listening, permit, gen, reply, out, unread, client>>
         /\ pos' = pos + k /\ pos' \in pos..Len(script)
         /\ malformed' \in 0..MaxMalformed
         /\ timers' \subseteq {"idle", "total"}
         /\ {finished', failed', ended'} \subseteq BOOLEAN
         /\ \E n \in pos..pos' : Pushes(n)
<1>0. /\ k \in Nat /\ pos \in Nat /\ script \in Seq(Kinds) /\ MaxMalformed \in Nat
      /\ malformed \in 0..MaxMalformed /\ items \in Seq(Nat)
      /\ {finished, failed, ended} \subseteq BOOLEAN /\ timers \subseteq {"idle", "total"}
  <2>1. script \in Seq(Kinds)
    BY StreamAssumption DEF TypeOK
  <2>2. items \in Seq(Nat)
    <3>1. items \in Seq(1..Len(script)) /\ 1..Len(script) \subseteq Nat
      BY <2>1 DEF TypeOK
    <3> QED
      BY <3>1
  <2>3. MaxMalformed \in Nat /\ MaxLines \in Nat
    BY StreamAssumption
  <2> QED
    BY <2>1, <2>2, <2>3 DEF TypeOK
<1>1. /\ socket = "open"
      /\ UNCHANGED <<script, listening, permit, gen, reply, out, unread, client>>
      /\ pos' = pos + k /\ pos' \in pos..Len(script)
  BY <1>0 DEF Data, downstream
<1> DEFINE last == Cut(k)
           upto == PushedTo(last)
<1>2. /\ last \in pos..pos + k
      /\ last = pos + k \/ (last # pos /\ script[last] = "done")
      /\ upto \in pos..last
  <2>1. last = pos + k \/ (last \in pos + 1..pos + k /\ script[last] = "done")
    BY <1>0, CutLine
  <2>2. last \in pos..pos + k
    BY <1>0, <2>1
  <2>3. last \in Nat /\ pos <= last
    BY <1>0, <2>2
  <2>4. upto \in pos..last
    <3> HIDE DEF last
    <3> QED
      BY <1>0, <2>3, PushedLine
  <2> QED
    BY <1>0, <2>1, <2>2, <2>4
<1>3. Chunks(pos + 1, pos) = <<>>
  BY <1>0, ChunksNone
<1>4. Strikes(last) \in Nat
  <2>1. last \in Nat /\ malformed \in Nat
    BY <1>0, <1>2
  <2> HIDE DEF last
  <2> QED
    BY <1>0, <2>1, StrikesType
<1>5. CASE pos + k > MaxLines \/ ReaderThrows(last, Strikes(last))
  <2>1. ReadFails
    BY <1>5 DEF Data
  <2>2. /\ UNCHANGED <<malformed, finished, items, ended>>
        /\ socket' = "destroyed" /\ timers' = {} /\ failed' \in BOOLEAN
    BY <1>0, <2>1 DEF ReadFails, Fail, Destroy
  <2>3. Pushes(pos)
    BY <1>0, <1>3, <2>2 DEF Pushes
  <2> QED
    BY <1>0, <1>1, <2>2, <2>3
<1>6. CASE ~ (pos + k > MaxLines \/ ReaderThrows(last, Strikes(last)))
  <2>1. /\ malformed' = Strikes(last)
        /\ items' = items \o Chunks(pos + 1, upto)
        /\ IF upto < last
           THEN Fail /\ Destroy /\ UNCHANGED <<finished, ended>>
           ELSE IF k > 0 /\ script[last] = "done"
           THEN finished' = TRUE /\ ended' = TRUE /\ Destroy /\ UNCHANGED failed
           ELSE timers' = timers \union {"idle"} /\ UNCHANGED <<finished, failed, ended, socket>>
    BY <1>6 DEF Data
  <2>2. malformed' \in 0..MaxMalformed
    BY <1>0, <1>4, <1>6, <2>1 DEF ReaderThrows
  <2> HIDE DEF last, upto
  <2>3. CASE upto < last
    <3>1. /\ socket' = "destroyed" /\ timers' = {} /\ failed' \in BOOLEAN
          /\ UNCHANGED <<finished, ended>>
      BY <1>0, <2>1, <2>3 DEF Fail, Destroy
    <3>2. Pushes(upto) /\ upto \in pos..pos'
      BY <1>0, <1>1, <1>2, <2>1, <3>1 DEF Pushes
    <3> QED
      BY <1>0, <1>1, <2>2, <3>1, <3>2
  <2>4. CASE upto = last /\ k > 0 /\ script[last] = "done"
    <3>1. /\ socket' = "destroyed" /\ timers' = {} /\ finished' = TRUE /\ ended' = TRUE
          /\ UNCHANGED failed
      BY <1>2, <2>1, <2>4 DEF Destroy
    <3>2. last - 1 \in pos..pos' /\ last - 1 < pos' /\ (last - 1) + 1 = last
      BY <1>0, <1>1, <1>2, <2>4
    <3>3. Chunks(pos + 1, last) = Chunks(pos + 1, last - 1)
      <4>1. Chunks(pos + 1, last) = Chunks(pos + 1, last - 1) \o Chunks((last - 1) + 1, last)
        <5>1. /\ pos + 1 \in Nat /\ last - 1 \in Int /\ last \in Int
              /\ pos + 1 <= (last - 1) + 1 /\ last - 1 <= last
          BY <1>0, <1>1, <3>2
        <5> QED
          BY <5>1, ChunksJoin
      <4>2. Chunks(last, last) = <<>>
        <5>1. \A i \in last..last : script[i] # "chunk"
          BY <1>0, <1>2, <2>4
        <5>2. last \in Nat
          BY <1>0, <1>2
        <5> QED
          BY <5>1, <5>2, ChunksNone
      <4>3. Chunks(pos + 1, last - 1) \in Seq(Nat)
        BY <1>0, <1>1, <3>2, ChunksType
      <4> QED
        BY <3>2, <4>1, <4>2, <4>3
    <3>4. Pushes(last - 1)
      BY <2>1, <2>4, <3>1, <3>2, <3>3 DEF Pushes
    <3> QED
      BY <1>0, <1>1, <2>2, <3>1, <3>2, <3>4
  <2>5. CASE upto = last /\ ~ (k > 0 /\ script[last] = "done")
    <3>1. timers' = timers \union {"idle"} /\ UNCHANGED <<finished, failed, ended, socket>>
      BY <1>2, <2>1, <2>5
    <3>2. last = pos'
      BY <1>0, <1>1, <1>2, <2>5
    <3>3. Pushes(last) /\ last \in pos..pos'
      BY <1>0, <1>1, <2>1, <2>5, <3>1, <3>2 DEF Pushes
    <3> QED
      BY <1>0, <1>1, <2>2, <3>1, <3>3
  <2> QED
    BY <1>2, <2>3, <2>4, <2>5
<1> QED
  BY <1>5, <1>6

-----------------------------------------------------------------------------
(* The content                                                             *)

\* A step that moves no line and gives no end: the generator goes on, or is over
\* before it has begun or because the client has left.
GoesOn ==
  \/ gen' = gen
  \/ gen = "egress" /\ gen' = "acquire"
  \/ gen = "acquire" /\ gen' = "next"
  \/ Running /\ Running'
  \/ gen' = "returned" /\ (Starting \/ client = "gone")
  \/ gen' = "thrown" /\ Starting

LEMMA ContentFrame ==
  ASSUME ContentInv, PermitInv, UNCHANGED <<script, pos, items, ended, out>>,
         reply' = reply \/ reply' # "done",
         socket' \in {"none", "asked", "open"} => socket \in {"none", "asked", "open"},
         GoesOn, client' = "there" => client = "there"
  PROVE  ContentInv'
<1>1. PICK n \in 0..pos : \E m \in 0..n : Content(m, n)
  BY DEF ContentInv
<1>2. PICK m \in 0..n : Content(m, n)
  BY <1>1
<1>3. \A a, b : Chunks(a, b)' = Chunks(a, b)
  BY DEF Chunks
<1>4. Content(m, n)'
  BY <1>2, <1>3 DEF Content, PermitInv, Running, Starting, GoesOn
<1>5. n \in 0..pos'
  BY <1>1
<1>6. (Starting => items = <<>>)' /\ QueuedIsDelivered'
  BY DEF ContentInv, PermitInv, QueuedIsDelivered, Starting, Running, GoesOn
<1>7. (reply = "done" => gen = "returned" /\ DoneMeansWhole)'
  BY <1>3 DEF ContentInv, PermitInv, DoneMeansWhole, Starting, Running, GoesOn
<1> QED
  BY <1>4, <1>5, <1>6, <1>7 DEF ContentInv

LEMMA ContentData ==
  ASSUME StreamInv, NEW k \in 0..MaxLines + 1, Data(k)
  PROVE  ContentInv'
<1>1. /\ socket = "open"
      /\ UNCHANGED <<script, gen, reply, out, client>>
      /\ pos' \in pos..Len(script)
      /\ \E n \in pos..pos' : Pushes(n)
  BY DataPushes DEF StreamInv
<1>2. PICK p \in pos..pos' : Pushes(p)
  BY <1>1
<1>3. PICK n \in 0..pos : \E m \in 0..n : Content(m, n)
  BY DEF StreamInv, ContentInv
<1>4. PICK m \in 0..n : Content(m, n)
  BY <1>3
<1>5. n = pos /\ ended = FALSE /\ pos \in Nat
  <2>1. n = pos /\ ~ended
    BY <1>1, <1>4 DEF Content
  <2> QED
    BY <2>1 DEF StreamInv, TypeOK
<1>6. \A a, b : Chunks(a, b)' = Chunks(a, b)
  BY <1>1 DEF Chunks
<1>7. items' = Chunks(m + 1, p)
  <2>1. /\ m + 1 \in Nat /\ pos \in Int /\ p \in Int /\ m + 1 <= pos + 1 /\ pos <= p
    BY <1>5
  <2>2. Chunks(m + 1, p) = Chunks(m + 1, pos) \o Chunks(pos + 1, p)
    BY <2>1, ChunksJoin
  <2> QED
    BY <1>2, <1>4, <1>5, <2>2 DEF Pushes, Content
<1>8. Content(m, p)'
  BY <1>1, <1>2, <1>4, <1>5, <1>6, <1>7 DEF Content, Pushes
<1>9. p \in 0..pos' /\ m \in 0..p
  BY <1>1, <1>5
<1>10. gen \notin {"egress", "acquire", "returned", "thrown"}
  BY <1>1 DEF StreamInv, PermitInv, PermitBracketsCall, Starting
<1>11. (Starting => items = <<>>)' /\ QueuedIsDelivered'
  BY <1>1, <1>10 DEF Starting, QueuedIsDelivered
<1>12. (reply = "done" => gen = "returned" /\ DoneMeansWhole)'
  BY <1>1, <1>10 DEF StreamInv, ContentInv
<1> QED
  BY <1>8, <1>9, <1>11, <1>12 DEF ContentInv

LEMMA ContentEnd ==
  ASSUME StreamInv, NEW t \in {0, 1}, End(t)
  PROVE  ContentInv'
<1>1. /\ socket = "open" /\ socket' = "ended"
      /\ UNCHANGED <<script, gen, reply, out, client, items>>
      /\ pos' = pos + t /\ pos \in Nat
      /\ \/ ended' = TRUE /\ t = 1 /\ script[pos + 1] = "done"
         \/ ended' = ended
  <2>1. pos \in Nat
    BY DEF StreamInv, TypeOK
  <2> QED
    BY <2>1 DEF End, downstream
<1>2. PICK n \in 0..pos : \E m \in 0..n : Content(m, n)
  BY DEF StreamInv, ContentInv
<1>3. PICK m \in 0..n : Content(m, n)
  BY <1>2
<1>4. n = pos /\ ~ended
  BY <1>1, <1>3 DEF Content
<1>5. \A a, b : Chunks(a, b)' = Chunks(a, b)
  BY <1>1 DEF Chunks
<1>6. Content(m, n)'
  BY <1>1, <1>3, <1>4, <1>5 DEF Content
<1>7. n \in 0..pos'
  BY <1>1
<1>8. gen \notin {"egress", "acquire", "returned", "thrown"}
  BY <1>1 DEF StreamInv, PermitInv, PermitBracketsCall, Starting
<1>9. (Starting => items = <<>>)' /\ QueuedIsDelivered'
  BY <1>1, <1>8 DEF Starting, QueuedIsDelivered
<1>10. (reply = "done" => gen = "returned" /\ DoneMeansWhole)'
  BY <1>1, <1>8 DEF StreamInv, ContentInv
<1> QED
  BY <1>6, <1>7, <1>9, <1>10 DEF ContentInv

\* The first chunk of the queue is the next for the client.
LEMMA ContentDeliver ==
  ASSUME StreamInv, Deliver
  PROVE  ContentInv'
<1>1. /\ gen = "next" /\ gen' = "yield" /\ items # <<>>
      /\ items' = Tail(items) /\ out' = Append(out, Head(items))
      /\ UNCHANGED <<script, pos, ended, socket, client>>
      /\ reply' \in {"cut", "streaming"}
  BY DEF Deliver, upstream
<1>2. PICK n \in 0..pos : \E m \in 0..n : Content(m, n)
  BY DEF StreamInv, ContentInv
<1>3. PICK m \in 0..n : Content(m, n)
  BY <1>2
<1>4. \A a, b : Chunks(a, b)' = Chunks(a, b)
  BY <1>1 DEF Chunks
<1>5. pos \in Nat /\ m + 1 \in Nat /\ n \in Int
  BY DEF StreamInv, TypeOK
<1>6. PICK h \in m + 1..n : /\ Chunks(m + 1, h) = <<h>>
                            /\ Head(items) = h
                            /\ Tail(items) = Chunks(h + 1, n)
  BY <1>1, <1>3, <1>5, ChunksFirst DEF Content
<1>7. Append(out, Head(items)) = Chunks(1, h)
  <2>1. 1 \in Nat /\ m \in Int /\ h \in Int /\ 1 <= m + 1 /\ m <= h
    BY <1>5
  <2>2. Chunks(1, h) = Chunks(1, m) \o Chunks(m + 1, h)
    BY <2>1, ChunksJoin
  <2>3. Chunks(1, m) \in Seq(Nat) /\ h \in Nat
    BY <1>5, ChunksType
  <2>4. \A s \in Seq(Nat) : Append(s, h) = s \o <<h>>
    BY <2>3
  <2> QED
    BY <1>3, <1>6, <2>2, <2>3, <2>4 DEF Content
<1>8. Content(h, n)'
  BY <1>1, <1>3, <1>4, <1>6, <1>7 DEF Content
<1>9. n \in 0..pos' /\ h \in 0..n
  BY <1>1, <1>5
<1>10. (Starting => items = <<>>)' /\ QueuedIsDelivered'
  BY <1>1 DEF Starting, QueuedIsDelivered
<1> QED
  BY <1>1, <1>8, <1>9, <1>10 DEF ContentInv

\* The generator is over once the queue is empty: with an error, or with all
\* that came before [DONE].
LEMMA ContentOver ==
  ASSUME StreamInv, Raise \/ Complete
  PROVE  ContentInv'
<1>1. /\ gen = "next" /\ gen' = "returned" /\ items = <<>> /\ socket' = "destroyed"
      /\ UNCHANGED <<script, pos, items, out, client>>
      /\ reply' # "done" \/ ended
  BY DEF Raise, Complete, Finally, Destroy, upstream, queue, Failure
<1>2. PICK n \in 0..pos : \E m \in 0..n : Content(m, n)
  BY DEF StreamInv, ContentInv
<1>3. PICK m \in 0..n : Content(m, n)
  BY <1>2
<1>4. \A a, b : Chunks(a, b)' = Chunks(a, b)
  BY <1>1 DEF Chunks
<1>5. Content(m, n)'
  BY <1>1, <1>3, <1>4 DEF Content
<1>6. ASSUME ended PROVE DoneMeansWhole'
  <2>1. n < pos /\ script[n + 1] = "done"
    BY <1>1, <1>3, <1>6 DEF Content
  <2>2. /\ pos \in Nat /\ 1 \in Nat /\ m + 1 \in Nat /\ m \in Int /\ n \in Int
        /\ 1 <= m + 1 /\ m <= n
    BY DEF StreamInv, TypeOK
  <2>3. Chunks(1, n) = Chunks(1, m) \o Chunks(m + 1, n)
    BY <2>2, ChunksJoin
  <2>4. Chunks(1, m) \in Seq(Nat) /\ Chunks(m + 1, n) = <<>>
    BY <1>1, <1>3, <2>2, ChunksType DEF Content
  <2>5. out = Chunks(1, n)
    BY SMTT(30), <1>3, <2>3, <2>4 DEF Content
  <2>6. n + 1 \in 1..pos /\ (n + 1) - 1 = n
    BY <2>1, <2>2
  <2>7. \E i \in 1..pos : script[i] = "done" /\ out = Chunks(1, i - 1)
    BY <2>1, <2>5, <2>6
  <2> QED
    BY <1>1, <1>4, <2>7 DEF DoneMeansWhole
<1>7. (Starting => items = <<>>)' /\ QueuedIsDelivered'
  BY <1>1 DEF Starting, QueuedIsDelivered
<1> QED
  BY <1>1, <1>2, <1>3, <1>5, <1>6, <1>7 DEF ContentInv

LEMMA ContentStep ==
  ASSUME StreamInv, [Next]_vars
  PROVE  ContentInv'
<1>0. ContentInv /\ PermitInv
  BY DEF StreamInv
<1> DEFINE kept == UNCHANGED <<script, pos, items, ended, out>>
           opened == socket' \in {"none", "asked", "open"} => socket \in {"none", "asked", "open"}
<1>1. CASE UNCHANGED vars
  BY <1>0, <1>1, ContentFrame DEF vars, GoesOn
<1>2. CASE Open
  <2>1. kept /\ UNCHANGED <<reply, client>> /\ opened
    BY <1>0, <1>2 DEF Open, upstream, queue, downstream, PermitInv, Starting
  <2>2. GoesOn
    BY <1>2 DEF Open, GoesOn
  <2> QED
    BY <1>0, <2>1, <2>2, ContentFrame
<1>3. ASSUME NEW ok \in BOOLEAN, Respond(ok) PROVE ContentInv'
  BY <1>0, <1>3, ContentFrame DEF Respond, GoesOn, upstream, downstream
<1>4. CASE Break
  BY <1>0, <1>4, ContentFrame DEF Break, GoesOn, upstream, downstream
<1>5. ASSUME NEW allowed \in BOOLEAN, CheckEgress(allowed) PROVE ContentInv'
  <2>1. kept /\ UNCHANGED client /\ opened /\ (reply' = reply \/ reply' # "done") /\ GoesOn
    BY <1>5 DEF CheckEgress, GoesOn, Failure, Starting, upstream, queue
  <2> QED
    BY <1>0, <2>1, ContentFrame
<1>6. CASE Refused \/ OpenThrows
  <2>1. kept /\ UNCHANGED client /\ opened /\ (reply' = reply \/ reply' # "done") /\ GoesOn
    BY <1>6 DEF Refused, OpenThrows, GoesOn, Failure, Starting, upstream, queue
  <2> QED
    BY <1>0, <2>1, ContentFrame
<1>7. ASSUME NEW k \in 0..MaxLines + 1, Data(k) PROVE ContentInv'
  BY <1>7, ContentData
<1>8. ASSUME NEW t \in {0, 1}, End(t) PROVE ContentInv'
  BY <1>8, ContentEnd
<1>9. ASSUME NEW t \in {"idle", "total"}, Timeout(t) PROVE ContentInv'
  BY <1>0, <1>9, ContentFrame DEF Timeout, Destroy, GoesOn, upstream, downstream
<1>10. CASE Deliver
  BY <1>10, ContentDeliver
<1>11. CASE Raise \/ Complete
  BY <1>11, ContentOver
<1>12. CASE Pull
  <2>1. kept /\ UNCHANGED <<reply, client>> /\ opened /\ GoesOn
    BY <1>12 DEF Pull, GoesOn, Running, upstream, queue, downstream
  <2> QED
    BY <1>0, <2>1, ContentFrame
<1>13. CASE Abandon
  <2>1. kept /\ UNCHANGED client /\ reply' # "done" /\ opened /\ GoesOn
    BY <1>13 DEF Abandon, Finally, Destroy, GoesOn, upstream, queue
  <2> QED
    BY <1>0, <2>1, ContentFrame
<1>14. CASE Reads
  BY <1>0, <1>14, ContentFrame DEF Reads, GoesOn, upstream, queue
<1>15. CASE Leaves
  <2>1. kept /\ (reply' = reply \/ reply' # "done") /\ client' = "gone" /\ opened /\ GoesOn
    BY <1>15 DEF Leaves, Destroy, Failure, GoesOn, Starting, upstream
  <2> QED
    BY <1>0, <2>1, ContentFrame
<1>16. CASE Over
  BY <1>0, <1>16, ContentFrame DEF Over, vars, GoesOn
<1> QED
  BY <1>1, <1>2, <1>3, <1>4, <1>5, <1>6, <1>7, <1>8, <1>9, <1>10, <1>11, <1>12,
     <1>13, <1>14, <1>15, <1>16 DEF Next, Rest

-----------------------------------------------------------------------------
(* The types                                                               *)

\* The types, by action: most leave the lines alone, and set flags only.
LEMMA TypeStep ==
  ASSUME StreamInv, RoomInv', PermitInv', [Next]_vars
  PROVE  TypeOK'
<1>0. TypeOK /\ gen' \in {"egress", "acquire", "next", "yield", "returned", "thrown"}
      /\ unread' \in 0..Window
  BY DEF StreamInv, PermitInv, RoomInv
<1> DEFINE lines == /\ UNCHANGED <<script, pos, malformed, items, out>>
           flags == /\ {finished', failed', ended', listening', permit'} \subseteq BOOLEAN
                    /\ timers' \subseteq {"idle", "total"}
                    /\ socket' \in {"none", "asked", "open", "ended", "destroyed"}
                    /\ reply' \in {"none", "streaming", "envelope", "error", "done", "cut"}
                    /\ client' \in {"there", "gone"}
<1>1. lines /\ flags => TypeOK'
  BY <1>0 DEF TypeOK
<1>2. CASE UNCHANGED vars
  BY <1>0, <1>2 DEF vars, TypeOK
<1>3. CASE Open
  <2>1. lines /\ flags
    BY <1>0, <1>3 DEF Open, upstream, queue, downstream, TypeOK
  <2> QED
    BY <1>1, <2>1
<1>4. ASSUME NEW ok \in BOOLEAN, Respond(ok) PROVE TypeOK'
  <2>1. lines /\ flags
    BY <1>0, <1>4 DEF Respond, Fail, upstream, downstream, TypeOK
  <2> QED
    BY <1>1, <2>1
<1>5. CASE Break
  <2>1. lines /\ flags
    BY <1>0, <1>5 DEF Break, Fail, upstream, downstream, TypeOK
  <2> QED
    BY <1>1, <2>1
<1>6. ASSUME NEW allowed \in BOOLEAN, CheckEgress(allowed) PROVE TypeOK'
  <2>1. lines /\ flags
    BY <1>0, <1>6 DEF CheckEgress, Failure, upstream, queue, TypeOK
  <2> QED
    BY <1>1, <2>1
<1>7. CASE Refused \/ OpenThrows
  <2>1. lines /\ flags
    BY <1>0, <1>7 DEF Refused, OpenThrows, Failure, upstream, queue, TypeOK
  <2> QED
    BY <1>1, <2>1
<1>8. ASSUME NEW k \in 0..MaxLines + 1, Data(k) PROVE TypeOK'
  <2>1. /\ UNCHANGED <<script, listening, permit, reply, out, client>>
        /\ pos' \in pos..Len(script)
        /\ malformed' \in 0..MaxMalformed
        /\ timers' \subseteq {"idle", "total"}
        /\ {finished', failed', ended'} \subseteq BOOLEAN
    BY <1>0, <1>8, DataPushes
  <2>2. PICK n \in pos..pos' : Pushes(n)
    BY <1>0, <1>8, DataPushes
  <2>3. /\ socket' \in {"none", "asked", "open", "ended", "destroyed"}
        /\ items' = items \o Chunks(pos + 1, n)
    BY <2>2 DEF Pushes
  <2>4. pos \in Nat /\ n \in Nat /\ pos' \in 0..Len(script) /\ n <= Len(script)
    BY <1>0, <2>1, <2>2 DEF TypeOK
  <2>5. items' \in Seq(1..Len(script))
    <3>1. Chunks(pos + 1, n) \in Seq(pos + 1..n)
      BY <2>4, ChunksType
    <3>2. pos + 1..n \subseteq 1..Len(script)
      BY <2>4
    <3>3. \A A, B, t : A \subseteq B /\ t \in Seq(A) => t \in Seq(B)
      OBVIOUS
    <3>4. Chunks(pos + 1, n) \in Seq(1..Len(script))
      BY <3>1, <3>2, <3>3
    <3>5. items \in Seq(1..Len(script))
      BY <1>0 DEF TypeOK
    <3> QED
      BY <2>3, <3>4, <3>5
  <2> QED
    BY <1>0, <2>1, <2>3, <2>4, <2>5 DEF TypeOK
<1>9. ASSUME NEW t \in {0, 1}, End(t) PROVE TypeOK'
  <2>1. /\ UNCHANGED <<script, malformed, items, timers, listening, permit, reply, out, client>>
        /\ socket' = "ended" /\ {finished', failed', ended'} \subseteq BOOLEAN
    BY <1>0, <1>9 DEF End, Fail, downstream, TypeOK
  <2>2. pos' \in 0..Len(script)
    BY <1>0, <1>9 DEF End, TypeOK
  <2> QED
    BY <1>0, <2>1, <2>2 DEF TypeOK
<1>10. ASSUME NEW t \in {"idle", "total"}, Timeout(t) PROVE TypeOK'
  <2>1. lines /\ flags
    BY <1>0, <1>10 DEF Timeout, Destroy, Fail, upstream, downstream, TypeOK
  <2> QED
    BY <1>1, <2>1
<1>11. CASE Deliver
  <2>1. /\ UNCHANGED <<script, pos, malformed>> /\ flags
    BY <1>0, <1>11 DEF Deliver, upstream, TypeOK
  <2>2. items' \in Seq(1..Len(script)) /\ out' \in Seq(1..Len(script))
    BY <1>0, <1>11 DEF Deliver, TypeOK
  <2> QED
    BY <1>0, <2>1, <2>2 DEF TypeOK
<1>12. CASE Raise
  <2>1. lines /\ flags
    BY <1>0, <1>12 DEF Raise, Finally, Destroy, Failure, upstream, TypeOK
  <2> QED
    BY <1>1, <2>1
<1>13. CASE Complete
  <2>1. lines /\ flags
    BY <1>0, <1>13 DEF Complete, Finally, Destroy, upstream, queue, TypeOK
  <2> QED
    BY <1>1, <2>1
<1>14. CASE Pull
  <2>1. lines /\ flags
    BY <1>0, <1>14 DEF Pull, upstream, queue, downstream, TypeOK
  <2> QED
    BY <1>1, <2>1
<1>15. CASE Abandon
  <2>1. lines /\ flags
    BY <1>0, <1>15 DEF Abandon, Finally, Destroy, upstream, queue, TypeOK
  <2> QED
    BY <1>1, <2>1
<1>16. CASE Reads
  <2>1. lines /\ flags
    BY <1>0, <1>16 DEF Reads, upstream, queue, TypeOK
  <2> QED
    BY <1>1, <2>1
<1>17. CASE Leaves
  <2>1. lines /\ flags
    BY <1>0, <1>17 DEF Leaves, Destroy, Fail, Failure, upstream, TypeOK
  <2> QED
    BY <1>1, <2>1
<1>18. CASE Over
  BY <1>0, <1>18 DEF Over, vars, TypeOK
<1> QED
  BY <1>2, <1>3, <1>4, <1>5, <1>6, <1>7, <1>8, <1>9, <1>10, <1>11, <1>12, <1>13,
     <1>14, <1>15, <1>16, <1>17, <1>18 DEF Next, Rest

LEMMA StreamStep ==
  ASSUME StreamInv, [Next]_vars
  PROVE  StreamInv'
<1>1. PermitInv' /\ RoomInv'
  BY PermitStep, RoomStep DEF StreamInv
<1>2. ContentInv' /\ TypeOK'
  BY <1>1, ContentStep, TypeStep
<1> QED
  BY <1>1, <1>2 DEF StreamInv

-----------------------------------------------------------------------------
(* The dial                                                                *)

Dialling == dial \in {"connecting", "talking", "tunnel"}

\* A dialogue has done its first reads, none of which threw, and what has
\* arrived beyond them is with the reader.
DialReads ==
  dial = "talking" => /\ reads \in 0..Len(Dial!Dialogue)
                      /\ arrived = Dial!ReadTo(reads) + buffered
                      /\ \A j \in 1..reads : Dial!Dialogue[j].goes

\* Each of the two deadlines leaves its own time, and no more.
DialTime ==
  /\ dial = "connecting" => elapsed + left <= Patience
  /\ dial = "talking" => elapsed + left <= 2 * Patience

DialPlace ==
  /\ Dialling => proxy \in Proxies
  /\ dial \in {"none", "connecting"} => arrived = 0 /\ buffered = 0 /\ reads = 0
  /\ dial = "none" => elapsed = 0
  /\ conn = "open" => Dialling

DialInv == Dial!TypeOK /\ DialReads /\ DialTime /\ DialPlace /\ TunnelIsClean

-----------------------------------------------------------------------------
(* The dialogues                                                           *)

\* The reads of a dialogue end at bytes, and those of one that went through end
\* where the answer does: then the proxy agreed at every stage.
SoundDialogue ==
  LET n == Len(Dial!Dialogue)
  IN  /\ n \in Nat \ {0}
      /\ \A i \in 1..n : Dial!Dialogue[i].upto \in Nat
      /\ (\A i \in 1..n : Dial!Dialogue[i].goes) =>
           /\ Dial!Agreed(proxy)
           /\ Dial!Dialogue[n].upto = Dial!AnswerLength(proxy)

ReadSet == [upto : Nat, goes : BOOLEAN]

\* The bytes of an address and its port, with the length byte of a name.
AddressBytes(p) ==
  CASE p.address = "v4" -> 6
    [] p.address = "v6" -> 18
    [] p.address = "domain" -> 3 + p.domain

\* The reads of an address end one after the other, the last where it does.
LEMMA AddressReads ==
  ASSUME NEW p \in Dial!Socks5Answer, NEW at \in Nat
  PROVE  /\ Dial!Address(p, at) \in Seq(ReadSet)
         /\ p.address # "other" =>
              /\ Len(Dial!Address(p, at)) \in Nat \ {0}
              /\ Dial!Address(p, at)[Len(Dial!Address(p, at))].upto = at + AddressBytes(p)
<1>0. /\ \A a \in ReadSet : <<a>> \in Seq(ReadSet) /\ Len(<<a>>) = 1 /\ <<a>>[1] = a
      /\ \A a, b \in ReadSet : <<a, b>> \in Seq(ReadSet) /\ Len(<<a, b>>) = 2 /\ <<a, b>>[2] = b
  OBVIOUS
<1>1. p.address \in {"v4", "v6", "domain", "other"} /\ p.domain \in Nat
  BY DEF Dial!Socks5Answer
<1>3. CASE p.address = "v4"
  <2>1. Dial!Address(p, at) = <<Dial!Read(at + 4 + 2, TRUE)>>
    BY <1>3 DEF Dial!Address
  <2>2. Dial!Read(at + 4 + 2, TRUE) \in ReadSet /\ Dial!Read(at + 4 + 2, TRUE).upto = at + 6
    BY DEF Dial!Read, ReadSet
  <2>3. AddressBytes(p) = 6
    BY <1>3 DEF AddressBytes
  <2>4. PICK a \in ReadSet : a = Dial!Read(at + 4 + 2, TRUE)
    BY <2>2
  <2>5. /\ Dial!Address(p, at) \in Seq(ReadSet)
        /\ Len(Dial!Address(p, at)) = 1
        /\ Dial!Address(p, at)[1] = a
    <3>1. Dial!Address(p, at) = <<a>>
      BY <2>1, <2>4
    <3> QED
      BY <1>0, <2>2, <3>1, Zenon
  <2>6. a.upto = at + AddressBytes(p)
    BY <2>2, <2>3, <2>4
  <2> QED
    BY <2>5, <2>6
<1>4. CASE p.address = "v6"
  <2>1. Dial!Address(p, at) = <<Dial!Read(at + 16 + 2, TRUE)>>
    BY <1>4 DEF Dial!Address
  <2>2. Dial!Read(at + 16 + 2, TRUE) \in ReadSet /\ Dial!Read(at + 16 + 2, TRUE).upto = at + 18
    BY DEF Dial!Read, ReadSet
  <2>3. AddressBytes(p) = 18
    BY <1>4 DEF AddressBytes
  <2>4. PICK a \in ReadSet : a = Dial!Read(at + 16 + 2, TRUE)
    BY <2>2
  <2>5. /\ Dial!Address(p, at) \in Seq(ReadSet)
        /\ Len(Dial!Address(p, at)) = 1
        /\ Dial!Address(p, at)[1] = a
    <3>1. Dial!Address(p, at) = <<a>>
      BY <2>1, <2>4
    <3> QED
      BY <1>0, <2>2, <3>1, Zenon
  <2>6. a.upto = at + AddressBytes(p)
    BY <2>2, <2>3, <2>4
  <2> QED
    BY <2>5, <2>6
<1>5. CASE p.address = "domain"
  <2>1. Dial!Address(p, at) = <<Dial!Read(at + 1, TRUE), Dial!Read(at + 1 + p.domain + 2, TRUE)>>
    BY <1>5 DEF Dial!Address
  <2>2. /\ Dial!Read(at + 1, TRUE) \in ReadSet
        /\ Dial!Read(at + 1 + p.domain + 2, TRUE) \in ReadSet
        /\ Dial!Read(at + 1 + p.domain + 2, TRUE).upto = at + (3 + p.domain)
    BY <1>1 DEF Dial!Read, ReadSet
  <2>3. AddressBytes(p) = 3 + p.domain
    BY <1>5 DEF AddressBytes
  <2>4. PICK a \in ReadSet : a = Dial!Read(at + 1 + p.domain + 2, TRUE)
    BY <2>2
  <2>5. /\ Dial!Address(p, at) \in Seq(ReadSet)
        /\ Len(Dial!Address(p, at)) = 2
        /\ Dial!Address(p, at)[2] = a
    <3>1. PICK b \in ReadSet : b = Dial!Read(at + 1, TRUE)
      BY <2>2
    <3>2. Dial!Address(p, at) = <<b, a>>
      BY <2>1, <2>4, <3>1
    <3>3. <<b, a>> \in Seq(ReadSet) /\ Len(<<b, a>>) = 2 /\ <<b, a>>[2] = a
      BY <1>0
    <3> QED
      BY <3>2, <3>3, Zenon
  <2>6. a.upto = at + AddressBytes(p)
    BY <2>2, <2>3, <2>4
  <2> QED
    BY <2>5, <2>6
<1>6. CASE p.address = "other"
  <2>1. Dial!Address(p, at) = <<>>
    BY <1>6 DEF Dial!Address
  <2> QED
    BY <1>6, <2>1
<1> QED
  BY <1>1, <1>3, <1>4, <1>5, <1>6

LEMMA JoinedReads ==
  ASSUME NEW s \in Seq(ReadSet), NEW t \in Seq(ReadSet)
  PROVE  /\ s \o t \in Seq(ReadSet) /\ Len(s \o t) = Len(s) + Len(t)
         /\ \A i \in 1..Len(s) : (s \o t)[i] = s[i]
         /\ Len(t) # 0 => (s \o t)[Len(s) + Len(t)] = t[Len(t)]
OBVIOUS

LEMMA Socks5Dialogue ==
  ASSUME proxy \in Dial!Socks5Answer, proxy.kind = "socks5"
  PROVE  SoundDialogue
<1>1. PICK p \in Dial!Socks5Answer : p = proxy
  OBVIOUS
<1> DEFINE chosen == Dial!Read(2, p.method = "none" \/ (p.method = "userpass" /\ p.password))
           reply_to(at) == Dial!Read(at, p.grants /\ p.address # "other")
           first == IF p.method = "userpass"
                    THEN <<chosen, Dial!Read(2 + 2, p.accepts), reply_to(4 + 4)>>
                    ELSE <<chosen, reply_to(2 + 4)>>
           at == IF p.method = "userpass" THEN 8 ELSE 6
           rest == Dial!Address(p, at)
<1>2. /\ p.password \in BOOLEAN /\ p.method \in {"none", "userpass", "other"}
      /\ p.accepts \in BOOLEAN /\ p.grants \in BOOLEAN
      /\ p.address \in {"v4", "v6", "domain", "other"} /\ p.domain \in Nat
  BY DEF Dial!Socks5Answer
<1>3. Dial!Dialogue = first \o rest
  BY <1>1 DEF Dial!Dialogue, Dial!Socks5Reads
<1>4. /\ chosen \in ReadSet /\ \A n \in Nat : reply_to(n) \in ReadSet
      /\ Dial!Read(2 + 2, p.accepts) \in ReadSet
  BY <1>2 DEF Dial!Read, ReadSet
<1>5. /\ first \in Seq(ReadSet) /\ Len(first) \in {2, 3}
      /\ first[Len(first)] = reply_to(at) /\ first[1] = chosen
      /\ p.method = "userpass" => Len(first) = 3 /\ first[2] = Dial!Read(2 + 2, p.accepts)
  <2> HIDE DEF chosen, reply_to
  <2>1. CASE p.method = "userpass"
    BY <1>4, <2>1
  <2>2. CASE p.method # "userpass"
    BY <1>4, <2>2
  <2> QED
    BY <2>1, <2>2
<1>6. at \in Nat /\ rest \in Seq(ReadSet)
  BY <1>1, AddressReads
<1> HIDE DEF chosen, reply_to, first, at, rest
<1>7. /\ Dial!Dialogue \in Seq(ReadSet)
      /\ Len(Dial!Dialogue) = Len(first) + Len(rest)
      /\ \A i \in 1..Len(first) : Dial!Dialogue[i] = first[i]
      /\ Len(rest) # 0 => Dial!Dialogue[Len(first) + Len(rest)] = rest[Len(rest)]
  BY <1>3, <1>5, <1>6, JoinedReads
<1> DEFINE n == Len(Dial!Dialogue)
<1> HIDE DEF n
<1>8. /\ n \in Nat \ {0} /\ 1 \in 1..n /\ Len(first) \in 1..n
      /\ Dial!Dialogue[1] = chosen
      /\ Dial!Dialogue[Len(first)] = reply_to(at)
      /\ p.method = "userpass" => 2 \in 1..n /\ Dial!Dialogue[2] = Dial!Read(2 + 2, p.accepts)
  <2>1. Len(first) \in Nat /\ Len(rest) \in Nat /\ n = Len(first) + Len(rest)
    BY <1>5, <1>6, <1>7 DEF n
  <2>2. 1 \in 1..Len(first) /\ Len(first) \in 1..Len(first)
    BY <1>5
  <2>3. Dial!Dialogue[1] = first[1] /\ Dial!Dialogue[Len(first)] = first[Len(first)]
    BY <1>7, <2>2
  <2>4. ASSUME p.method = "userpass"
        PROVE  2 \in 1..Len(first) /\ Dial!Dialogue[2] = first[2]
    <3>1. Len(first) = 3
      BY <1>5, <2>4, Zenon
    <3>2. 2 \in 1..Len(first)
      BY <3>1
    <3> QED
      BY <1>7, <3>2
  <2>5. 1..Len(first) \subseteq 1..n /\ n \in Nat \ {0}
    BY <1>5, <2>1
  <2> QED
    BY <1>5, <2>2, <2>3, <2>4, <2>5
<1>9. ASSUME \A i \in 1..n : Dial!Dialogue[i].goes
      PROVE  Dial!Agreed(p) /\ Dial!Dialogue[n].upto = Dial!AnswerLength(p)
  <2>1. p.grants /\ p.address # "other"
    <3>1. Dial!Dialogue[Len(first)].goes
      BY <1>8, <1>9
    <3>2. reply_to(at).goes
      BY <1>8, <3>1
    <3> QED
      BY <3>2 DEF Dial!Read, reply_to
  <2>2. p.method = "none" \/ (p.method = "userpass" /\ p.password)
    <3>1. Dial!Dialogue[1].goes
      BY <1>8, <1>9
    <3>2. chosen.goes
      BY <1>8, <3>1
    <3> QED
      BY <3>2 DEF Dial!Read, chosen
  <2>3. p.method = "userpass" => p.accepts
    <3>1. p.method = "userpass" => Dial!Dialogue[2].goes
      BY <1>8, <1>9
    <3>2. p.method = "userpass" => Dial!Read(2 + 2, p.accepts).goes
      BY <1>8, <3>1
    <3> QED
      BY <3>2 DEF Dial!Read
  <2>4. Dial!Dialogue[n].upto = rest[Len(rest)].upto
    <3>1. Len(rest) # 0
      BY <1>6, <2>1, AddressReads DEF rest
    <3> QED
      BY <1>7, <3>1 DEF n
  <2>5. rest[Len(rest)].upto = at + AddressBytes(p)
    BY <1>6, <2>1, AddressReads DEF rest
  <2>6. Dial!AnswerLength(p) = at + AddressBytes(p)
    BY <1>1, <1>2, <2>1 DEF Dial!AnswerLength, AddressBytes, at
  <2>7. Dial!Agreed(p)
    BY <2>1, <2>2, <2>3 DEF Dial!Agreed
  <2> QED
    BY <2>4, <2>5, <2>6, <2>7
<1>10. \A i \in 1..n : Dial!Dialogue[i].upto \in Nat
  <2>1. \A i \in 1..n : Dial!Dialogue[i] \in ReadSet
    BY <1>7 DEF n
  <2> QED
    BY <2>1 DEF ReadSet
<1> QED
  BY <1>1, <1>8, <1>9, <1>10 DEF SoundDialogue, n

LEMMA ConnectDialogue ==
  ASSUME proxy \in Dial!HttpAnswer, proxy.kind = "http", proxy.header >= 4, MaxHeader \in Nat
  PROVE  SoundDialogue
<1> DEFINE p == proxy
           n == IF p.header > MaxHeader THEN MaxHeader + 1 ELSE p.header
<1>0. p.header \in Nat /\ p.grants \in BOOLEAN
  BY DEF Dial!HttpAnswer
<1>1. Dial!Dialogue = [i \in 1..n |-> [upto |-> i, goes |-> IF i = p.header THEN p.grants ELSE i <= MaxHeader]]
  BY DEF Dial!Dialogue, Dial!ConnectReads, Dial!Read
<1>2. n \in Nat \ {0}
  BY <1>0
<1>3. Len(Dial!Dialogue) = n
  BY <1>1, <1>2
<1>4. \A i \in 1..n : /\ Dial!Dialogue[i].upto = i
                      /\ Dial!Dialogue[i].goes = (IF i = p.header THEN p.grants ELSE i <= MaxHeader)
  BY <1>1
<1>5. ASSUME \A i \in 1..n : Dial!Dialogue[i].goes
      PROVE  n = p.header /\ p.grants
  <2>1. n \in 1..n
    BY <1>2
  <2>2. IF n = p.header THEN p.grants ELSE n <= MaxHeader
    BY <1>4, <1>5, <2>1
  <2> QED
    BY <1>0, <2>2
<1>6. n \in 1..n
  BY <1>2
<1> QED
  BY <1>2, <1>3, <1>4, <1>5, <1>6 DEF SoundDialogue, Dial!Agreed, Dial!AnswerLength

LEMMA DialogueSound ==
  ASSUME proxy \in Proxies
  PROVE  SoundDialogue
<1>1. /\ \/ proxy.kind = "socks5" /\ proxy \in Dial!Socks5Answer
         \/ proxy.kind = "http" /\ proxy \in Dial!HttpAnswer /\ proxy.header >= 4
      /\ MaxHeader \in Nat
  BY ProxiedAssumption DEF Dial!Parameters
<1> QED
  BY <1>1, Socks5Dialogue, ConnectDialogue

-----------------------------------------------------------------------------
(* Bytes that arrive                                                       *)

LEMMA ReadToNumber ==
  ASSUME SoundDialogue, NEW i \in 0..Len(Dial!Dialogue)
  PROVE  Dial!ReadTo(i) \in Nat
<1>1. CASE i = 0
  BY <1>1 DEF Dial!ReadTo
<1>2. CASE i # 0
  <2>1. i \in 1..Len(Dial!Dialogue)
    BY <1>2 DEF SoundDialogue
  <2> QED
    BY <1>2, <2>1 DEF SoundDialogue, Dial!ReadTo
<1> QED
  BY <1>1, <1>2

\* A dialogue does get to one of its reads: to the first at which it has to stop.
LEMMA ReachedRead ==
  ASSUME SoundDialogue, NEW n \in Nat, reads \in 0..Len(Dial!Dialogue)
  PROVE  LET i == Dial!Reached(n)
         IN  /\ i \in reads..Len(Dial!Dialogue)
             /\ Dial!Length(reads, i) <= n
             /\ \A j \in reads + 1..i - 1 : Dial!Dialogue[j].goes
<1> DEFINE d == Dial!Dialogue
           stops(i) == \/ i = Len(d)
                       \/ i > reads /\ ~d[i].goes
                       \/ Dial!Length(reads, i + 1) > n
           S == {i \in reads..Len(d) : stops(i)}
<1>0. Len(d) \in Nat
  BY DEF SoundDialogue
<1>1. PICK i \in S : \A j \in S : i <= j
  <2>1. Len(d) \in S /\ S \in SUBSET Nat
    BY <1>0
  <2> HIDE DEF S
  <2> QED
    BY <2>1, LeastElement
<1>2. i \in reads..Len(d) /\ stops(i) /\ i \in Nat
  BY <1>0, <1>1
<1>3. \A j \in reads..i - 1 : ~ stops(j)
  BY <1>0, <1>1, <1>2
<1> HIDE DEF S
<1>4. \A j \in reads + 1..i - 1 : d[j].goes
  BY <1>0, <1>2, <1>3
<1>5. Dial!Length(reads, i) <= n
  <2>1. CASE i = reads
    <3>1. Dial!ReadTo(reads) \in Nat
      BY ReadToNumber
    <3> QED
      BY <2>1, <3>1 DEF Dial!Length
  <2>2. CASE i # reads
    <3>1. i - 1 \in reads..i - 1 /\ (i - 1) + 1 = i
      BY <1>0, <1>2, <2>2
    <3>2. ~ (Dial!Length(reads, (i - 1) + 1) > n)
      BY <1>3, <3>1
    <3>3. Dial!ReadTo(reads) \in Nat /\ Dial!ReadTo(i) \in Nat
      BY <1>2, ReadToNumber
    <3> QED
      BY <3>1, <3>2, <3>3 DEF Dial!Length
  <2> QED
    BY <2>1, <2>2
<1> DEFINE fits(k) == /\ Dial!Length(reads, k) <= n
                      /\ \A j \in reads + 1..k - 1 : d[j].goes
                      /\ stops(k)
<1>6. \E k \in reads..Len(d) : fits(k)
  BY <1>2, <1>4, <1>5
<1>7. Dial!Reached(n) = CHOOSE k \in reads..Len(d) : fits(k)
  BY DEF Dial!Reached
<1> HIDE DEF stops
<1> QED
  BY <1>6, <1>7

-----------------------------------------------------------------------------
(* What the dial's steps preserve                                          *)

LEMMA DialInit ==
  ASSUME Dial!Init
  PROVE  DialInv
<1>1. Patience \in Nat \ {0}
  BY ProxiedAssumption DEF Dial!Parameters
<1> QED
  BY <1>1 DEF Dial!Init, DialInv, Dial!TypeOK, DialReads, DialTime, DialPlace, Dialling,
     TunnelIsClean, Dial!TunnelIsClean

\* A dial that is over has nothing but its types to keep.
LEMMA DialOver ==
  ASSUME DialInv, dial' \in {"failed", "closed"}, conn' = "destroyed",
         proxy' = proxy, arrived' \in Nat, spare' \in Nat, left' \in 0..Patience,
         {buffered', reads', elapsed'} \subseteq Nat
  PROVE  DialInv'
BY DEF DialInv, Dial!TypeOK, DialReads, DialTime, DialPlace, Dialling,
       TunnelIsClean, Dial!TunnelIsClean

LEMMA DialFails ==
  ASSUME DialInv, Dial!Fail
  PROVE  DialInv'
<1>1. Patience \in Nat \ {0}
  BY ProxiedAssumption DEF Dial!Parameters
<1>2. arrived \in Nat /\ spare \in Nat
  BY DEF DialInv, Dial!TypeOK
<1> QED
  BY <1>1, <1>2, DialOver DEF Dial!Fail, Dial!Forget

LEMMA DialBegins ==
  ASSUME DialInv, NEW toSelf \in BOOLEAN, Dial!Begin(toSelf)
  PROVE  DialInv'
<1>1. Patience \in Nat \ {0}
  BY ProxiedAssumption DEF Dial!Parameters
<1>2. /\ dial = "none" /\ UNCHANGED <<arrived, buffered, reads, elapsed, spare>>
      /\ \/ dial' = "failed" /\ UNCHANGED <<proxy, conn, left>>
         \/ dial' = "connecting" /\ conn' = "open" /\ left' = Patience /\ proxy' \in Proxies
  BY DEF Dial!Begin
<1> QED
  BY <1>1, <1>2 DEF DialInv, Dial!TypeOK, DialReads, DialTime, DialPlace, Dialling,
     TunnelIsClean, Dial!TunnelIsClean

LEMMA DialConnects ==
  ASSUME DialInv, Dial!Connected
  PROVE  DialInv'
<1>1. Patience \in Nat \ {0}
  BY ProxiedAssumption DEF Dial!Parameters
<1>2. /\ dial = "connecting" /\ dial' = "talking" /\ left' = Patience
      /\ UNCHANGED <<proxy, conn, arrived, buffered, reads, elapsed, spare>>
  BY DEF Dial!Connected
<1>3. SoundDialogue
  BY <1>2, DialogueSound DEF DialInv, DialPlace, Dialling
<1>4. Dial!Dialogue' = Dial!Dialogue /\ Dial!ReadTo(0)' = 0
  BY <1>2 DEF Dial!Dialogue, Dial!ReadTo
<1>5. arrived = 0 /\ buffered = 0 /\ reads = 0
  BY <1>2 DEF DialInv, DialPlace
<1>6. DialReads'
  BY <1>2, <1>3, <1>4, <1>5 DEF DialReads, SoundDialogue, Dial!ReadTo
<1>7. Dial!TypeOK' /\ DialPlace' /\ TunnelIsClean'
  BY <1>1, <1>2 DEF DialInv, Dial!TypeOK, DialPlace, Dialling, TunnelIsClean, Dial!TunnelIsClean
<1>8. DialTime'
  <2>1. elapsed + left <= Patience /\ elapsed \in Nat /\ left \in Nat
    BY <1>1, <1>2 DEF DialInv, DialTime, Dial!TypeOK
  <2> QED
    BY <1>1, <1>2, <2>1 DEF DialTime
<1> QED
  BY <1>6, <1>7, <1>8 DEF DialInv

LEMMA DialTicks ==
  ASSUME DialInv, Dial!Tick
  PROVE  DialInv'
<1>1. Patience \in Nat \ {0}
  BY ProxiedAssumption DEF Dial!Parameters
<1>2. /\ dial \in {"connecting", "talking"} /\ left > 0 /\ left' = left - 1
      /\ elapsed' = elapsed + 1
      /\ UNCHANGED <<dial, proxy, conn, arrived, buffered, reads, spare>>
  BY DEF Dial!Tick, Dial!Active
<1>3. elapsed \in Nat /\ left \in 0..Patience
  BY DEF DialInv, Dial!TypeOK
<1>4. Dial!Dialogue' = Dial!Dialogue /\ \A i : Dial!ReadTo(i)' = Dial!ReadTo(i)
  BY <1>2 DEF Dial!Dialogue, Dial!ReadTo
<1>5. DialReads'
  BY <1>2, <1>4 DEF DialInv, DialReads
<1>6. DialTime'
  BY <1>1, <1>2, <1>3 DEF DialInv, DialTime
<1>7. Dial!TypeOK' /\ DialPlace' /\ TunnelIsClean'
  BY <1>1, <1>2, <1>3 DEF DialInv, Dial!TypeOK, DialPlace, Dialling, TunnelIsClean,
     Dial!TunnelIsClean
<1> QED
  BY <1>5, <1>6, <1>7 DEF DialInv

\* Bytes arrive: the dialogue goes on, throws, or is through; then what it has
\* not read is what came after the answer.
LEMMA DialHears ==
  ASSUME DialInv, NEW k \in Nat, NEW wanted, Dial!Data(k, wanted)
  PROVE  DialInv'
<1> DEFINE n == Dial!Reached(buffered + k)
           rest == buffered + k - Dial!Length(reads, n)
           throws == n > reads /\ ~Dial!Dialogue[n].goes
           whole == n = Len(Dial!Dialogue) /\ ~throws
<1>0. /\ Patience \in Nat \ {0} /\ {arrived, buffered, reads, elapsed, spare} \subseteq Nat
      /\ left \in 0..Patience
  BY ProxiedAssumption DEF Dial!Parameters, DialInv, Dial!TypeOK
<1>1. /\ dial = "talking" /\ arrived' = arrived + k /\ proxy' = proxy
      /\ \/ whole /\ Dial!HandOver(rest, wanted)
         \/ /\ dial' = "failed" /\ conn' = "destroyed" /\ Dial!Forget
            /\ UNCHANGED spare
         \/ /\ ~throws /\ ~whole
            /\ buffered' = rest /\ reads' = n
            /\ UNCHANGED <<dial, conn, left, elapsed, spare>>
  BY DEF Dial!Data
<1>2. SoundDialogue
  BY <1>1, DialogueSound DEF DialInv, DialPlace, Dialling
<1>3. /\ reads \in 0..Len(Dial!Dialogue)
      /\ arrived = Dial!ReadTo(reads) + buffered
      /\ \A j \in 1..reads : Dial!Dialogue[j].goes
  BY <1>1 DEF DialInv, DialReads
<1>4. /\ n \in reads..Len(Dial!Dialogue)
      /\ Dial!Length(reads, n) <= buffered + k
      /\ \A j \in reads + 1..n - 1 : Dial!Dialogue[j].goes
  <2>1. buffered + k \in Nat
    BY <1>0
  <2> QED
    BY <1>2, <1>3, <2>1, ReachedRead
<1> HIDE DEF n
<1>5. Len(Dial!Dialogue) \in Nat \ {0} /\ n \in 0..Len(Dial!Dialogue)
  BY <1>2, <1>3, <1>4 DEF SoundDialogue
<1>6. Dial!ReadTo(n) \in Nat /\ Dial!ReadTo(reads) \in Nat
  BY <1>2, <1>3, <1>5, ReadToNumber
<1>7. rest \in Nat /\ arrived + k = Dial!ReadTo(n) + rest
  BY SMTT(30), <1>0, <1>3, <1>4, <1>6 DEF Dial!Length
<1> HIDE DEF rest
<1>8. ASSUME ~throws PROVE \A j \in 1..n : Dial!Dialogue[j].goes
  <2>1. \A j \in 1..n : j \in 1..reads \/ j \in reads + 1..n - 1 \/ (j = n /\ n > reads)
    BY <1>3, <1>5
  <2> QED
    BY <1>3, <1>4, <1>8, <2>1
<1>9. CASE whole /\ Dial!HandOver(rest, wanted)
  <2>1. /\ Dial!Agreed(proxy)
        /\ Dial!ReadTo(n) = Dial!AnswerLength(proxy)
    BY <1>2, <1>5, <1>8, <1>9 DEF SoundDialogue, Dial!ReadTo
  <2>2. rest = (arrived + k) - Dial!AnswerLength(proxy)
    BY <1>0, <1>6, <1>7, <2>1
  <2>3. /\ \/ dial' = "tunnel" /\ conn' = "open"
           \/ dial' = "closed" /\ conn' = "destroyed"
        /\ spare' = rest
        /\ buffered' = 0 /\ reads' = 0 /\ left' = 0 /\ elapsed' = 0
    BY <1>9 DEF Dial!HandOver, Dial!Forget
  <2>4. arrived + k \in Nat
    BY <1>0
  <2>5. CASE dial' = "closed" /\ conn' = "destroyed"
    BY <1>0, <1>1, <1>7, <2>3, <2>4, <2>5, DialOver
  <2>6. CASE dial' = "tunnel" /\ conn' = "open"
    <3>1. Dial!TypeOK'
      BY <1>0, <1>1, <1>7, <2>3, <2>4, <2>6 DEF DialInv, Dial!TypeOK
    <3>2. DialReads' /\ DialTime' /\ DialPlace'
      BY <1>1, <2>6 DEF DialInv, DialReads, DialTime, DialPlace, Dialling
    <3>3. Dial!Agreed(proxy)' /\ Dial!AnswerLength(proxy)' = Dial!AnswerLength(proxy)
      BY <1>1, <2>1 DEF Dial!Agreed, Dial!AnswerLength
    <3>4. TunnelIsClean'
      BY <1>1, <2>2, <2>3, <3>3 DEF TunnelIsClean, Dial!TunnelIsClean
    <3> QED
      BY <3>1, <3>2, <3>4 DEF DialInv
  <2> QED
    BY <2>3, <2>5, <2>6
<1>10. CASE dial' = "failed" /\ conn' = "destroyed" /\ Dial!Forget /\ UNCHANGED spare
  BY <1>0, <1>1, <1>10, DialOver DEF Dial!Forget
<1>11. CASE /\ ~throws /\ buffered' = rest /\ reads' = n
            /\ UNCHANGED <<dial, conn, left, elapsed, spare>>
  <2>1. Dial!Dialogue' = Dial!Dialogue /\ \A i : Dial!ReadTo(i)' = Dial!ReadTo(i)
    BY <1>1 DEF Dial!Dialogue, Dial!ReadTo
  <2>2. DialReads'
    BY <1>1, <1>5, <1>7, <1>8, <1>11, <2>1 DEF DialReads
  <2>3. Dial!TypeOK'
    BY <1>0, <1>1, <1>5, <1>7, <1>11 DEF DialInv, Dial!TypeOK
  <2>4. DialTime' /\ DialPlace' /\ TunnelIsClean'
    BY <1>1, <1>11 DEF DialInv, DialTime, DialPlace, Dialling, TunnelIsClean, Dial!TunnelIsClean
  <2> QED
    BY <2>2, <2>3, <2>4 DEF DialInv
<1> QED
  BY <1>1, <1>9, <1>10, <1>11

\* What may happen to a dial in a step.
DialMove ==
  \/ UNCHANGED dialVars
  \/ \E toSelf \in BOOLEAN : Dial!Begin(toSelf)
  \/ Dial!Close
  \/ \E wanted \in BOOLEAN : Dial!Proceed(wanted)

LEMMA DialStep ==
  ASSUME DialInv, DialMove
  PROVE  DialInv'
<1>0. /\ {arrived, buffered, reads, elapsed, spare} \subseteq Nat /\ left \in 0..Patience
  BY DEF DialInv, Dial!TypeOK
<1>1. CASE UNCHANGED dialVars
  <2>1. Dial!Dialogue' = Dial!Dialogue /\ \A i : Dial!ReadTo(i)' = Dial!ReadTo(i)
    BY <1>1 DEF dialVars, Dial!Dialogue, Dial!ReadTo
  <2> QED
    BY <1>1, <2>1 DEF dialVars, DialInv, Dial!TypeOK, DialReads, DialTime, DialPlace, Dialling,
       TunnelIsClean, Dial!TunnelIsClean
<1>2. CASE \E toSelf \in BOOLEAN : Dial!Begin(toSelf)
  BY <1>2, DialBegins
<1>3. CASE Dial!Close
  BY <1>0, <1>3, DialOver DEF Dial!Close
<1>4. CASE \E wanted \in BOOLEAN : Dial!Proceed(wanted)
  <2>1. PICK wanted \in BOOLEAN : Dial!Proceed(wanted)
    BY <1>4
  <2>2. CASE \E k \in 1..Dial!Length(0, Len(Dial!Dialogue)) + Spare : Dial!Data(k, wanted)
    <3>1. PICK k \in 1..Dial!Length(0, Len(Dial!Dialogue)) + Spare : Dial!Data(k, wanted)
      BY <2>2
    <3>2. k \in Nat
      OBVIOUS
    <3> QED
      BY <3>1, <3>2, DialHears
  <2>3. CASE Dial!Broken \/ Dial!Expire
    BY <2>3, DialFails DEF Dial!Broken, Dial!Expire
  <2> QED
    BY <2>1, <2>2, <2>3, DialConnects, DialTicks DEF Dial!Proceed
<1> QED
  BY <1>1, <1>2, <1>3, <1>4 DEF DialMove

-----------------------------------------------------------------------------
(* The theorems                                                            *)

ProxiedInv == StreamInv /\ DialInv

\* A step is one of the stream's or leaves it alone, and one of the dial's or
\* leaves that alone.
LEMMA ProxiedStep ==
  ASSUME ProxiedInv, [ProxiedNext]_allVars
  PROVE  ProxiedInv'
<1>1. [Next]_vars
  BY DEF ProxiedNext, OpenThrough, RespondThrough, BreakThrough, DialProceeds, Next, allVars
<1>2. DialMove
  <2>1. TunnelFollows => DialMove
    BY DEF TunnelFollows, DialMove
  <2>2. OpenThrough => DialMove
    BY DEF OpenThrough, DialMove
  <2>3. DialProceeds => DialMove
    <3>1. DialProceeds => Dial!Proceed(socket = "asked") /\ (socket = "asked") \in BOOLEAN
      BY DEF DialProceeds
    <3> QED
      BY <3>1 DEF DialMove
  <2>4. UNCHANGED allVars => DialMove
    BY DEF allVars, DialMove
  <2> QED
    BY <2>1, <2>2, <2>3, <2>4 DEF ProxiedNext, RespondThrough, BreakThrough
<1> QED
  BY <1>1, <1>2, StreamStep, DialStep DEF ProxiedInv

LEMMA ProxiedAlways == ProxiedSpec => []ProxiedInv
<1>1. ProxiedInit => ProxiedInv
  BY StreamInit, DialInit DEF ProxiedInit, ProxiedInv
<1>2. ProxiedInv /\ [ProxiedNext]_allVars => ProxiedInv'
  BY ProxiedStep
<1> QED
  BY <1>1, <1>2, PTL DEF ProxiedSpec

\* Every state of a stream and of its dial is well formed: no counter leaves its
\* bound, and the queue and the client hold positions of the answer only.
THEOREM TypeCorrect == ProxiedSpec => [](TypeOK /\ Dial!TypeOK)
<1>1. ProxiedInv => TypeOK /\ Dial!TypeOK
  BY DEF ProxiedInv, StreamInv, DialInv
<1> QED
  BY <1>1, ProxiedAlways, PTL

\* The content reaches the client whole, in order and before the verdict,
\* whatever arrives, fails, times out or is aborted while it is queued
\* (transport.ts ChunkQueue; chat.ts serveStream).
THEOREM Delivered == ProxiedSpec => []DeliveredInOrder
<1>1. ASSUME ProxiedInv PROVE DeliveredInOrder
  <2>1. PICK n \in 0..pos : \E m \in 0..n : Content(m, n)
    BY <1>1 DEF ProxiedInv, StreamInv, ContentInv
  <2>2. PICK m \in 0..n : Content(m, n)
    BY <2>1
  <2>3. pos \in 0..Len(script)
    BY <1>1 DEF ProxiedInv, StreamInv, TypeOK
  <2>4. m \in 0..Len(script) /\ out = Chunks(1, m)
    BY <2>2, <2>3 DEF Content
  <2>5. DoneMeansWhole /\ QueuedIsDelivered
    BY <1>1 DEF ProxiedInv, StreamInv, ContentInv, DoneMeansWhole
  <2> QED
    BY <2>4, <2>5 DEF DeliveredInOrder, NoGap
<1> QED
  BY <1>1, ProxiedAlways, PTL

\* The request's socket, the timers and the listener of a stream exist under its
\* permit only, and the permit is held from its grant to the end of the
\* generator and no longer, but where openRequest throws before the try, which
\* keeps it for good (transport.ts, the finally block of the generator).  It
\* says nothing of the socket of a proxy's dial (PermitCoversDial).
THEOREM Bracketed == ProxiedSpec => []PermitBracketsCall
<1>1. ProxiedInv => PermitBracketsCall
  BY DEF ProxiedInv, StreamInv, PermitInv
<1> QED
  BY <1>1, ProxiedAlways, PTL

\* A tunnel starts at its first byte, however the answer of the proxy was cut
\* into pieces or joined with what follows, and a proxy that refused at any stage
\* gives none (socks5.ts, http-connect.ts, HandshakeReader).
THEOREM CleanTunnel == ProxiedSpec => []TunnelIsClean
<1>1. ProxiedInv => TunnelIsClean
  BY DEF ProxiedInv, DialInv
<1> QED
  BY <1>1, ProxiedAlways, PTL

\* A dial is over after two deadlines, whatever its proxy sends and however
\* slowly, and leaves no socket behind when it fails or comes too late (dial.ts).
THEOREM BoundedDial == ProxiedSpec => []DialIsBounded
<1>1. ASSUME ProxiedInv PROVE DialIsBounded
  <2>1. Patience \in Nat \ {0} /\ elapsed \in Nat /\ left \in 0..Patience
    BY <1>1, ProxiedAssumption DEF ProxiedInv, DialInv, Dial!TypeOK, Dial!Parameters
  <2>2. DialTime /\ DialPlace
    BY <1>1 DEF ProxiedInv, DialInv
  <2>3. Dial!Active => elapsed <= 2 * Patience
    BY <2>1, <2>2 DEF DialTime, Dial!Active
  <2>4. conn = "open" => dial \in {"connecting", "talking", "tunnel"}
    BY <2>2 DEF DialPlace, Dialling
  <2> QED
    BY <2>3, <2>4 DEF DialIsBounded, Dial!DialIsBounded
<1> QED
  BY <1>1, ProxiedAlways, PTL

=============================================================================
