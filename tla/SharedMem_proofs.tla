-------------------------- MODULE SharedMem_proofs --------------------------
(***************************************************************************)
(* Theorems about the allocator of SharedMem, for every number of tasks,   *)
(* every size of the memory and of a header, and all requests.             *)
(***************************************************************************)
EXTENDS SharedMem, WellFoundedInduction, TLAPS

Pointers == Addresses \cup {NULL}
Memories == [Addresses -> [next : Pointers, prev : Pointers, size : 0 .. MemSize]]

\* S are the buffers of the chain that begins at head, and the pointers back
\* are the inverse of the pointers forward.
Linked(m, head, S) ==
    /\ head # NULL => head \in S /\ m[head].prev = NULL
    /\ head = NULL => S = {}
    /\ \A a \in S :
          /\ m[a].next # NULL => m[a].next \in S /\ m[m[a].next].prev = a
          /\ a # head => m[a].prev \in S /\ m[m[a].prev].next = a

IsChain(m, head, S) == Chain(m, head) = S /\ Linked(m, head, S)

\* The buffers of which there are headers fill the memory.
Tiled(m) ==
    /\ 0 \in Headers(m)
    /\ \A a \in Headers(m) :
          /\ m[a].size > Header
          /\ m[a].size % Word = 0
          /\ a + m[a].size \in Headers(m) \cup {MemSize}
          /\ \A b \in Headers(m) : b <= a \/ a + m[a].size <= b

\* A chain is in the order of the addresses and no two of its buffers touch.
Apart(m, S) ==
    \A a \in S : m[a].next # NULL => a + m[a].size < m[a].next

-----------------------------------------------------------------------------
(* Chains *)

\* A header is at an address, and none is at NULL.
LEMMA HeaderIs ==
    ASSUME NEW m, NEW a \in Headers(m)
    PROVE  a \in Addresses /\ a \in Nat /\ a < MemSize /\ a # NULL
BY SizesAssumption DEF Headers, Addresses, NULL

\* What a walk meets: where it begins, with each buffer the next, and no other.
LEMMA MetIs ==
    ASSUME NEW m, NEW from, NEW limit
    PROVE  /\ Met(m, from, limit) \subseteq Headers(m)
           /\ from \in Headers(m) /\ from < limit => from \in Met(m, from, limit)
           /\ \A a \in Met(m, from, limit) :
                 m[a].next \in Headers(m) /\ m[a].next < limit
                     => m[a].next \in Met(m, from, limit)
           /\ \A S \in SUBSET Headers(m) :
                 /\ from \in Headers(m) /\ from < limit => from \in S
                 /\ \A a \in S : m[a].next \in Headers(m) /\ m[a].next < limit
                                     => m[a].next \in S
                 => Met(m, from, limit) \subseteq S
BY DEF Met

\* The same of a whole chain.
LEMMA ChainIs ==
    ASSUME NEW m, NEW head
    PROVE  /\ Chain(m, head) \subseteq Headers(m)
           /\ head \in Headers(m) => head \in Chain(m, head)
           /\ \A a \in Chain(m, head) :
                 m[a].next \in Headers(m) => m[a].next \in Chain(m, head)
           /\ \A S \in SUBSET Headers(m) :
                 /\ head \in Headers(m) => head \in S
                 /\ \A a \in S : m[a].next \in Headers(m) => m[a].next \in S
                 => Chain(m, head) \subseteq S
<1>1. \A a \in Headers(m) : a < MemSize
  BY HeaderIs
<1> QED
  BY <1>1, MetIs DEF Chain

\* A linked set is the chain when every part of it that has the head and with
\* each buffer the next is all of it.
LEMMA IsTheChain ==
    ASSUME NEW m, NEW head, NEW S, S \subseteq Headers(m), Linked(m, head, S),
           \A T \in SUBSET S :
               /\ head # NULL => head \in T
               /\ \A a \in T : m[a].next # NULL => m[a].next \in T
               => S \subseteq T
    PROVE  IsChain(m, head, S)
<1>1. NULL \notin Headers(m)
  BY HeaderIs
<1>2. /\ head # NULL => head \in S
      /\ \A a \in S : m[a].next # NULL => m[a].next \in S
  BY DEF Linked
<1>3. Chain(m, head) \subseteq S
  BY <1>1, <1>2, ChainIs
<1>4. /\ head # NULL => head \in Chain(m, head)
      /\ \A a \in Chain(m, head) : m[a].next # NULL => m[a].next \in Chain(m, head)
  BY <1>2, <1>3, ChainIs
<1>5. S \subseteq Chain(m, head)
  BY <1>3, <1>4
<1> QED
  BY <1>3, <1>5 DEF IsChain

\* What is known of a linked chain.
LEMMA LinkedChain ==
    ASSUME NEW m, NEW head, NEW S, IsChain(m, head, S)
    PROVE  /\ S \subseteq Headers(m)
           /\ NULL \notin S
           /\ \A T \in SUBSET S :
                 /\ head # NULL => head \in T
                 /\ \A a \in T : m[a].next # NULL => m[a].next \in T
                 => T = S
           /\ \A a \in S : m[a].next # a
<1>1. S \subseteq Headers(m) /\ NULL \notin Headers(m)
  BY ChainIs, HeaderIs DEF IsChain
<1>2. ASSUME NEW T \in SUBSET S, head # NULL => head \in T,
             \A a \in T : m[a].next # NULL => m[a].next \in T
      PROVE  T = S
  <2>1. T \in SUBSET Headers(m) /\ Chain(m, head) = S
    BY <1>1 DEF IsChain
  <2>2. head \in Headers(m) => head \in T
    BY <1>1, <1>2
  <2>3. \A a \in T : m[a].next \in Headers(m) => m[a].next \in T
    BY <1>1, <1>2
  <2>4. Chain(m, head) \subseteq T
    BY <2>1, <2>2, <2>3, ChainIs
  <2> QED
    BY <2>1, <2>4
<1>3. ASSUME NEW a \in S, m[a].next = a
      PROVE  FALSE
  <2>1. a # NULL /\ m[a].prev = a /\ a # head
    BY <1>1, <1>3 DEF IsChain, Linked
  <2>2. \A b \in S \ {a} : m[b].next # a
    BY <2>1 DEF IsChain, Linked
  <2>3. S \ {a} = S
    <3>1. head # NULL => head \in S \ {a}
      BY <2>1 DEF IsChain, Linked
    <3>2. \A b \in S \ {a} : m[b].next # NULL => m[b].next \in S \ {a}
      BY <2>2 DEF IsChain, Linked
    <3> QED
      BY <3>1, <3>2, <1>2
  <2> QED
    BY <2>3
<1> QED
  BY <1>1, <1>2, <1>3

\* A chain stays as it is when nothing happens to its buffers.
LEMMA SameChain ==
    ASSUME NEW m, NEW head, NEW S, IsChain(m, head, S),
           NEW m2, S \subseteq Headers(m2),
           \A a \in S : m2[a].next = m[a].next /\ m2[a].prev = m[a].prev
    PROVE  IsChain(m2, head, S)
<1>1. Linked(m2, head, S)
  BY DEF IsChain, Linked
<1>2. \A T \in SUBSET S :
             /\ head # NULL => head \in T
             /\ \A a \in T : m2[a].next # NULL => m2[a].next \in T
             => S \subseteq T
  BY LinkedChain
<1> QED
  BY <1>1, <1>2, IsTheChain

\* A buffer is taken out of a chain: what pointed to it points past it.
LEMMA RemoveFromChain ==
    ASSUME NEW m, NEW head, NEW S, IsChain(m, head, S), NEW c \in S,
           NEW m2, S \ {c} \subseteq Headers(m2),
           \A a \in S \ {c} :
              /\ m2[a].next = IF a = m[c].prev THEN m[c].next ELSE m[a].next
              /\ m2[a].prev = IF a = m[c].next THEN m[c].prev ELSE m[a].prev
    PROVE  IsChain(m2, IF c = head THEN m[c].next ELSE head, S \ {c})
<1> DEFINE head2 == IF c = head THEN m[c].next ELSE head
           S2 == S \ {c}
<1>1. NULL \notin S /\ m[c].next # c /\ c # NULL
  BY LinkedChain
<1>2. \A a \in S2 : a = m[c].prev <=> m[a].next = c
  BY <1>1 DEF IsChain, Linked
<1>3. \A a \in S2 : a = m[c].next <=> m[a].prev = c
  BY <1>1 DEF IsChain, Linked
<1>4. Linked(m2, head2, S2)
  <2>1. head2 # NULL => head2 \in S2 /\ m2[head2].prev = NULL
    BY <1>1, <1>3 DEF IsChain, Linked
  <2>2. head2 = NULL => S2 = {}
    <3> SUFFICES ASSUME head2 = NULL
                 PROVE  S2 = {}
      OBVIOUS
    <3>1. head = c /\ m[c].next = NULL
      BY <1>1 DEF IsChain, Linked
    <3>2. {c} \in SUBSET S /\ (head # NULL => head \in {c})
      BY <3>1
    <3>3. \A a \in {c} : m[a].next # NULL => m[a].next \in {c}
      BY <3>1
    <3>4. \A T \in SUBSET S :
                 /\ head # NULL => head \in T
                 /\ \A a \in T : m[a].next # NULL => m[a].next \in T
                 => T = S
      BY LinkedChain
    <3>5. {c} = S
      BY <3>2, <3>3, <3>4
    <3> QED
      BY <3>5
  <2>3. ASSUME NEW a \in S2, m2[a].next # NULL
        PROVE  m2[a].next \in S2 /\ m2[m2[a].next].prev = a
    BY <2>3, <1>1, <1>2, <1>3 DEF IsChain, Linked
  <2>4. ASSUME NEW a \in S2, a # head2
        PROVE  m2[a].prev \in S2 /\ m2[m2[a].prev].next = a
    BY <2>4, <1>1, <1>2, <1>3 DEF IsChain, Linked
  <2> QED
    BY <2>1, <2>2, <2>3, <2>4 DEF Linked
<1>5. ASSUME NEW T \in SUBSET S2, head2 # NULL => head2 \in T,
             \A a \in T : m2[a].next # NULL => m2[a].next \in T
      PROVE  S2 \subseteq T
  <2> DEFINE T1 == IF m[c].next = NULL \/ m[c].next \in T THEN T \cup {c} ELSE T
  <2>1. T1 \in SUBSET S /\ T1 \subseteq T \cup {c}
    OBVIOUS
  <2>2. head # NULL => head \in T1
    BY <1>5
  <2>3. ASSUME NEW a \in T1, m[a].next # NULL
        PROVE  m[a].next \in T1
    <3>1. CASE a = c
      BY <3>1, <2>3, <1>1
    <3>2. CASE a # c /\ m[a].next = c
      BY <3>2, <2>3, <1>2, <1>5
    <3>3. CASE a # c /\ m[a].next # c
      BY <3>3, <2>3, <1>2, <1>5
    <3> QED
      BY <3>1, <3>2, <3>3
  <2>4. T1 = S
    BY <2>1, <2>2, <2>3, LinkedChain
  <2> QED
    BY <2>1, <2>4
<1>6. \A T \in SUBSET S2 :
            /\ head2 # NULL => head2 \in T
            /\ \A a \in T : m2[a].next # NULL => m2[a].next \in T
            => S2 \subseteq T
  BY <1>5
<1>7. S2 \subseteq Headers(m2)
  OBVIOUS
<1> HIDE DEF head2, S2
<1>8. IsChain(m2, head2, S2)
  BY <1>4, <1>6, <1>7, IsTheChain
<1> QED
  BY <1>8 DEF head2, S2

\* A buffer of a chain is replaced by another.
LEMMA ReplaceInChain ==
    ASSUME NEW m, NEW head, NEW S, IsChain(m, head, S), NEW c \in S,
           NEW m2, NEW b, b \notin S, b \in Headers(m2),
           S \ {c} \subseteq Headers(m2),
           m2[b].next = m[c].next, m2[b].prev = m[c].prev,
           \A a \in S \ {c} :
              /\ m2[a].next = IF a = m[c].prev THEN b ELSE m[a].next
              /\ m2[a].prev = IF a = m[c].next THEN b ELSE m[a].prev
    PROVE  IsChain(m2, IF c = head THEN b ELSE head, (S \ {c}) \cup {b})
<1> DEFINE head2 == IF c = head THEN b ELSE head
           S2 == (S \ {c}) \cup {b}
<1>1. NULL \notin S /\ m[c].next # c /\ c # NULL /\ b # NULL /\ b # c
  BY LinkedChain, HeaderIs
<1>2. \A a \in S \ {c} : a = m[c].prev <=> m[a].next = c
  BY <1>1 DEF IsChain, Linked
<1>3. \A a \in S \ {c} : a = m[c].next <=> m[a].prev = c
  BY <1>1 DEF IsChain, Linked
<1>4. Linked(m2, head2, S2)
  <2>1. head2 # NULL /\ head2 \in S2 /\ m2[head2].prev = NULL
    BY <1>1, <1>3 DEF IsChain, Linked
  <2>2. ASSUME NEW a \in S2, m2[a].next # NULL
        PROVE  m2[a].next \in S2 /\ m2[m2[a].next].prev = a
    <3>1. CASE a = b
      BY <3>1, <2>2, <1>1, <1>2, <1>3 DEF IsChain, Linked
    <3>2. CASE a # b
      BY <3>2, <2>2, <1>1, <1>2, <1>3 DEF IsChain, Linked
    <3> QED
      BY <3>1, <3>2
  <2>3. ASSUME NEW a \in S2, a # head2
        PROVE  m2[a].prev \in S2 /\ m2[m2[a].prev].next = a
    <3>1. CASE a = b
      BY <3>1, <2>3, <1>1, <1>2, <1>3 DEF IsChain, Linked
    <3>2. CASE a # b
      BY <3>2, <2>3, <1>1, <1>2, <1>3 DEF IsChain, Linked
    <3> QED
      BY <3>1, <3>2
  <2> QED
    BY <2>1, <2>2, <2>3 DEF Linked
<1>5. ASSUME NEW T \in SUBSET S2, head2 # NULL => head2 \in T,
             \A a \in T : m2[a].next # NULL => m2[a].next \in T
      PROVE  S2 \subseteq T
  <2> DEFINE T1 == IF b \in T THEN (T \ {b}) \cup {c} ELSE T
  <2>1. T1 \in SUBSET S /\ T1 \subseteq T \cup {c} /\ (c \in T1 => b \in T)
    BY <1>1
  <2>2. head # NULL => head \in T1
    BY <1>5, <1>1 DEF IsChain, Linked
  <2>3. ASSUME NEW a \in T1, m[a].next # NULL
        PROVE  m[a].next \in T1
    <3>1. m[a].next \in S
      BY <2>1, <2>3 DEF IsChain, Linked
    <3>2. CASE a = c
      BY <3>1, <3>2, <2>1, <2>3, <1>1, <1>5
    <3>3. CASE a # c /\ m[a].next = c
      BY <3>3, <2>1, <2>3, <1>1, <1>2, <1>5
    <3>4. CASE a # c /\ m[a].next # c
      BY <3>1, <3>4, <2>1, <2>3, <1>1, <1>2, <1>5
    <3> QED
      BY <3>2, <3>3, <3>4
  <2>4. T1 = S
    BY <2>1, <2>2, <2>3, LinkedChain
  <2> QED
    BY <2>1, <2>4
<1>6. \A T \in SUBSET S2 :
            /\ head2 # NULL => head2 \in T
            /\ \A a \in T : m2[a].next # NULL => m2[a].next \in T
            => S2 \subseteq T
  BY <1>5
<1>7. S2 \subseteq Headers(m2)
  OBVIOUS
<1> HIDE DEF head2, S2
<1>8. IsChain(m2, head2, S2)
  BY <1>4, <1>6, <1>7, IsTheChain
<1> QED
  BY <1>8 DEF head2, S2

\* A buffer comes in front of a chain.
LEMMA PushOnChain ==
    ASSUME NEW m, NEW head, NEW S, IsChain(m, head, S),
           NEW m2, NEW b, b \notin S, b \in Headers(m2),
           S \subseteq Headers(m2),
           m2[b].next = head, m2[b].prev = NULL,
           \A a \in S :
              /\ m2[a].next = m[a].next
              /\ m2[a].prev = IF a = head THEN b ELSE m[a].prev
    PROVE  IsChain(m2, b, S \cup {b})
<1>1. NULL \notin S /\ b # NULL
  BY LinkedChain, HeaderIs
<1>2. \A a \in S : m[a].next # head
  BY <1>1 DEF IsChain, Linked
<1>3. Linked(m2, b, S \cup {b})
  <2>1. ASSUME NEW a \in S \cup {b}, m2[a].next # NULL
        PROVE  m2[a].next \in S \cup {b} /\ m2[m2[a].next].prev = a
    BY <2>1, <1>1, <1>2 DEF IsChain, Linked
  <2>2. ASSUME NEW a \in S \cup {b}, a # b
        PROVE  m2[a].prev \in S \cup {b} /\ m2[m2[a].prev].next = a
    BY <2>2, <1>1, <1>2 DEF IsChain, Linked
  <2> QED
    BY <1>1, <2>1, <2>2 DEF Linked
<1>4. ASSUME NEW T \in SUBSET (S \cup {b}), b \in T,
             \A a \in T : m2[a].next # NULL => m2[a].next \in T
      PROVE  S \cup {b} \subseteq T
  <2>1. T \ {b} = S
    <3>1. T \ {b} \in SUBSET S
      OBVIOUS
    <3>2. head # NULL => head \in T \ {b}
      BY <1>4 DEF IsChain, Linked
    <3>3. \A a \in T \ {b} : m[a].next # NULL => m[a].next \in T \ {b}
      BY <1>4 DEF IsChain, Linked
    <3>4. \A R \in SUBSET S :
              /\ head # NULL => head \in R
              /\ \A a \in R : m[a].next # NULL => m[a].next \in R
              => R = S
      BY LinkedChain
    <3> QED
      BY <3>1, <3>2, <3>3, <3>4
  <2> QED
    BY <1>4, <2>1
<1> QED
  BY <1>1, <1>3, <1>4, IsTheChain

\* A buffer comes after another one of a chain.
LEMMA InsertInChain ==
    ASSUME NEW m, NEW head, NEW S, IsChain(m, head, S), NEW c \in S,
           NEW m2, NEW b, b \notin S, b \in Headers(m2),
           S \subseteq Headers(m2),
           m2[b].next = m[c].next, m2[b].prev = c,
           \A a \in S :
              /\ m2[a].next = IF a = c THEN b ELSE m[a].next
              /\ m2[a].prev = IF a = m[c].next THEN b ELSE m[a].prev
    PROVE  IsChain(m2, head, S \cup {b})
<1>1. NULL \notin S /\ b # NULL /\ m[c].next # c
  BY LinkedChain, HeaderIs
<1>2. \A a \in S : m[a].next = m[c].next /\ m[c].next # NULL => a = c
  BY <1>1 DEF IsChain, Linked
<1>3. Linked(m2, head, S \cup {b})
  <2>1. head # NULL /\ head \in S \cup {b} /\ m2[head].prev = NULL
    BY <1>1 DEF IsChain, Linked
  <2>2. ASSUME NEW a \in S \cup {b}, m2[a].next # NULL
        PROVE  m2[a].next \in S \cup {b} /\ m2[m2[a].next].prev = a
    BY <2>2, <1>1, <1>2 DEF IsChain, Linked
  <2>3. ASSUME NEW a \in S \cup {b}, a # head
        PROVE  m2[a].prev \in S \cup {b} /\ m2[m2[a].prev].next = a
    BY <2>3, <1>1, <1>2 DEF IsChain, Linked
  <2> QED
    BY <2>1, <2>2, <2>3 DEF Linked
<1>4. ASSUME NEW T \in SUBSET (S \cup {b}), head # NULL => head \in T,
             \A a \in T : m2[a].next # NULL => m2[a].next \in T
      PROVE  S \cup {b} \subseteq T
  <2>1. T \ {b} = S
    <3>1. T \ {b} \in SUBSET S
      OBVIOUS
    <3>2. head # NULL => head \in T \ {b}
      BY <1>4 DEF IsChain, Linked
    <3>3. \A a \in T \ {b} : m[a].next # NULL => m[a].next \in T \ {b}
      BY <1>1, <1>4 DEF IsChain, Linked
    <3>4. \A R \in SUBSET S :
              /\ head # NULL => head \in R
              /\ \A a \in R : m[a].next # NULL => m[a].next \in R
              => R = S
      BY LinkedChain
    <3> QED
      BY <3>1, <3>2, <3>3, <3>4
  <2>2. c \in T /\ m2[c].next = b
    BY <2>1
  <2> QED
    BY <1>1, <1>4, <2>1, <2>2
<1> QED
  BY <1>3, <1>4, IsTheChain

-----------------------------------------------------------------------------
(* Sizes *)

\* What the sizes are, without the remainders.
LEMMA SizeFacts ==
    /\ Word \in Nat /\ Word > 0 /\ Header \in Nat /\ Header > 0
    /\ MemSize \in Nat /\ MemSize > Header
    /\ Requests \subseteq Nat \ {0}
BY SizesAssumption

\* A multiple of the word size.
LEMMA Multiple ==
    ASSUME NEW a \in Int
    PROVE  a % Word = 0 <=> \E k \in Int : a = k * Word
<1>1. Word \in Nat \ {0}
  BY SizesAssumption
<1>2. a = ((a \div Word) * Word) + (a % Word) /\ a \div Word \in Int
      /\ a % Word \in 0 .. Word - 1
  BY <1>1
<1>3. ASSUME NEW k \in Int, a = k * Word
      PROVE  a % Word = 0
  <2> DEFINE q == a \div Word
             r == a % Word
             d == k - q
  <2>1. q \in Int /\ r \in 0 .. Word - 1 /\ k * Word = (q * Word) + r
    BY <1>2, <1>3
  <2> HIDE DEF q, r
  <2>2. d \in Int /\ d * Word = r
    BY <1>1, <2>1
  <2> HIDE DEF d
  <2>3. d >= 1 => d * Word >= Word
    BY <1>1, <2>2
  <2>4. d <= 0 - 1 => d * Word <= 0 - Word
    BY <1>1, <2>2
  <2>5. d = 0
    BY <1>1, <2>1, <2>2, <2>3, <2>4
  <2>6. r = 0
    BY <1>1, <2>2, <2>5
  <2> QED
    BY <2>6 DEF r
<1>4. ASSUME a % Word = 0
      PROVE  \E k \in Int : a = k * Word
  <2> DEFINE q == a \div Word
  <2>1. q \in Int /\ a = (q * Word) + 0
    BY <1>2, <1>4
  <2> HIDE DEF q
  <2>2. a = q * Word
    BY <1>1, <2>1
  <2> QED
    BY <2>1, <2>2
<1> QED
  BY <1>3, <1>4

\* Sums and differences of aligned numbers are aligned.
LEMMA AlignedSum ==
    ASSUME NEW a \in Int, NEW b \in Int, a % Word = 0, b % Word = 0
    PROVE  (a + b) % Word = 0 /\ (a - b) % Word = 0
<1>1. Word \in Nat \ {0}
  BY SizesAssumption
<1>2. PICK k \in Int : a = k * Word
  BY Multiple
<1>3. PICK n \in Int : b = n * Word
  BY Multiple
<1>4. a + b = (k + n) * Word /\ a - b = (k - n) * Word
  BY <1>1, <1>2, <1>3
<1> QED
  BY <1>4, Multiple

\* do_acquire() makes a request larger by a header, and aligns it.
LEMMA RoundUpIs ==
    ASSUME NEW size \in Requests
    PROVE  /\ RoundUp(size) \in Nat /\ RoundUp(size) >= size + Header
           /\ RoundUp(size) > Header
           /\ RoundUp(size) % Word = 0
<1> DEFINE n == (size + Word - 1) \div Word
<1>1. Word \in Nat \ {0} /\ Header \in Nat /\ size \in Nat \ {0}
  BY SizesAssumption
<1>2. n \in Int /\ size + Word - 1 = (n * Word) + ((size + Word - 1) % Word)
  BY <1>1
<1>3. (size + Word - 1) % Word \in 0 .. Word - 1
  BY <1>1
<1>4. RoundUp(size) = (n * Word) + Header
  BY DEF RoundUp
<1>5. n * Word \in Int
  BY <1>1, <1>2
<1>6. n * Word >= size
  <2> DEFINE w == n * Word
             r == (size + Word - 1) % Word
  <2>1. w \in Int /\ r \in 0 .. Word - 1 /\ size + Word - 1 = w + r
    BY <1>2, <1>3, <1>5
  <2> HIDE DEF w, r
  <2>2. w >= size
    BY <1>1, <2>1
  <2> QED
    BY <2>2 DEF w
<1>7. (n * Word) % Word = 0
  BY <1>2, <1>5, Multiple
<1> DEFINE w == n * Word
<1>8. w \in Int /\ Header \in Int /\ w % Word = 0 /\ Header % Word = 0
  BY <1>5, <1>7, SizesAssumption
<1> HIDE DEF w
<1>9. (w + Header) % Word = 0
  BY ONLY <1>8, AlignedSum, Zenon
<1>10. RoundUp(size) = w + Header /\ w >= size
  BY <1>4, <1>6 DEF w
<1> HIDE DEF n
<1> QED
  BY <1>1, <1>8, <1>9, <1>10

\* What is known of a buffer in memory that is tiled.
LEMMA TileIs ==
    ASSUME NEW m \in Memories, Tiled(m), NEW a \in Headers(m)
    PROVE  /\ a \in Addresses /\ a \in Nat /\ a < MemSize /\ a # NULL
           /\ a % Word = 0
           /\ m[a].size \in Nat /\ m[a].size > Header /\ m[a].size > 0
           /\ m[a].size % Word = 0
           /\ a + m[a].size <= MemSize
           /\ a + m[a].size # MemSize => a + m[a].size \in Headers(m)
           /\ \A b \in Headers(m) : b <= a \/ a + m[a].size <= b
           /\ m[a].next \in Pointers /\ m[a].prev \in Pointers
<1>1. a \in Addresses /\ a \in Nat /\ a < MemSize /\ a # NULL /\ a % Word = 0
  BY HeaderIs DEF Headers, Addresses
<1>2. m[a] \in [next : Pointers, prev : Pointers, size : 0 .. MemSize]
  BY <1>1 DEF Memories
<1>3. m[a].size \in Nat /\ m[a].size > Header /\ m[a].size % Word = 0
  BY <1>2, SizeFacts DEF Tiled
<1>4. a + m[a].size \in Headers(m) \cup {MemSize}
  BY DEF Tiled
<1>5. a + m[a].size <= MemSize
  <2>1. \A e \in Headers(m) : e \in Nat /\ e < MemSize
    BY HeaderIs
  <2> QED
    BY <1>1, <1>3, <1>4, <2>1, SizeFacts
<1>6. \A b \in Headers(m) : b <= a \/ a + m[a].size <= b
  BY DEF Tiled
<1> QED
  BY <1>1, <1>2, <1>3, <1>4, <1>5, <1>6, SizeFacts

\* The tail of a buffer that is split is at an address where no header was.
LEMMA TailIs ==
    ASSUME NEW m \in Memories, Tiled(m), NEW c \in Headers(m),
           NEW n \in Nat, n > 0, n < m[c].size, n % Word = 0
    PROVE  c + n \in Addresses /\ c + n \notin Headers(m) /\ c + n # NULL
<1>1. /\ c \in Nat /\ c % Word = 0 /\ m[c].size \in Nat
      /\ c + m[c].size <= MemSize
      /\ \A b \in Headers(m) : b <= c \/ c + m[c].size <= b
  BY TileIs
<1>2. (c + n) % Word = 0
  BY <1>1, AlignedSum
<1>3. c + n \in 0 .. MemSize - 1
  BY <1>1, SizeFacts
<1>4. c + n \notin Headers(m)
  BY <1>1
<1> QED
  BY <1>2, <1>3, <1>4 DEF Addresses, NULL

\* Memory stays tiled when no size changes.
LEMMA SameTiles ==
    ASSUME NEW m, Tiled(m), NEW m2, Headers(m2) = Headers(m),
           \A a \in Headers(m) : m2[a].size = m[a].size
    PROVE  Tiled(m2)
BY DEF Tiled

\* Memory stays tiled when a buffer is split.
LEMMA SplitTiles ==
    ASSUME NEW m \in Memories, Tiled(m), NEW c \in Headers(m),
           NEW n \in Nat, n > Header, m[c].size - n > Header, n % Word = 0,
           NEW m2, Headers(m2) = Headers(m) \cup {c + n},
           m2[c].size = n, m2[c + n].size = m[c].size - n,
           \A a \in Headers(m) \ {c} : m2[a].size = m[a].size
    PROVE  Tiled(m2)
<1> DEFINE t == c + n
           e == c + m[c].size
<1>1. /\ c \in Nat /\ m[c].size \in Nat /\ m[c].size % Word = 0
      /\ e \in Headers(m) \cup {MemSize}
      /\ \A b \in Headers(m) : b <= c \/ e <= b
  BY TileIs
<1>2. t \in Nat /\ e \in Nat /\ c < t /\ t < e /\ t + m2[t].size = e
      /\ c + m2[c].size = t
  BY <1>1, SizeFacts
<1>3. m2[t].size > Header /\ m2[t].size % Word = 0
  BY <1>1, AlignedSum
<1>4. \A a \in Headers(m) : a \in Nat /\ m[a].size \in Nat
  BY TileIs
<1>5. 0 \in Headers(m2)
  BY DEF Tiled
<1>6. ASSUME NEW a \in Headers(m2)
      PROVE  /\ m2[a].size > Header /\ m2[a].size % Word = 0
             /\ a + m2[a].size \in Headers(m2) \cup {MemSize}
  <2>1. CASE a = t
    BY <2>1, <1>1, <1>2, <1>3
  <2>2. CASE a = c
    BY <2>2, <1>2
  <2>3. CASE a # t /\ a # c
    BY <2>3 DEF Tiled
  <2> QED
    BY <2>1, <2>2, <2>3
<1>7. ASSUME NEW a \in Headers(m2), NEW b \in Headers(m2)
      PROVE  b <= a \/ a + m2[a].size <= b
  <2> HIDE DEF t, e
  <2>1. CASE a = t
    BY <2>1, <1>1, <1>2, <1>4, <1>7 DEF t
  <2>2. CASE a = c
    BY <2>2, <1>1, <1>2, <1>4, <1>7 DEF t
  <2>3. CASE a # t /\ a # c /\ b # t
    BY <2>3 DEF Tiled, t
  <2>4. CASE a # t /\ a # c /\ b = t
    <3>1. a \in Headers(m) /\ m2[a].size = m[a].size
      BY <2>4 DEF t
    <3>2. c <= a \/ a + m[a].size <= c
      BY <3>1, TileIs
    <3>3. a <= c \/ e <= a
      BY <3>1, <1>1
    <3> QED
      BY <2>4, <3>1, <3>2, <3>3, <1>1, <1>2, <1>4
  <2> QED
    BY <2>1, <2>2, <2>3, <2>4
<1> QED
  BY <1>5, <1>6, <1>7 DEF Tiled

\* Memory stays tiled when a buffer is merged with the one above it.
LEMMA MergeTiles ==
    ASSUME NEW m \in Memories, Tiled(m), NEW c \in Headers(m),
           NEW d \in Headers(m), c + m[c].size = d,
           NEW m2, Headers(m2) = Headers(m) \ {d},
           m2[c].size = m[c].size + m[d].size,
           \A a \in Headers(m) \ {c, d} : m2[a].size = m[a].size
    PROVE  Tiled(m2)
<1>1. /\ c \in Nat /\ m[c].size \in Nat /\ m[c].size % Word = 0
      /\ m[c].size > Header
      /\ \A b \in Headers(m) : b <= c \/ d <= b
  BY TileIs
<1>2. /\ d \in Nat /\ m[d].size \in Nat /\ m[d].size % Word = 0
      /\ m[d].size > Header
      /\ \A b \in Headers(m) : b <= d \/ d + m[d].size <= b
      /\ d + m[d].size \in Headers(m) \cup {MemSize}
      /\ d < MemSize
  BY TileIs
<1>3. c < d /\ c + m2[c].size = d + m[d].size /\ d < d + m[d].size
  BY <1>1, <1>2, SizeFacts
<1>4. m2[c].size > Header /\ m2[c].size % Word = 0
  <2> DEFINE x == m[c].size
             y == m[d].size
  <2>0. x \in Int /\ y \in Int /\ x % Word = 0 /\ y % Word = 0
    BY <1>1, <1>2
  <2> HIDE DEF x, y
  <2>1. (x + y) % Word = 0
    BY ONLY <2>0, AlignedSum, Zenon
  <2> USE DEF x, y
  <2> QED
    BY <1>1, <1>2, <2>1, SizeFacts
<1>5. \A a \in Headers(m) : a \in Nat /\ m[a].size \in Nat
  BY TileIs
<1>6. 0 \in Headers(m2)
  BY <1>1, <1>3 DEF Tiled
<1>7. ASSUME NEW a \in Headers(m2)
      PROVE  /\ m2[a].size > Header /\ m2[a].size % Word = 0
             /\ a + m2[a].size \in Headers(m2) \cup {MemSize}
  <2>1. CASE a = c
    BY <2>1, <1>1, <1>2, <1>3, <1>4
  <2>2. CASE a # c
    <3>1. a \in Headers(m) \ {c, d} /\ m2[a].size = m[a].size
      BY <2>2
    <3>2. c <= a \/ a + m[a].size <= c
      BY <3>1, TileIs
    <3>3. a <= c \/ d <= a
      BY <3>1, <1>1
    <3>4. a + m[a].size # d
      BY <2>2, <3>1, <3>2, <3>3, <1>1, <1>2, <1>3, <1>5, TileIs
    <3> QED
      BY <3>1, <3>4 DEF Tiled
  <2> QED
    BY <2>1, <2>2
<1>8. ASSUME NEW a \in Headers(m2), NEW b \in Headers(m2)
      PROVE  b <= a \/ a + m2[a].size <= b
  <2>1. CASE a = c
    BY <2>1, <1>1, <1>2, <1>3, <1>5, <1>8
  <2>2. CASE a # c
    BY <2>2 DEF Tiled
  <2> QED
    BY <2>1, <2>2
<1> QED
  BY <1>6, <1>7, <1>8 DEF Tiled

-----------------------------------------------------------------------------
(* Memory *)

\* No header is at NULL.
LEMMA NullIs ==
    NULL \notin Addresses /\ NULL \in Pointers /\ Addresses \subseteq Pointers
BY SizesAssumption DEF Addresses, NULL, Pointers

\* Setting a pointer forward changes nothing else.
LEMMA SetNextIs ==
    ASSUME NEW m \in Memories, NEW a \in Pointers, NEW p \in Pointers
    PROVE  /\ SetNext(m, a, p) \in Memories
           /\ \A b \in Addresses :
                 /\ SetNext(m, a, p)[b].next = IF b = a THEN p ELSE m[b].next
                 /\ SetNext(m, a, p)[b].prev = m[b].prev
                 /\ SetNext(m, a, p)[b].size = m[b].size
BY NullIs DEF SetNext, Memories, Pointers

\* Setting a pointer back changes nothing else.
LEMMA SetPrevIs ==
    ASSUME NEW m \in Memories, NEW a \in Pointers, NEW p \in Pointers
    PROVE  /\ SetPrev(m, a, p) \in Memories
           /\ \A b \in Addresses :
                 /\ SetPrev(m, a, p)[b].next = m[b].next
                 /\ SetPrev(m, a, p)[b].prev = IF b = a THEN p ELSE m[b].prev
                 /\ SetPrev(m, a, p)[b].size = m[b].size
BY NullIs DEF SetPrev, Memories, Pointers

\* Writing a header changes no other.
LEMMA PutIs ==
    ASSUME NEW m \in Memories, NEW a \in Addresses,
           NEW n \in Pointers, NEW p \in Pointers, NEW size \in 0 .. MemSize
    PROVE  /\ Put(m, a, n, p, size) \in Memories
           /\ \A b \in Addresses :
                 /\ Put(m, a, n, p, size)[b].next = IF b = a THEN n ELSE m[b].next
                 /\ Put(m, a, n, p, size)[b].prev = IF b = a THEN p ELSE m[b].prev
                 /\ Put(m, a, n, p, size)[b].size = IF b = a THEN size ELSE m[b].size
BY DEF Put, Memories

\* Forgetting a header changes no other.
LEMMA ForgetIs ==
    ASSUME NEW m \in Memories, NEW a \in Addresses
    PROVE  /\ Forget(m, a) \in Memories
           /\ Forget(m, a)[a].size = 0
           /\ \A b \in Addresses : b # a => Forget(m, a)[b] = m[b]
<1>1. NoHeader \in [next : Pointers, prev : Pointers, size : 0 .. MemSize]
  BY NullIs, SizeFacts DEF NoHeader
<1> QED
  BY <1>1 DEF Forget, Memories, NoHeader

\* Another size changes no other header.
LEMMA ResizeIs ==
    ASSUME NEW m \in Memories, NEW a \in Addresses, NEW size \in 0 .. MemSize
    PROVE  /\ [m EXCEPT ![a].size = size] \in Memories
           /\ \A b \in Addresses :
                 /\ [m EXCEPT ![a].size = size][b].next = m[b].next
                 /\ [m EXCEPT ![a].size = size][b].prev = m[b].prev
                 /\ [m EXCEPT ![a].size = size][b].size =
                        IF b = a THEN size ELSE m[b].size
BY DEF Memories

\* The pointers of a buffer lead to buffers of its chain.
LEMMA LinkIs ==
    ASSUME NEW m, NEW head, NEW S, IsChain(m, head, S)
    PROVE  /\ head \in S \cup {NULL}
           /\ \A a \in S : m[a].next \in S \cup {NULL}
                          /\ m[a].prev \in S \cup {NULL}
                          /\ m[a].next # a
<1>1. \A a \in S : m[a].next # a
  BY LinkedChain
<1> QED
  BY <1>1 DEF IsChain, Linked

\* The memory, two chains in it and the buffers that are in neither.
Good(m, free, F, alloc, U, X) ==
    /\ m \in Memories /\ Tiled(m)
    /\ Headers(m) = F \cup U \cup X
    /\ F \cap U = {} /\ F \cap X = {} /\ U \cap X = {}
    /\ IsChain(m, free, F) /\ IsChain(m, alloc, U)
    /\ Apart(m, F)

\* The buffer at a ends where b begins.
Touches(m, a, b) == a + m[a].size = b

\* The buffer at c has room for a tail behind the first bytes of it.
HasTail(c, size) ==
    /\ size \in Nat /\ size > Header /\ size % Word = 0
    /\ mem[c].size - size > Header

\* What Good says of the members of the three sets.
LEMMA GoodIs ==
    ASSUME NEW m, NEW free, NEW F, NEW alloc, NEW U, NEW X,
           Good(m, free, F, alloc, U, X)
    PROVE  /\ F \cup U \cup X \subseteq Addresses /\ NULL \notin F \cup U \cup X
           /\ free \in F \cup {NULL} /\ free \in Pointers
           /\ alloc \in U \cup {NULL} /\ alloc \in Pointers
           /\ \A a \in F : m[a].next \in F \cup {NULL} /\ m[a].prev \in F \cup {NULL}
           /\ \A a \in U : m[a].next \in U \cup {NULL} /\ m[a].prev \in U \cup {NULL}
           /\ \A a \in F \cup U \cup X :
                 /\ a \in Addresses /\ a \in Nat /\ a < MemSize /\ a # NULL
                 /\ m[a].next \in Pointers /\ m[a].prev \in Pointers
                 /\ m[a].size \in 0 .. MemSize /\ m[a].size > 0
                 /\ m[a].size > Header /\ a + m[a].size <= MemSize
                 /\ \A d \in F \cup U \cup X : d <= a \/ a + m[a].size <= d
<1>1. m \in Memories /\ Tiled(m) /\ Headers(m) = F \cup U \cup X
  BY DEF Good
<1>2. \A a \in F \cup U \cup X :
          /\ a \in Addresses /\ a \in Nat /\ a < MemSize /\ a # NULL
          /\ m[a].next \in Pointers /\ m[a].prev \in Pointers
          /\ m[a].size \in Nat /\ m[a].size > 0
          /\ m[a].size > Header /\ a + m[a].size <= MemSize
          /\ \A d \in F \cup U \cup X : d <= a \/ a + m[a].size <= d
  BY <1>1, TileIs
<1>3. \A a \in F \cup U \cup X : m[a].size \in 0 .. MemSize
  BY <1>2, SizeFacts
<1>4. /\ free \in F \cup {NULL} /\ alloc \in U \cup {NULL}
      /\ \A a \in F : m[a].next \in F \cup {NULL} /\ m[a].prev \in F \cup {NULL}
      /\ \A a \in U : m[a].next \in U \cup {NULL} /\ m[a].prev \in U \cup {NULL}
  BY LinkIs DEF Good
<1> QED
  BY <1>2, <1>3, <1>4, NullIs

\* The free chain without a buffer that is taken whole (do_acquire()).
LEMMA TakeAllGood ==
    ASSUME NEW F, NEW U, NEW c \in F,
           Good(mem, free_buf_chain, F, allocced_buf_chain, U, {})
    PROVE  /\ Good(TakeAll(c).m, TakeAll(c).head, F \ {c}, allocced_buf_chain, U, {c})
           /\ \A a \in Addresses : TakeAll(c).m[a].size = mem[a].size
<1> DEFINE n == mem[c].next
           p == mem[c].prev
           m1 == SetNext(mem, p, n)
           m2 == SetPrev(m1, n, p)
           head2 == IF c = free_buf_chain THEN n ELSE free_buf_chain
<1>1. TakeAll(c).m = m2 /\ TakeAll(c).head = head2
  BY DEF TakeAll
<1>2. /\ mem \in Memories /\ Tiled(mem) /\ Headers(mem) = F \cup U
      /\ F \cap U = {} /\ IsChain(mem, free_buf_chain, F)
      /\ IsChain(mem, allocced_buf_chain, U) /\ Apart(mem, F)
  BY DEF Good
<1>3. /\ F \cup U \subseteq Addresses /\ NULL \notin F \cup U
      /\ n \in F \cup {NULL} /\ p \in F \cup {NULL}
      /\ n \in Pointers /\ p \in Pointers
  BY GoodIs
<1>m1. /\ m1 \in Memories
       /\ \A a \in Addresses :
             /\ m1[a].next = IF a = p THEN n ELSE mem[a].next
             /\ m1[a].prev = mem[a].prev /\ m1[a].size = mem[a].size
  BY <1>2, <1>3, SetNextIs
<1> HIDE DEF m1
<1>4. /\ m2 \in Memories
      /\ \A a \in Addresses :
            /\ m2[a].next = m1[a].next
            /\ m2[a].prev = IF a = n THEN p ELSE m1[a].prev
            /\ m2[a].size = m1[a].size
  BY <1>3, <1>m1, SetPrevIs
<1> HIDE DEF m2
<1>5. \A a \in Addresses :
          /\ m2[a].next = IF a = p THEN n ELSE mem[a].next
          /\ m2[a].prev = IF a = n THEN p ELSE mem[a].prev
          /\ m2[a].size = mem[a].size
  BY <1>m1, <1>4
<1>6. Headers(m2) = Headers(mem)
  BY <1>5 DEF Headers
<1>7. Tiled(m2)
  <2>1. \A a \in Headers(mem) : m2[a].size = mem[a].size
    BY <1>5 DEF Headers
  <2> QED
    BY <2>1, <1>2, <1>6, SameTiles
<1>8. IsChain(m2, head2, F \ {c})
  <2>1. F \ {c} \subseteq Headers(m2)
    BY <1>2, <1>6
  <2>2. \A a \in F \ {c} :
            /\ m2[a].next = IF a = mem[c].prev THEN mem[c].next ELSE mem[a].next
            /\ m2[a].prev = IF a = mem[c].next THEN mem[c].prev ELSE mem[a].prev
    BY <1>3, <1>5
  <2> QED
    BY <2>1, <2>2, <1>2, RemoveFromChain
<1>9. IsChain(m2, allocced_buf_chain, U)
  <2>1. \A a \in U : m2[a].next = mem[a].next /\ m2[a].prev = mem[a].prev
    BY <1>2, <1>3, <1>5
  <2> QED
    BY <2>1, <1>2, <1>6, SameChain
<1>10. Apart(m2, F \ {c})
  <2> SUFFICES ASSUME NEW a \in F \ {c}, m2[a].next # NULL
               PROVE  a + m2[a].size < m2[a].next
    BY DEF Apart
  <2>1. a \in Addresses /\ m2[a].size = mem[a].size
    BY <1>3, <1>5
  <2>2. CASE a # p
    BY <2>1, <2>2, <1>2, <1>5 DEF Apart
  <2>3. CASE a = p
    <3>1. mem[a].next = c /\ m2[a].next = n
      BY <2>1, <2>3, <1>2, <1>3, <1>5 DEF IsChain, Linked
    <3>2. a + mem[a].size < c /\ c + mem[c].size < n
      BY <3>1, <1>2, <1>3 DEF Apart
    <3>3. /\ a \in Nat /\ mem[a].size \in Nat /\ c \in Nat /\ mem[c].size \in Nat
          /\ n \in Nat
      BY <3>1, <1>3, GoodIs
    <3> QED
      BY <2>1, <3>1, <3>2, <3>3
  <2> QED
    BY <2>2, <2>3
<1> QED
  BY <1>1, <1>2, <1>4, <1>5, <1>6, <1>7, <1>8, <1>9, <1>10 DEF Good

\* In m the buffer c has the size it was cut to, and those of U have theirs.
Cut(m, c, size, U) ==
    m[c].size = size /\ \A a \in U : m[a].size = mem[a].size

\* The free chain with the tail of a buffer in its place (do_acquire()).
LEMMA SplitGood ==
    ASSUME NEW F, NEW U, NEW c \in F, NEW size, HasTail(c, size),
           Good(mem, free_buf_chain, F, allocced_buf_chain, U, {})
    PROVE  /\ \E F2 : Good(Split(c, size).m, Split(c, size).head, F2,
                           allocced_buf_chain, U, {c})
           /\ Cut(Split(c, size).m, c, size, U)
<1> DEFINE n == mem[c].next
           p == mem[c].prev
           t == c + size
           q == IF c = free_buf_chain THEN NULL ELSE p
           m0 == [mem EXCEPT ![c].size = size]
           r == mem[c].size - size
           m1 == Put(m0, t, n, p, r)
           m2 == SetPrev(m1, n, t)
           m3 == SetNext(m2, q, t)
           head3 == IF c = free_buf_chain THEN t ELSE free_buf_chain
           F3 == (F \ {c}) \cup {t}
<1>0. /\ size \in Nat /\ size > Header /\ size % Word = 0
      /\ mem[c].size - size > Header
  BY DEF HasTail
<1>1. Split(c, size).m = m3 /\ Split(c, size).head = head3
  BY DEF Split
<1>2. /\ mem \in Memories /\ Tiled(mem) /\ Headers(mem) = F \cup U
      /\ F \cap U = {} /\ IsChain(mem, free_buf_chain, F)
      /\ IsChain(mem, allocced_buf_chain, U) /\ Apart(mem, F)
  BY DEF Good
<1>3. /\ F \cup U \subseteq Addresses /\ NULL \notin F \cup U
      /\ n \in F \cup {NULL} /\ p \in F \cup {NULL}
      /\ n \in Pointers /\ p \in Pointers
      /\ c \in Addresses /\ c \in Nat
      /\ mem[c].size \in 0 .. MemSize /\ mem[c].size \in Nat
  BY GoodIs
<1>4. size > 0 /\ size < mem[c].size /\ size \in 0 .. MemSize
      /\ mem[c].size - size \in 0 .. MemSize /\ mem[c].size - size > 0
  BY <1>0, <1>3, SizeFacts
<1>5. t \in Addresses /\ t \notin F \cup U /\ t # NULL /\ t \in Pointers
  BY <1>0, <1>2, <1>4, TailIs, NullIs
<1>6. q = p /\ q \in Pointers
  BY <1>2, <1>3, NullIs DEF IsChain, Linked
<1>m0. /\ m0 \in Memories
       /\ \A a \in Addresses :
             /\ m0[a].next = mem[a].next /\ m0[a].prev = mem[a].prev
             /\ m0[a].size = IF a = c THEN size ELSE mem[a].size
  BY <1>2, <1>3, <1>4, ResizeIs
<1>r. r \in 0 .. MemSize /\ r > 0 /\ r = mem[c].size - size
  BY <1>4
<1> HIDE DEF m0, t, q, n, p, r
<1>m1. /\ m1 \in Memories
       /\ \A a \in Addresses :
             /\ m1[a].next = IF a = t THEN n ELSE m0[a].next
             /\ m1[a].prev = IF a = t THEN p ELSE m0[a].prev
             /\ m1[a].size = IF a = t THEN r ELSE m0[a].size
  <2>1. m0 \in Memories /\ t \in Addresses /\ n \in Pointers /\ p \in Pointers
        /\ r \in 0 .. MemSize
    BY <1>3, <1>5, <1>r, <1>m0
  <2> QED
    BY <2>1, PutIs
<1> HIDE DEF m1
<1>m2. /\ m2 \in Memories
       /\ \A a \in Addresses :
             /\ m2[a].next = m1[a].next
             /\ m2[a].prev = IF a = n THEN t ELSE m1[a].prev
             /\ m2[a].size = m1[a].size
  <2>1. m1 \in Memories /\ n \in Pointers /\ t \in Pointers
    BY <1>3, <1>5, <1>m1
  <2> QED
    BY <2>1, SetPrevIs
<1> HIDE DEF m2
<1>m3. /\ m3 \in Memories
       /\ \A a \in Addresses :
             /\ m3[a].next = IF a = q THEN t ELSE m2[a].next
             /\ m3[a].prev = m2[a].prev
             /\ m3[a].size = m2[a].size
  BY <1>5, <1>6, <1>m2, SetNextIs
<1> HIDE DEF m3
<1>7. \A a \in Addresses : a # t =>
          /\ m3[a].next = IF a = p THEN t ELSE mem[a].next
          /\ m3[a].prev = IF a = n THEN t ELSE mem[a].prev
          /\ m3[a].size = IF a = c THEN size ELSE mem[a].size
  BY <1>6, <1>m0, <1>m1, <1>m2, <1>m3
<1>8. m3[t].next = n /\ m3[t].prev = p /\ m3[t].size = r
  BY <1>3, <1>5, <1>6, <1>m1, <1>m2, <1>m3
<1>9. Headers(m3) = (F \cup U) \cup {t}
  <2>1. \A a \in Addresses : mem[a].size # 0 <=> a \in F \cup U
    BY <1>2 DEF Headers
  <2>2. \A a \in Addresses : m3[a].size # 0 <=> a \in (F \cup U) \cup {t}
    BY <2>1, <1>3, <1>4, <1>5, <1>7, <1>8, <1>r
  <2> QED
    BY <2>2, <1>3, <1>5 DEF Headers
<1>10. Tiled(m3)
  <2>1. \A a \in Headers(mem) \ {c} : m3[a].size = mem[a].size
    BY <1>2, <1>3, <1>5, <1>7
  <2>2. m3[c].size = size /\ c \in Headers(mem)
    BY <1>2, <1>3, <1>5, <1>7
  <2> QED
    BY <2>1, <2>2, <1>0, <1>2, <1>8, <1>9, <1>r, SplitTiles DEF t
<1>11. IsChain(m3, head3, F3)
  <2>1. F \ {c} \subseteq Headers(m3) /\ t \in Headers(m3) /\ t \notin F
    BY <1>5, <1>9
  <2>2. \A a \in F \ {c} :
            /\ m3[a].next = IF a = mem[c].prev THEN t ELSE mem[a].next
            /\ m3[a].prev = IF a = mem[c].next THEN t ELSE mem[a].prev
    BY <1>3, <1>5, <1>7 DEF n, p
  <2>3. m3[t].next = mem[c].next /\ m3[t].prev = mem[c].prev
    BY <1>8 DEF n, p
  <2> QED
    BY <2>1, <2>2, <2>3, <1>2, ReplaceInChain
<1>12. IsChain(m3, allocced_buf_chain, U)
  <2>1. \A a \in U : m3[a].next = mem[a].next /\ m3[a].prev = mem[a].prev
    BY <1>2, <1>3, <1>5, <1>7
  <2> QED
    BY <2>1, <1>2, <1>9, SameChain
<1>13. Apart(m3, F3)
  <2> SUFFICES ASSUME NEW a \in F3, m3[a].next # NULL
               PROVE  a + m3[a].size < m3[a].next
    BY DEF Apart
  <2>1. CASE a = t
    <3>1. m3[a].next = n /\ m3[a].size = mem[c].size - size /\ n \in F
      BY <2>1, <1>3, <1>8, <1>r
    <3>2. c + mem[c].size < n
      BY <3>1, <1>2, <1>3 DEF Apart, n
    <3>3. n \in Nat
      BY <3>1, GoodIs
    <3> QED
      BY <2>1, <3>1, <3>2, <3>3, <1>0, <1>3 DEF t
  <2>2. CASE a \in F \ {c} /\ a # p
    BY <2>2, <1>2, <1>3, <1>5, <1>7 DEF Apart
  <2>3. CASE a \in F \ {c} /\ a = p
    <3>1. mem[a].next = c /\ m3[a].next = t /\ m3[a].size = mem[a].size
      BY <2>3, <1>2, <1>3, <1>5, <1>7 DEF IsChain, Linked, p
    <3>2. a + mem[a].size < c
      BY <2>3, <3>1, <1>2, <1>3 DEF Apart
    <3>3. a \in Nat /\ mem[a].size \in Nat
      BY <2>3, GoodIs
    <3> QED
      BY <3>1, <3>2, <3>3, <1>0, <1>3, <1>4 DEF t
  <2> QED
    BY <2>1, <2>2, <2>3
<1>14. Good(m3, head3, F3, allocced_buf_chain, U, {c})
  <2>1. Headers(m3) = F3 \cup U \cup {c}
    BY <1>9
  <2>2. F3 \cap U = {} /\ F3 \cap {c} = {} /\ U \cap {c} = {}
    BY <1>2, <1>5
  <2> QED
    BY <2>1, <2>2, <1>m3, <1>10, <1>11, <1>12, <1>13 DEF Good
<1>15. Cut(m3, c, size, U)
  BY <1>2, <1>3, <1>5, <1>7 DEF Cut
<1> HIDE DEF F3, head3
<1> QED
  BY <1>1, <1>14, <1>15

\* The memory with c in front of the allocated chain.
Pushed(m, alloc, c) ==
    SetPrev([m EXCEPT ![c].next = alloc, ![c].prev = NULL], alloc, c)

\* A loose buffer comes in front of the allocated chain (shared_mem_acquire()).
LEMMA PushGood ==
    ASSUME NEW m, NEW free, NEW F, NEW alloc, NEW U, NEW c,
           Good(m, free, F, alloc, U, {c})
    PROVE  /\ Good(Pushed(m, alloc, c), free, F, c, U \cup {c}, {})
           /\ \A a \in Addresses : Pushed(m, alloc, c)[a].size = m[a].size
<1> DEFINE m1 == [m EXCEPT ![c].next = alloc, ![c].prev = NULL]
           m2 == SetPrev(m1, alloc, c)
<1>0. Pushed(m, alloc, c) = m2
  BY DEF Pushed
<1>1. /\ m \in Memories /\ Tiled(m) /\ Headers(m) = F \cup U \cup {c}
      /\ F \cap U = {} /\ F \cap {c} = {} /\ U \cap {c} = {}
      /\ IsChain(m, free, F) /\ IsChain(m, alloc, U) /\ Apart(m, F)
  BY DEF Good
<1>2. /\ F \cup U \subseteq Addresses /\ NULL \notin F \cup U
      /\ c \in Addresses /\ c \in Pointers /\ c # NULL
      /\ alloc \in U \cup {NULL} /\ alloc \in Pointers
  BY GoodIs, NullIs
<1>m1. /\ m1 \in Memories
       /\ \A a \in Addresses :
             /\ m1[a].next = IF a = c THEN alloc ELSE m[a].next
             /\ m1[a].prev = IF a = c THEN NULL ELSE m[a].prev
             /\ m1[a].size = m[a].size
  BY <1>1, <1>2, NullIs DEF Memories
<1> HIDE DEF m1
<1>m2. /\ m2 \in Memories
       /\ \A a \in Addresses :
             /\ m2[a].next = m1[a].next
             /\ m2[a].prev = IF a = alloc THEN c ELSE m1[a].prev
             /\ m2[a].size = m1[a].size
  <2>1. m1 \in Memories /\ alloc \in Pointers /\ c \in Pointers
    BY <1>2, <1>m1
  <2> QED
    BY <2>1, SetPrevIs
<1> HIDE DEF m2
<1>3. \A a \in Addresses : m2[a].size = m[a].size
  BY <1>m1, <1>m2
<1>4. Headers(m2) = Headers(m)
  BY <1>3 DEF Headers
<1>5. Tiled(m2)
  <2>1. \A a \in Headers(m) : m2[a].size = m[a].size
    BY <1>3 DEF Headers
  <2> QED
    BY <2>1, <1>1, <1>4, SameTiles
<1>6. \A a \in F : m2[a].next = m[a].next /\ m2[a].prev = m[a].prev
  BY <1>1, <1>2, <1>m1, <1>m2
<1>7. IsChain(m2, free, F)
  BY <1>1, <1>4, <1>6, SameChain
<1>8. IsChain(m2, c, U \cup {c})
  <2>1. c \notin U /\ c \in Headers(m2) /\ U \subseteq Headers(m2)
    BY <1>1, <1>4
  <2>2. m2[c].next = alloc /\ m2[c].prev = NULL
    BY <1>1, <1>2, <1>m1, <1>m2
  <2>3. \A a \in U : /\ m2[a].next = m[a].next
                     /\ m2[a].prev = IF a = alloc THEN c ELSE m[a].prev
    BY <1>1, <1>2, <1>m1, <1>m2
  <2> QED
    BY <2>1, <2>2, <2>3, <1>1, PushOnChain
<1>9. Apart(m2, F)
  BY <1>1, <1>2, <1>3, <1>6 DEF Apart
<1>10. Good(m2, free, F, c, U \cup {c}, {})
  BY <1>1, <1>m2, <1>4, <1>5, <1>7, <1>8, <1>9 DEF Good
<1> QED
  BY <1>0, <1>3, <1>10

-----------------------------------------------------------------------------
(* Walks *)

\* A set of numbers that is not empty has a least one.
LEMMA LeastIs ==
    ASSUME NEW S, S \subseteq Nat, S # {}
    PROVE  \E n \in S : \A k \in S : n <= k
<1>1. PICK n \in S : \A k \in S : <<k, n>> \notin OpToRel(<, Nat)
  BY WFMin, NatLessThanWellFounded
<1>2. \A k \in S : ~(k < n)
  BY <1>1 DEF OpToRel
<1> QED
  BY <1>2

\* A set of headers that is not empty has a last one.
LEMMA LastIs ==
    ASSUME NEW S, S # {}, \A a \in S : a \in Nat /\ a < MemSize
    PROVE  \E n \in S : \A k \in S : k <= n
<1> DEFINE T == {MemSize - a : a \in S}
<1>1. T \subseteq Nat /\ T # {}
  BY SizeFacts
<1>2. PICK t \in T : \A k \in T : t <= k
  BY <1>1, LeastIs
<1>3. PICK n \in S : t = MemSize - n
  BY <1>2
<1>4. \A k \in S : MemSize - n <= MemSize - k
  BY <1>2, <1>3
<1> QED
  BY <1>4, SizeFacts

\* Of two free buffers the walk meets the lower one first.
LEMMA InOrder ==
    ASSUME NEW m \in Memories, NEW head, NEW F, IsChain(m, head, F), Apart(m, F),
           NEW a \in F, NEW b \in F, a <= b
    PROVE  b \in Chain(m, a)
<1>1. F \subseteq Headers(m) /\ NULL \notin F
  BY LinkedChain
<1>2. \A d \in F : m[d].next # NULL =>
          /\ m[d].next \in F /\ d \in Nat /\ m[d].next \in Nat /\ d < m[d].next
  <2> SUFFICES ASSUME NEW d \in F, m[d].next # NULL
               PROVE  /\ m[d].next \in F /\ d \in Nat
                      /\ m[d].next \in Nat /\ d < m[d].next
    OBVIOUS
  <2>1. m[d].next \in F /\ d \in Addresses /\ d \in Nat /\ m[d].next \in Nat
    BY <1>1, LinkIs, HeaderIs
  <2>2. m[d].size \in Nat
    BY <2>1, SizeFacts DEF Memories
  <2>3. d + m[d].size < m[d].next
    BY DEF Apart
  <2> QED
    BY <2>1, <2>2, <2>3
<1>3. \A d \in F : d \in Chain(m, d) /\ Chain(m, d) \subseteq Headers(m)
  BY <1>1, ChainIs
<1>4. \A d, e \in F : e \in Chain(m, d) /\ m[e].next # NULL
                         => m[e].next \in Chain(m, d)
  BY <1>1, <1>2, ChainIs
<1>5. ASSUME NEW d \in F, b \in Chain(m, d), b # d
      PROVE  m[d].next # NULL /\ b \in Chain(m, m[d].next)
  <2> DEFINE T == {d} \cup Chain(m, m[d].next)
  <2>1. T \in SUBSET Headers(m)
    BY <1>1, ChainIs
  <2>2. \A e \in T : m[e].next \in Headers(m) => m[e].next \in T
    BY ChainIs
  <2>3. Chain(m, d) \subseteq T
    <3>1. d \in T
      OBVIOUS
    <3> HIDE DEF T
    <3> QED
      BY <2>1, <2>2, <3>1, ChainIs
  <2>4. b \in Chain(m, m[d].next)
    BY <2>3, <1>5
  <2>5. Chain(m, NULL) = {}
    <3>1. {} \in SUBSET Headers(m) /\ NULL \notin Headers(m)
      BY HeaderIs
    <3> QED
      BY <3>1, ChainIs
  <2> QED
    BY <2>4, <2>5
<1>6. {d \in F : b \in Chain(m, d) \/ d \in Chain(m, b)} = F
  <2> DEFINE T == {d \in F : b \in Chain(m, d) \/ d \in Chain(m, b)}
  <2>1. T \in SUBSET F
    OBVIOUS
  <2>2. head # NULL => head \in T
    BY DEF IsChain, Linked
  <2>3. ASSUME NEW d \in T, m[d].next # NULL
        PROVE  m[d].next \in T
    <3>1. d \in F /\ m[d].next \in F
      BY <2>3, <1>2
    <3>2. CASE d \in Chain(m, b)
      BY <3>1, <3>2, <2>3, <1>4
    <3>3. CASE b \in Chain(m, d) /\ b # d
      BY <3>1, <3>3, <1>5
    <3>4. CASE b = d
      BY <3>4, <3>2, <1>3
    <3> QED
      BY <3>2, <3>3, <3>4, <2>3
  <2> HIDE DEF T
  <2>4. T = F
    BY <2>1, <2>2, <2>3, LinkedChain
  <2> QED
    BY <2>4 DEF T
<1>7. ASSUME a \in Chain(m, b)
      PROVE  b <= a
  <2> DEFINE T == {d \in F : b <= d}
  <2>1. T \in SUBSET Headers(m) /\ b \in T
    BY <1>1, HeaderIs
  <2>2. \A d \in T : m[d].next \in Headers(m) => m[d].next \in T
    <3> SUFFICES ASSUME NEW d \in T, m[d].next \in Headers(m)
                 PROVE  m[d].next \in T
      OBVIOUS
    <3>1. m[d].next # NULL /\ b \in Nat
      BY <1>1, HeaderIs
    <3> QED
      BY <3>1, <1>2
  <2>3. Chain(m, b) \subseteq T
    BY <2>1, <2>2, ChainIs
  <2> QED
    BY <2>3, <1>7
<1>8. a \in Nat /\ b \in Nat
  BY <1>1, HeaderIs
<1> QED
  BY <1>3, <1>6, <1>7, <1>8

\* do_acquire() finds a free buffer that is large enough, when it finds one.
LEMMA CandidateIs ==
    ASSUME NEW size \in Nat, NEW U, NEW X,
           Good(mem, free_buf_chain, FreeBufs, allocced_buf_chain, U, X),
           Candidate(size) # NULL
    PROVE  Candidate(size) \in FreeBufs /\ mem[Candidate(size)].size >= size
<1> DEFINE fit == {a \in FreeBufs : mem[a].size >= size}
           Best(a) == \A b \in fit :
                         \/ mem[a].size < mem[b].size
                         \/ mem[a].size = mem[b].size /\ b \in Chain(mem, a)
           sizes == {mem[a].size : a \in fit}
<1>1. fit # {} /\ Candidate(size) = CHOOSE a \in fit : Best(a)
  BY DEF Candidate
<1>2. \A a \in FreeBufs : a \in Nat /\ mem[a].size \in Nat
  BY GoodIs
<1>3. PICK s \in sizes : \A k \in sizes : s <= k
  <2>1. sizes \subseteq Nat /\ sizes # {}
    BY <1>1, <1>2
  <2> HIDE DEF sizes
  <2> QED
    BY <2>1, LeastIs
<1> DEFINE least == {a \in fit : mem[a].size = s}
<1>4. PICK a \in least : \A k \in least : a <= k
  <2>1. least \subseteq Nat /\ least # {}
    BY <1>2, <1>3
  <2> HIDE DEF least
  <2> QED
    BY <2>1, LeastIs
<1>5. Best(a)
  <2> SUFFICES ASSUME NEW b \in fit
               PROVE  \/ mem[a].size < mem[b].size
                      \/ mem[a].size = mem[b].size /\ b \in Chain(mem, a)
    OBVIOUS
  <2>1. mem[a].size = s /\ s <= mem[b].size /\ s \in Nat /\ mem[b].size \in Nat
    BY <1>2, <1>3, <1>4
  <2>2. CASE s < mem[b].size
    BY <2>1, <2>2
  <2>3. CASE s = mem[b].size
    <3>1. a <= b /\ a \in FreeBufs /\ b \in FreeBufs
      BY <2>3, <1>4
    <3>2. mem \in Memories /\ IsChain(mem, free_buf_chain, FreeBufs)
          /\ Apart(mem, FreeBufs)
      BY DEF Good
    <3>3. b \in Chain(mem, a)
      BY <3>1, <3>2, InOrder
    <3> QED
      BY <2>1, <2>3, <3>3
  <2> QED
    BY <2>1, <2>2, <2>3
<1>6. a \in fit
  OBVIOUS
<1> HIDE DEF Best
<1>7. Candidate(size) \in fit
  BY <1>1, <1>5, <1>6
<1> QED
  BY <1>7

\* The walk of do_release() ends at the last free buffer below the released one.
LEMMA BelowIs ==
    ASSUME NEW m \in Memories, NEW F, IsChain(m, free_buf_chain, F), Apart(m, F),
           NEW ptr \in Nat, free_buf_chain # NULL, free_buf_chain < ptr
    PROVE  LET pfb == Below(m, ptr)
           IN  /\ pfb \in F /\ pfb < ptr
               /\ m[pfb].next = NULL \/ m[pfb].next >= ptr
<1> DEFINE M == Met(m, free_buf_chain, ptr)
           T == {a \in F : a < ptr}
<1>1. F \subseteq Headers(m) /\ NULL \notin F /\ free_buf_chain \in F
  BY LinkedChain DEF IsChain, Linked
<1>2. \A a \in F : a \in Nat /\ a < MemSize /\ a \in Addresses
  BY <1>1, HeaderIs
<1>3. \A a \in F : m[a].size \in Nat
  BY <1>2, SizeFacts DEF Memories
<1>4. \A a \in F : m[a].next # NULL => m[a].next \in F /\ a < m[a].next
  <2> SUFFICES ASSUME NEW a \in F, m[a].next # NULL
               PROVE  m[a].next \in F /\ a < m[a].next
    OBVIOUS
  <2>1. m[a].next \in F /\ a + m[a].size < m[a].next
    BY LinkIs DEF Apart
  <2> QED
    BY <2>1, <1>2, <1>3
<1>5. M \subseteq T
  <2>1. T \in SUBSET Headers(m) /\ free_buf_chain \in T
    BY <1>1
  <2>2. \A a \in T : m[a].next \in Headers(m) /\ m[a].next < ptr
                          => m[a].next \in T
    <3>1. NULL \notin Headers(m)
      BY HeaderIs
    <3> QED
      BY <3>1, <1>4
  <2> QED
    BY <2>1, <2>2, MetIs
<1>6. free_buf_chain \in M
  BY <1>1, MetIs
<1>7. PICK a \in M : \A k \in M : k <= a
  <2>1. M # {} /\ \A k \in M : k \in Nat /\ k < MemSize
    BY <1>2, <1>5, <1>6
  <2> HIDE DEF M
  <2> QED
    BY <2>1, LastIs
<1>8. m[a].next = NULL \/ m[a].next >= ptr
  <2> SUFFICES ASSUME m[a].next # NULL, ~(m[a].next >= ptr)
               PROVE  FALSE
    OBVIOUS
  <2>1. a \in F /\ m[a].next \in F /\ a < m[a].next
    BY <1>4, <1>5
  <2>2. m[a].next < ptr /\ m[a].next \in Headers(m)
    BY <2>1, <1>1, <1>2
  <2>3. m[a].next \in M
    BY <2>2, MetIs
  <2> QED
    BY <2>1, <2>3, <1>2, <1>7
<1>9. Below(m, ptr) \in M
      /\ (m[Below(m, ptr)].next = NULL \/ m[Below(m, ptr)].next >= ptr)
  BY <1>8 DEF Below
<1> QED
  BY <1>5, <1>9

-----------------------------------------------------------------------------
(* Releasing *)

\* The allocated chain without the released buffer (do_release()).
LEMMA UnlinkedGood ==
    ASSUME NEW F, NEW U, NEW ptr \in U,
           Good(mem, free_buf_chain, F, allocced_buf_chain, U, {})
    PROVE  /\ Good(Unlinked(ptr), free_buf_chain, F,
                   IF ptr = allocced_buf_chain THEN mem[ptr].next
                   ELSE allocced_buf_chain, U \ {ptr}, {ptr})
           /\ \A a \in Addresses : Unlinked(ptr)[a].size = mem[a].size
<1> DEFINE n == mem[ptr].next
           p == mem[ptr].prev
           q == IF ptr = allocced_buf_chain THEN NULL ELSE p
           m1 == SetNext(mem, q, n)
           m2 == SetPrev(m1, n, p)
           head2 == IF ptr = allocced_buf_chain THEN n ELSE allocced_buf_chain
<1>1. /\ mem \in Memories /\ Tiled(mem) /\ Headers(mem) = F \cup U
      /\ F \cap U = {} /\ IsChain(mem, free_buf_chain, F)
      /\ IsChain(mem, allocced_buf_chain, U) /\ Apart(mem, F)
  BY DEF Good
<1>2. /\ F \cup U \subseteq Addresses /\ NULL \notin F \cup U
      /\ n \in U \cup {NULL} /\ p \in U \cup {NULL}
      /\ n \in Pointers /\ p \in Pointers
  BY GoodIs
<1>3. ptr = allocced_buf_chain => p = NULL
  BY <1>1, <1>2 DEF IsChain, Linked
<1>4. Unlinked(ptr) = m2 /\ q = p
  BY <1>3 DEF Unlinked, SetNext
<1> HIDE DEF q
<1>m1. /\ m1 \in Memories
       /\ \A a \in Addresses :
             /\ m1[a].next = IF a = p THEN n ELSE mem[a].next
             /\ m1[a].prev = mem[a].prev /\ m1[a].size = mem[a].size
  BY <1>1, <1>2, <1>4, SetNextIs
<1> HIDE DEF m1
<1>m2. /\ m2 \in Memories
       /\ \A a \in Addresses :
             /\ m2[a].next = m1[a].next
             /\ m2[a].prev = IF a = n THEN p ELSE m1[a].prev
             /\ m2[a].size = m1[a].size
  BY <1>2, <1>m1, SetPrevIs
<1> HIDE DEF m2
<1>5. \A a \in Addresses :
          /\ m2[a].next = IF a = p THEN n ELSE mem[a].next
          /\ m2[a].prev = IF a = n THEN p ELSE mem[a].prev
          /\ m2[a].size = mem[a].size
  BY <1>m1, <1>m2
<1>6. Headers(m2) = Headers(mem)
  BY <1>5 DEF Headers
<1>7. Tiled(m2)
  <2>1. \A a \in Headers(mem) : m2[a].size = mem[a].size
    BY <1>5 DEF Headers
  <2> QED
    BY <2>1, <1>1, <1>6, SameTiles
<1>8. IsChain(m2, head2, U \ {ptr})
  <2>1. U \ {ptr} \subseteq Headers(m2)
    BY <1>1, <1>6
  <2>2. \A a \in U \ {ptr} :
            /\ m2[a].next = IF a = mem[ptr].prev THEN mem[ptr].next ELSE mem[a].next
            /\ m2[a].prev = IF a = mem[ptr].next THEN mem[ptr].prev ELSE mem[a].prev
    BY <1>2, <1>5
  <2> QED
    BY <2>1, <2>2, <1>1, RemoveFromChain
<1>9. \A a \in F : m2[a].next = mem[a].next /\ m2[a].prev = mem[a].prev
  BY <1>1, <1>2, <1>5
<1>10. IsChain(m2, free_buf_chain, F)
  BY <1>1, <1>6, <1>9, SameChain
<1>11. Apart(m2, F)
  BY <1>1, <1>2, <1>5, <1>9 DEF Apart
<1>12. Good(m2, free_buf_chain, F, head2, U \ {ptr}, {ptr})
  BY <1>1, <1>m2, <1>6, <1>7, <1>8, <1>10, <1>11 DEF Good
<1> QED
  BY <1>4, <1>5, <1>12

\* The allocated chain stays as it is when other headers are written.
LEMMA OtherChain ==
    ASSUME NEW m, NEW free, NEW F, NEW alloc, NEW U, NEW X,
           Good(m, free, F, alloc, U, X),
           NEW m2, U \subseteq Headers(m2),
           \A a \in U : m2[a].next = m[a].next /\ m2[a].prev = m[a].prev
    PROVE  IsChain(m2, alloc, U)
BY SameChain DEF Good

\* The released buffer is the only free one (do_release()).
LEMMA OnlyGood ==
    ASSUME NEW m, NEW F, NEW alloc, NEW U, NEW ptr,
           Good(m, NULL, F, alloc, U, {ptr})
    PROVE  LET m2 == Put(m, ptr, NULL, NULL, m[ptr].size)
           IN  /\ Good(m2, ptr, {ptr}, alloc, U, {})
               /\ \A a \in Addresses : m2[a].size = m[a].size
<1> DEFINE m2 == Put(m, ptr, NULL, NULL, m[ptr].size)
<1>1. /\ m \in Memories /\ Tiled(m) /\ Headers(m) = F \cup U \cup {ptr}
      /\ U \cap {ptr} = {} /\ IsChain(m, NULL, F)
  BY DEF Good
<1>2. F = {}
  BY <1>1 DEF IsChain, Linked
<1>3. /\ U \subseteq Addresses /\ ptr \in Addresses /\ ptr # NULL
      /\ m[ptr].size \in 0 .. MemSize /\ NULL \in Pointers
  BY GoodIs, NullIs
<1>m2. /\ m2 \in Memories
       /\ \A a \in Addresses :
             /\ m2[a].next = IF a = ptr THEN NULL ELSE m[a].next
             /\ m2[a].prev = IF a = ptr THEN NULL ELSE m[a].prev
             /\ m2[a].size = m[a].size
  BY <1>1, <1>3, PutIs
<1> HIDE DEF m2
<1>4. Headers(m2) = Headers(m)
  BY <1>m2 DEF Headers
<1>5. Tiled(m2)
  <2>1. \A a \in Headers(m) : m2[a].size = m[a].size
    BY <1>m2 DEF Headers
  <2> QED
    BY <2>1, <1>1, <1>4, SameTiles
<1>6. IsChain(m2, ptr, {ptr})
  <2>1. IsChain(m2, ptr, F \cup {ptr})
    <3>1. ptr \notin F /\ ptr \in Headers(m2) /\ F \subseteq Headers(m2)
      BY <1>1, <1>2, <1>4
    <3>2. m2[ptr].next = NULL /\ m2[ptr].prev = NULL
      BY <1>3, <1>m2
    <3>3. \A a \in F : /\ m2[a].next = m[a].next
                       /\ m2[a].prev = IF a = NULL THEN ptr ELSE m[a].prev
      BY <1>2
    <3> QED
      BY <3>1, <3>2, <3>3, <1>1, PushOnChain
  <2> QED
    BY <2>1, <1>2
<1>7. IsChain(m2, alloc, U)
  <2>1. U \subseteq Headers(m2)
    BY <1>1, <1>4
  <2>2. \A a \in U : m2[a].next = m[a].next /\ m2[a].prev = m[a].prev
    BY <1>1, <1>3, <1>m2
  <2> QED
    BY <2>1, <2>2, OtherChain
<1>8. Apart(m2, {ptr})
  BY <1>3, <1>m2 DEF Apart
<1>9. Good(m2, ptr, {ptr}, alloc, U, {})
  BY <1>1, <1>2, <1>m2, <1>4, <1>5, <1>6, <1>7, <1>8 DEF Good
<1> QED
  BY <1>m2, <1>9 DEF m2

\* The released buffer is the first free one, and does not touch the next
\* (do_release()).
LEMMA PrependApart ==
    ASSUME NEW m, NEW F, NEW alloc, NEW U, NEW ptr,
           Good(m, free_buf_chain, F, alloc, U, {ptr}),
           free_buf_chain # NULL, ptr < free_buf_chain,
           ~Touches(m, ptr, free_buf_chain)
    PROVE  /\ Good(Prepend(m, ptr), ptr, F \cup {ptr}, alloc, U, {})
           /\ \A a \in U : Prepend(m, ptr)[a].size = m[a].size
<1> DEFINE f == free_buf_chain
           z == m[ptr].size
           m1 == Put(m, ptr, f, NULL, z)
           m2 == SetPrev(m1, f, ptr)
<1>t. ptr + m[ptr].size # free_buf_chain
  BY DEF Touches
<1>1. /\ m \in Memories /\ Tiled(m) /\ Headers(m) = F \cup U \cup {ptr}
      /\ F \cap U = {} /\ F \cap {ptr} = {} /\ U \cap {ptr} = {}
      /\ IsChain(m, f, F) /\ Apart(m, F)
  BY DEF Good
<1>2. /\ F \cup U \subseteq Addresses /\ NULL \notin F \cup U
      /\ ptr \in Addresses /\ ptr # NULL /\ ptr \in Pointers /\ ptr \in Nat
      /\ f \in F /\ f \in Nat /\ f \in Pointers /\ NULL \in Pointers
      /\ z \in 0 .. MemSize /\ z \in Nat
      /\ (f <= ptr \/ ptr + z <= f)
  BY GoodIs, NullIs
<1>3. Prepend(m, ptr) = m2
  BY <1>t DEF Prepend
<1>m1. /\ m1 \in Memories
       /\ \A a \in Addresses :
             /\ m1[a].next = IF a = ptr THEN f ELSE m[a].next
             /\ m1[a].prev = IF a = ptr THEN NULL ELSE m[a].prev
             /\ m1[a].size = m[a].size
  BY <1>1, <1>2, PutIs
<1> HIDE DEF m1
<1>m2. /\ m2 \in Memories
       /\ \A a \in Addresses :
             /\ m2[a].next = m1[a].next
             /\ m2[a].prev = IF a = f THEN ptr ELSE m1[a].prev
             /\ m2[a].size = m1[a].size
  BY <1>2, <1>m1, SetPrevIs
<1> HIDE DEF m2
<1>4. \A a \in Addresses : m2[a].size = m[a].size
  BY <1>m1, <1>m2
<1>5. Headers(m2) = Headers(m)
  BY <1>4 DEF Headers
<1>6. Tiled(m2)
  <2>1. \A a \in Headers(m) : m2[a].size = m[a].size
    BY <1>4 DEF Headers
  <2> QED
    BY <2>1, <1>1, <1>5, SameTiles
<1>7. m2[ptr].next = f /\ m2[ptr].prev = NULL
  BY <1>1, <1>2, <1>m1, <1>m2
<1>8. \A a \in F : /\ m2[a].next = m[a].next
                   /\ m2[a].prev = IF a = f THEN ptr ELSE m[a].prev
  BY <1>1, <1>2, <1>m1, <1>m2
<1>9. IsChain(m2, ptr, F \cup {ptr})
  <2>1. ptr \notin F /\ ptr \in Headers(m2) /\ F \subseteq Headers(m2)
    BY <1>1, <1>5
  <2> QED
    BY <2>1, <1>1, <1>7, <1>8, PushOnChain
<1>10. IsChain(m2, alloc, U)
  <2>1. U \subseteq Headers(m2)
    BY <1>1, <1>5
  <2>2. \A a \in U : m2[a].next = m[a].next /\ m2[a].prev = m[a].prev
    BY <1>1, <1>2, <1>m1, <1>m2
  <2> QED
    BY <2>1, <2>2, OtherChain
<1>11. Apart(m2, F \cup {ptr})
  <2>1. ptr + m2[ptr].size < m2[ptr].next
    BY <1>t, <1>2, <1>4, <1>7
  <2>2. \A a \in F : m2[a].next # NULL => a + m2[a].size < m2[a].next
    BY <1>1, <1>2, <1>4, <1>8 DEF Apart
  <2> QED
    BY <2>1, <2>2 DEF Apart
<1>12. Good(m2, ptr, F \cup {ptr}, alloc, U, {})
  BY <1>1, <1>m2, <1>5, <1>6, <1>9, <1>10, <1>11 DEF Good
<1> QED
  BY <1>2, <1>3, <1>4, <1>12

\* The released buffer is merged with the first free one (do_release()).
LEMMA PrependMerged ==
    ASSUME NEW m, NEW F, NEW alloc, NEW U, NEW ptr,
           Good(m, free_buf_chain, F, alloc, U, {ptr}),
           free_buf_chain # NULL, ptr < free_buf_chain,
           Touches(m, ptr, free_buf_chain)
    PROVE  /\ Good(Prepend(m, ptr), ptr, (F \ {free_buf_chain}) \cup {ptr},
                   alloc, U, {})
           /\ \A a \in U : Prepend(m, ptr)[a].size = m[a].size
<1> DEFINE f == free_buf_chain
           n == m[f].next
           z == m[ptr].size + m[f].size
           m1 == Put(m, ptr, n, NULL, z)
           m2 == SetPrev(m1, n, ptr)
           m3 == Forget(m2, f)
           F3 == (F \ {f}) \cup {ptr}
<1>t. ptr + m[ptr].size = free_buf_chain
  BY DEF Touches
<1>1. /\ m \in Memories /\ Tiled(m) /\ Headers(m) = F \cup U \cup {ptr}
      /\ F \cap U = {} /\ F \cap {ptr} = {} /\ U \cap {ptr} = {}
      /\ IsChain(m, f, F) /\ Apart(m, F)
  BY DEF Good
<1>2. /\ F \cup U \subseteq Addresses /\ NULL \notin F \cup U
      /\ ptr \in Addresses /\ ptr # NULL /\ ptr \in Pointers /\ ptr \in Nat
      /\ f \in F /\ f \in Nat /\ f \in Addresses /\ NULL \in Pointers
      /\ m[ptr].size \in Nat /\ m[ptr].size > 0
      /\ m[f].size \in Nat /\ m[f].size > 0 /\ f + m[f].size <= MemSize
      /\ n \in F \cup {NULL} /\ n \in Pointers
  BY GoodIs, NullIs
<1>3. z \in 0 .. MemSize /\ z > 0
  BY <1>t, <1>2, SizeFacts
<1>4. Prepend(m, ptr) = m3
  BY <1>t DEF Prepend
<1>5. n # f /\ m[f].prev = NULL
  BY <1>1, <1>2, LinkIs DEF IsChain, Linked
<1> HIDE DEF z, n
<1>m1. /\ m1 \in Memories
       /\ \A a \in Addresses :
             /\ m1[a].next = IF a = ptr THEN n ELSE m[a].next
             /\ m1[a].prev = IF a = ptr THEN NULL ELSE m[a].prev
             /\ m1[a].size = IF a = ptr THEN z ELSE m[a].size
  <2>1. m \in Memories /\ ptr \in Addresses /\ n \in Pointers /\ NULL \in Pointers
        /\ z \in 0 .. MemSize
    BY <1>1, <1>2, <1>3
  <2> QED
    BY <2>1, PutIs
<1> HIDE DEF m1
<1>m2. /\ m2 \in Memories
       /\ \A a \in Addresses :
             /\ m2[a].next = m1[a].next
             /\ m2[a].prev = IF a = n THEN ptr ELSE m1[a].prev
             /\ m2[a].size = m1[a].size
  <2>1. m1 \in Memories /\ n \in Pointers /\ ptr \in Pointers
    BY <1>2, <1>m1
  <2> QED
    BY <2>1, SetPrevIs
<1> HIDE DEF m2
<1>m3. /\ m3 \in Memories /\ m3[f].size = 0
       /\ \A a \in Addresses : a # f => m3[a] = m2[a]
  BY <1>2, <1>m2, ForgetIs
<1> HIDE DEF m3
<1>6. \A a \in Addresses : a # f /\ a # ptr =>
          /\ m3[a].next = m[a].next
          /\ m3[a].prev = IF a = n THEN ptr ELSE m[a].prev
          /\ m3[a].size = m[a].size
  BY <1>m1, <1>m2, <1>m3
<1>7. m3[ptr].next = n /\ m3[ptr].prev = NULL /\ m3[ptr].size = z
  BY <1>1, <1>2, <1>m1, <1>m2, <1>m3
<1>8. Headers(m3) = Headers(m) \ {f}
  <2>1. \A a \in Addresses : m3[a].size # 0 <=> a \in Headers(m) \ {f}
    BY <1>1, <1>2, <1>3, <1>6, <1>7, <1>m3 DEF Headers
  <2> QED
    BY <2>1 DEF Headers
<1>9. Tiled(m3)
  <2>1. ptr \in Headers(m) /\ f \in Headers(m)
    BY <1>1, <1>2
  <2>2. m3[ptr].size = m[ptr].size + m[f].size
    BY <1>7 DEF z
  <2>3. \A a \in Headers(m) \ {ptr, f} : m3[a].size = m[a].size
    BY <1>6 DEF Headers
  <2> QED
    BY <1>t, <2>1, <2>2, <2>3, <1>1, <1>8, MergeTiles
<1>10. IsChain(m3, ptr, F3)
  <2>1. F \ {f} \subseteq Headers(m3) /\ ptr \in Headers(m3) /\ ptr \notin F
    BY <1>1, <1>2, <1>8
  <2>2. \A a \in F \ {f} :
            /\ m3[a].next = IF a = m[f].prev THEN ptr ELSE m[a].next
            /\ m3[a].prev = IF a = m[f].next THEN ptr ELSE m[a].prev
    BY <1>1, <1>2, <1>5, <1>6 DEF n
  <2>3. m3[ptr].next = m[f].next /\ m3[ptr].prev = m[f].prev
    BY <1>5, <1>7 DEF n
  <2>4. IsChain(m3, IF f = f THEN ptr ELSE f, (F \ {f}) \cup {ptr})
    BY <2>1, <2>2, <2>3, <1>1, <1>2, ReplaceInChain
  <2> QED
    BY <2>4
<1>11. IsChain(m3, alloc, U)
  <2>1. U \subseteq Headers(m3)
    BY <1>1, <1>2, <1>8
  <2>2. \A a \in U : m3[a].next = m[a].next /\ m3[a].prev = m[a].prev
    BY <1>1, <1>2, <1>6
  <2> QED
    BY <2>1, <2>2, OtherChain
<1>12. Apart(m3, F3)
  <2>1. n # NULL => ptr + m3[ptr].size < n
    <3> SUFFICES ASSUME n # NULL
                 PROVE  ptr + m3[ptr].size < n
      OBVIOUS
    <3>1. f + m[f].size < n
      BY <1>1, <1>2 DEF Apart, n
    <3>2. ptr + m3[ptr].size = f + m[f].size
      BY <1>t, <1>2, <1>7 DEF z
    <3> QED
      BY <3>1, <3>2
  <2>2. \A a \in F \ {f} : m3[a].next # NULL => a + m3[a].size < m3[a].next
    BY <1>1, <1>2, <1>6 DEF Apart
  <2> QED
    BY <2>1, <2>2, <1>7 DEF Apart
<1>13. Good(m3, ptr, F3, alloc, U, {})
  <2>1. Headers(m3) = F3 \cup U \cup {} /\ F3 \cap U = {}
    BY <1>1, <1>2, <1>8
  <2> QED
    BY <2>1, <1>m3, <1>9, <1>10, <1>11, <1>12 DEF Good
<1> QED
  BY <1>1, <1>2, <1>4, <1>6, <1>13

\* The released buffer comes after pfb in the free chain.
Between(m, F, alloc, U, ptr, pfb) ==
    /\ Good(m, free_buf_chain, F, alloc, U, {ptr})
    /\ pfb \in F /\ pfb < ptr
    /\ m[pfb].next = NULL \/ m[pfb].next >= ptr

\* The released buffer and the free one below it.
LEMMA Neighbours ==
    ASSUME NEW m, NEW F, NEW alloc, NEW U, NEW ptr, NEW pfb,
           Between(m, F, alloc, U, ptr, pfb)
    PROVE  /\ F \cup U \subseteq Addresses /\ NULL \notin F \cup U
           /\ ptr \in Addresses /\ ptr # NULL /\ ptr \in Pointers /\ ptr \in Nat
           /\ m[ptr].size \in 0 .. MemSize /\ m[ptr].size \in Nat
           /\ m[ptr].size > 0 /\ ptr + m[ptr].size <= MemSize
           /\ pfb \in Addresses /\ pfb \in Nat /\ pfb \in Pointers /\ pfb # ptr
           /\ m[pfb].size \in 0 .. MemSize /\ m[pfb].size \in Nat
           /\ m[pfb].size > 0 /\ pfb + m[pfb].size <= ptr
           /\ m[pfb].next \in F \cup {NULL} /\ m[pfb].next \in Pointers
<1>0. /\ Good(m, free_buf_chain, F, alloc, U, {ptr}) /\ pfb \in F /\ pfb < ptr
      /\ (m[pfb].next = NULL \/ m[pfb].next >= ptr)
  BY DEF Between
<1>1. /\ m \in Memories /\ Tiled(m) /\ Headers(m) = F \cup U \cup {ptr}
      /\ F \cap U = {} /\ F \cap {ptr} = {} /\ U \cap {ptr} = {}
      /\ IsChain(m, free_buf_chain, F) /\ Apart(m, F)
  BY <1>0 DEF Good
<1>2. /\ F \cup U \subseteq Addresses /\ NULL \notin F \cup U
      /\ ptr \in Addresses /\ ptr # NULL /\ ptr \in Pointers /\ ptr \in Nat
      /\ m[ptr].size \in 0 .. MemSize /\ m[ptr].size \in Nat /\ m[ptr].size > 0
      /\ ptr + m[ptr].size <= MemSize
  BY <1>0, GoodIs, NullIs
<1>3. /\ pfb \in Addresses /\ pfb \in Nat /\ pfb \in Pointers /\ pfb # ptr
      /\ m[pfb].size \in 0 .. MemSize /\ m[pfb].size \in Nat /\ m[pfb].size > 0
      /\ pfb + m[pfb].size <= ptr
  <2>1. \/ ptr <= pfb
        \/ pfb + m[pfb].size <= ptr
    BY <1>0, GoodIs
  <2> QED
    BY <1>0, <2>1, <1>1, <1>2, GoodIs, NullIs
<1>4. m[pfb].next \in F \cup {NULL} /\ m[pfb].next \in Pointers
  BY <1>0, GoodIs
<1> QED
  BY <1>2, <1>3, <1>4

\* The free buffer above the released one.
LEMMA AboveIs ==
    ASSUME NEW m, NEW F, NEW alloc, NEW U, NEW ptr, NEW pfb,
           Between(m, F, alloc, U, ptr, pfb),
           NEW e \in F, m[pfb].next = e
    PROVE  /\ e \in Nat /\ e \in Addresses /\ e # NULL
           /\ ptr < e /\ ptr + m[ptr].size <= e
           /\ m[e].next \in F \cup {NULL} /\ m[e].next \in Pointers
           /\ m[e].next # e /\ m[e].prev = pfb
           /\ m[e].size \in Nat /\ m[e].size > 0 /\ e + m[e].size <= MemSize
<1>0. /\ Good(m, free_buf_chain, F, alloc, U, {ptr}) /\ pfb \in F /\ pfb < ptr
      /\ (m[pfb].next = NULL \/ m[pfb].next >= ptr)
  BY DEF Between
<1>1. /\ IsChain(m, free_buf_chain, F) /\ ptr \notin F
      /\ ptr \in Nat /\ m[ptr].size \in Nat /\ NULL \notin F
  BY <1>0, Neighbours DEF Good
<1>2. e \in Nat /\ e \in Addresses /\ e # NULL /\ e >= ptr
  BY <1>0, <1>1, GoodIs
<1>3. ptr < e
  BY <1>1, <1>2
<1>4. ptr + m[ptr].size <= e
  <2>1. e <= ptr \/ ptr + m[ptr].size <= e
    BY <1>0, GoodIs
  <2> QED
    BY <2>1, <1>1, <1>2, <1>3
<1>5. m[e].next # e /\ m[e].prev = pfb
  BY <1>0, <1>1, <1>2, LinkIs DEF IsChain, Linked
<1>6. /\ m[e].next \in F \cup {NULL} /\ m[e].next \in Pointers
      /\ m[e].size \in Nat /\ m[e].size > 0 /\ e + m[e].size <= MemSize
  BY <1>0, GoodIs
<1> QED
  BY <1>2, <1>3, <1>4, <1>5, <1>6

\* The released buffer is merged with the one below it (do_release()).
LEMMA InsertBelow ==
    ASSUME NEW m, NEW F, NEW alloc, NEW U, NEW ptr, NEW pfb,
           Between(m, F, alloc, U, ptr, pfb),
           Touches(m, pfb, ptr), ~Touches(m, ptr, m[pfb].next)
    PROVE  /\ Good(Insert(m, ptr, pfb), free_buf_chain, F, alloc, U, {})
           /\ \A a \in U : Insert(m, ptr, pfb)[a].size = m[a].size
<1> DEFINE e == m[pfb].next
           z == m[pfb].size + m[ptr].size
           m1 == [m EXCEPT ![pfb].size = z]
           m2 == Forget(m1, ptr)
<1>t. pfb + m[pfb].size = ptr /\ ptr + m[ptr].size # m[pfb].next
  BY DEF Touches
<1>0. /\ Good(m, free_buf_chain, F, alloc, U, {ptr}) /\ pfb \in F /\ pfb < ptr
      /\ (m[pfb].next = NULL \/ m[pfb].next >= ptr)
  BY DEF Between
<1>1. /\ m \in Memories /\ Tiled(m) /\ Headers(m) = F \cup U \cup {ptr}
      /\ F \cap U = {} /\ F \cap {ptr} = {} /\ U \cap {ptr} = {}
      /\ IsChain(m, free_buf_chain, F) /\ Apart(m, F)
  BY <1>0 DEF Good
<1>2. /\ F \cup U \subseteq Addresses /\ NULL \notin F \cup U
      /\ ptr \in Addresses /\ ptr # NULL /\ ptr \in Pointers /\ ptr \in Nat
      /\ m[ptr].size \in 0 .. MemSize /\ m[ptr].size \in Nat /\ m[ptr].size > 0
      /\ ptr + m[ptr].size <= MemSize
  BY Neighbours
<1>3. /\ pfb \in Addresses /\ pfb \in Nat /\ pfb \in Pointers /\ pfb # ptr
      /\ m[pfb].size \in 0 .. MemSize /\ m[pfb].size \in Nat /\ m[pfb].size > 0
      /\ pfb + m[pfb].size <= ptr
  BY Neighbours
<1>4. /\ e \in F \cup {NULL} /\ e \in Pointers
      /\ e # NULL => /\ e \in Nat /\ ptr < e /\ ptr + m[ptr].size <= e
  <2>1. e \in F \cup {NULL} /\ e \in Pointers
    BY Neighbours
  <2>2. ASSUME e # NULL
        PROVE  e \in Nat /\ ptr < e /\ ptr + m[ptr].size <= e
    <3>1. e \in F
      BY <2>1, <2>2
    <3> QED
      BY <3>1, AboveIs
  <2> QED
    BY <2>1, <2>2
<1>5. z \in 0 .. MemSize /\ z > 0
  BY <1>2, <1>3, SizeFacts
<1>6. Insert(m, ptr, pfb) = m2
  BY <1>t DEF Insert
<1> HIDE DEF z
<1>m1. /\ m1 \in Memories
       /\ \A a \in Addresses :
             /\ m1[a].next = m[a].next /\ m1[a].prev = m[a].prev
             /\ m1[a].size = IF a = pfb THEN z ELSE m[a].size
  BY <1>1, <1>3, <1>5, ResizeIs
<1> HIDE DEF m1
<1>m2. /\ m2 \in Memories /\ m2[ptr].size = 0
       /\ \A a \in Addresses : a # ptr => m2[a] = m1[a]
  BY <1>2, <1>m1, ForgetIs
<1> HIDE DEF m2
<1>7. \A a \in Addresses : a # ptr =>
          /\ m2[a].next = m[a].next /\ m2[a].prev = m[a].prev
          /\ m2[a].size = IF a = pfb THEN z ELSE m[a].size
  BY <1>m1, <1>m2
<1>8. Headers(m2) = Headers(m) \ {ptr}
  <2>1. \A a \in Addresses : m2[a].size # 0 <=> a \in Headers(m) \ {ptr}
    BY <1>1, <1>3, <1>5, <1>7, <1>m2 DEF Headers
  <2> QED
    BY <2>1 DEF Headers
<1>9. Tiled(m2)
  <2>1. pfb \in Headers(m) /\ ptr \in Headers(m)
    BY <1>0, <1>1
  <2>2. m2[pfb].size = m[pfb].size + m[ptr].size
    BY <1>3, <1>7 DEF z
  <2>3. \A a \in Headers(m) \ {pfb, ptr} : m2[a].size = m[a].size
    BY <1>7 DEF Headers
  <2> QED
    BY <1>t, <2>1, <2>2, <2>3, <1>1, <1>8, MergeTiles
<1>10. \A a \in F \cup U : m2[a].next = m[a].next /\ m2[a].prev = m[a].prev
  BY <1>1, <1>2, <1>7
<1>11. F \cup U \subseteq Headers(m2) /\ Headers(m2) = F \cup U
  BY <1>1, <1>8
<1>12. IsChain(m2, free_buf_chain, F)
  BY <1>1, <1>10, <1>11, SameChain
<1>13. IsChain(m2, alloc, U)
  BY <1>10, <1>11, <1>0, OtherChain
<1>14. Apart(m2, F)
  <2> SUFFICES ASSUME NEW a \in F, m2[a].next # NULL
               PROVE  a + m2[a].size < m2[a].next
    BY DEF Apart
  <2>1. CASE a # pfb
    BY <2>1, <1>1, <1>2, <1>7 DEF Apart
  <2>2. CASE a = pfb
    <3>1. m2[a].next = e /\ m2[a].size = m[pfb].size + m[ptr].size
      BY <2>2, <1>3, <1>7 DEF z
    <3> QED
      BY <1>t, <2>2, <3>1, <1>2, <1>3, <1>4
  <2> QED
    BY <2>1, <2>2
<1>15. Good(m2, free_buf_chain, F, alloc, U, {})
  BY <1>1, <1>m2, <1>9, <1>11, <1>12, <1>13, <1>14 DEF Good
<1>16. \A a \in U : m2[a].size = m[a].size
  BY <1>0, <1>1, <1>2, <1>7
<1> QED
  BY <1>6, <1>15, <1>16

\* The released buffer touches no free one (do_release()).
LEMMA InsertApart ==
    ASSUME NEW m, NEW F, NEW alloc, NEW U, NEW ptr, NEW pfb,
           Between(m, F, alloc, U, ptr, pfb),
           ~Touches(m, pfb, ptr), ~Touches(m, ptr, m[pfb].next)
    PROVE  /\ Good(Insert(m, ptr, pfb), free_buf_chain, F \cup {ptr}, alloc, U, {})
           /\ \A a \in U : Insert(m, ptr, pfb)[a].size = m[a].size
<1> DEFINE e == m[pfb].next
           z == m[ptr].size
           m1 == Put(m, ptr, e, pfb, z)
           m2 == SetNext(m1, pfb, ptr)
           m3 == SetPrev(m2, e, ptr)
<1>t. pfb + m[pfb].size # ptr /\ ptr + m[ptr].size # m[pfb].next
  BY DEF Touches
<1>0. /\ Good(m, free_buf_chain, F, alloc, U, {ptr}) /\ pfb \in F /\ pfb < ptr
      /\ (m[pfb].next = NULL \/ m[pfb].next >= ptr)
  BY DEF Between
<1>1. /\ m \in Memories /\ Tiled(m) /\ Headers(m) = F \cup U \cup {ptr}
      /\ F \cap U = {} /\ F \cap {ptr} = {} /\ U \cap {ptr} = {}
      /\ IsChain(m, free_buf_chain, F) /\ Apart(m, F)
  BY <1>0 DEF Good
<1>2. /\ F \cup U \subseteq Addresses /\ NULL \notin F \cup U
      /\ ptr \in Addresses /\ ptr # NULL /\ ptr \in Pointers /\ ptr \in Nat
      /\ m[ptr].size \in 0 .. MemSize /\ m[ptr].size \in Nat /\ m[ptr].size > 0
      /\ ptr + m[ptr].size <= MemSize
  BY Neighbours
<1>3. /\ pfb \in Addresses /\ pfb \in Nat /\ pfb \in Pointers /\ pfb # ptr
      /\ m[pfb].size \in 0 .. MemSize /\ m[pfb].size \in Nat /\ m[pfb].size > 0
      /\ pfb + m[pfb].size <= ptr
  BY Neighbours
<1>4. /\ e \in F \cup {NULL} /\ e \in Pointers
      /\ e # NULL => /\ e \in Nat /\ ptr < e /\ ptr + m[ptr].size <= e
  <2>1. e \in F \cup {NULL} /\ e \in Pointers
    BY Neighbours
  <2>2. ASSUME e # NULL
        PROVE  e \in Nat /\ ptr < e /\ ptr + m[ptr].size <= e
    <3>1. e \in F
      BY <2>1, <2>2
    <3> QED
      BY <3>1, AboveIs
  <2> QED
    BY <2>1, <2>2
<1>5. Insert(m, ptr, pfb) = m3
  BY <1>t DEF Insert
<1> HIDE DEF e
<1>m1. /\ m1 \in Memories
       /\ \A a \in Addresses :
             /\ m1[a].next = IF a = ptr THEN e ELSE m[a].next
             /\ m1[a].prev = IF a = ptr THEN pfb ELSE m[a].prev
             /\ m1[a].size = m[a].size
  <2>1. m \in Memories /\ ptr \in Addresses /\ e \in Pointers /\ pfb \in Pointers
        /\ z \in 0 .. MemSize
    BY <1>1, <1>2, <1>3, <1>4
  <2> QED
    BY <2>1, PutIs
<1> HIDE DEF m1
<1>m2. /\ m2 \in Memories
       /\ \A a \in Addresses :
             /\ m2[a].next = IF a = pfb THEN ptr ELSE m1[a].next
             /\ m2[a].prev = m1[a].prev /\ m2[a].size = m1[a].size
  BY <1>2, <1>3, <1>m1, SetNextIs
<1> HIDE DEF m2
<1>m3. /\ m3 \in Memories
       /\ \A a \in Addresses :
             /\ m3[a].next = m2[a].next
             /\ m3[a].prev = IF a = e THEN ptr ELSE m2[a].prev
             /\ m3[a].size = m2[a].size
  <2>1. m2 \in Memories /\ e \in Pointers /\ ptr \in Pointers
    BY <1>2, <1>4, <1>m2
  <2> QED
    BY <2>1, SetPrevIs
<1> HIDE DEF m3
<1>6. \A a \in Addresses :
          /\ m3[a].size = m[a].size
          /\ a # ptr => /\ m3[a].next = IF a = pfb THEN ptr ELSE m[a].next
                        /\ m3[a].prev = IF a = e THEN ptr ELSE m[a].prev
  BY <1>m1, <1>m2, <1>m3
<1>7. m3[ptr].next = e /\ m3[ptr].prev = pfb
  BY <1>1, <1>2, <1>3, <1>4, <1>m1, <1>m2, <1>m3
<1>8. Headers(m3) = Headers(m)
  BY <1>6 DEF Headers
<1>9. Tiled(m3)
  <2>1. \A a \in Headers(m) : m3[a].size = m[a].size
    BY <1>6 DEF Headers
  <2> QED
    BY <2>1, <1>1, <1>8, SameTiles
<1>10. IsChain(m3, free_buf_chain, F \cup {ptr})
  <2>1. ptr \notin F /\ ptr \in Headers(m3) /\ F \subseteq Headers(m3)
    BY <1>1, <1>8
  <2>2. \A a \in F :
            /\ m3[a].next = IF a = pfb THEN ptr ELSE m[a].next
            /\ m3[a].prev = IF a = m[pfb].next THEN ptr ELSE m[a].prev
    BY <1>1, <1>2, <1>6 DEF e
  <2>3. m3[ptr].next = m[pfb].next /\ m3[ptr].prev = pfb
    BY <1>7 DEF e
  <2> QED
    BY <1>0, <2>1, <2>2, <2>3, <1>1, InsertInChain
<1>11. IsChain(m3, alloc, U)
  <2>1. U \subseteq Headers(m3)
    BY <1>1, <1>8
  <2>2. \A a \in U : m3[a].next = m[a].next /\ m3[a].prev = m[a].prev
    <3>1. \A a \in U : a \in Addresses /\ a # ptr /\ a # pfb /\ a # e
      BY <1>0, <1>1, <1>2, <1>4
    <3> QED
      BY <3>1, <1>6
  <2> QED
    BY <2>1, <2>2, <1>0, OtherChain
<1>12. Apart(m3, F \cup {ptr})
  <2> SUFFICES ASSUME NEW a \in F \cup {ptr}, m3[a].next # NULL
               PROVE  a + m3[a].size < m3[a].next
    BY DEF Apart
  <2>1. CASE a = ptr
    BY <1>t, <2>1, <1>2, <1>4, <1>6, <1>7 DEF e
  <2>2. CASE a = pfb
    BY <1>t, <2>2, <1>2, <1>3, <1>6
  <2>3. CASE a \in F /\ a # pfb
    BY <2>3, <1>1, <1>2, <1>6 DEF Apart
  <2> QED
    BY <2>1, <2>2, <2>3
<1>13. Good(m3, free_buf_chain, F \cup {ptr}, alloc, U, {})
  BY <1>1, <1>m3, <1>8, <1>9, <1>10, <1>11, <1>12 DEF Good
<1>14. \A a \in U : m3[a].size = m[a].size
  BY <1>2, <1>6
<1> QED
  BY <1>5, <1>13, <1>14

\* The released buffer is merged with the one above it (do_release()).
LEMMA InsertAbove ==
    ASSUME NEW m, NEW F, NEW alloc, NEW U, NEW ptr, NEW pfb,
           Between(m, F, alloc, U, ptr, pfb),
           ~Touches(m, pfb, ptr), Touches(m, ptr, m[pfb].next)
    PROVE  /\ \E F2 : Good(Insert(m, ptr, pfb), free_buf_chain, F2, alloc, U, {})
           /\ \A a \in U : Insert(m, ptr, pfb)[a].size = m[a].size
<1> DEFINE e == m[pfb].next
           n == m[e].next
           z == m[ptr].size + m[e].size
           m1 == Put(m, ptr, n, pfb, z)
           m2 == SetNext(m1, pfb, ptr)
           m3 == SetPrev(m2, n, ptr)
           m4 == Forget(m3, e)
           F4 == (F \ {e}) \cup {ptr}
<1>t. pfb + m[pfb].size # ptr /\ ptr + m[ptr].size = m[pfb].next
  BY DEF Touches
<1>i. Insert(m, ptr, pfb) = m4
  BY <1>t DEF Insert
<1>0. Good(m, free_buf_chain, F, alloc, U, {ptr}) /\ pfb \in F
  BY DEF Between
<1>1. /\ m \in Memories /\ Tiled(m) /\ Headers(m) = F \cup U \cup {ptr}
      /\ F \cap U = {} /\ F \cap {ptr} = {} /\ U \cap {ptr} = {}
      /\ IsChain(m, free_buf_chain, F) /\ Apart(m, F)
  BY <1>0 DEF Good
<1>2. /\ F \cup U \subseteq Addresses /\ NULL \notin F \cup U
      /\ ptr \in Addresses /\ ptr # NULL /\ ptr \in Pointers /\ ptr \in Nat
      /\ m[ptr].size \in 0 .. MemSize /\ m[ptr].size \in Nat /\ m[ptr].size > 0
  BY Neighbours
<1>3. /\ pfb \in Addresses /\ pfb \in Nat /\ pfb \in Pointers /\ pfb # ptr
      /\ m[pfb].size \in 0 .. MemSize /\ m[pfb].size \in Nat /\ m[pfb].size > 0
      /\ pfb + m[pfb].size <= ptr
  BY Neighbours
<1>e. e \in F /\ m[pfb].next = e
  <2>1. m[pfb].next \in F \cup {NULL}
    BY Neighbours
  <2>2. ptr + m[ptr].size # NULL
    BY <1>2 DEF NULL
  <2> QED
    BY <1>t, <2>1, <2>2
<1> HIDE DEF e
<1>4. /\ e \in Nat /\ e \in Addresses /\ e # NULL /\ ptr < e
      /\ m[e].prev = pfb /\ m[e].size \in Nat /\ m[e].size > 0
      /\ e + m[e].size <= MemSize
  BY <1>e, AboveIs
<1>5. n \in F \cup {NULL} /\ n \in Pointers /\ n # e
  BY <1>e, AboveIs
<1>h. free_buf_chain # e
  BY <1>1, <1>2, <1>3, <1>4, <1>0 DEF IsChain, Linked
<1>6. z \in 0 .. MemSize /\ z > 0 /\ ptr + m[ptr].size = e
  BY <1>t, <1>2, <1>4, <1>e, SizeFacts
<1> HIDE DEF z, n
<1>m1. /\ m1 \in Memories
       /\ \A a \in Addresses :
             /\ m1[a].next = IF a = ptr THEN n ELSE m[a].next
             /\ m1[a].prev = IF a = ptr THEN pfb ELSE m[a].prev
             /\ m1[a].size = IF a = ptr THEN z ELSE m[a].size
  <2>1. m \in Memories /\ ptr \in Addresses /\ n \in Pointers /\ pfb \in Pointers
        /\ z \in 0 .. MemSize
    BY <1>1, <1>2, <1>3, <1>5, <1>6
  <2> QED
    BY <2>1, PutIs
<1> HIDE DEF m1
<1>m2. /\ m2 \in Memories
       /\ \A a \in Addresses :
             /\ m2[a].next = IF a = pfb THEN ptr ELSE m1[a].next
             /\ m2[a].prev = m1[a].prev /\ m2[a].size = m1[a].size
  <2>1. m1 \in Memories /\ pfb \in Pointers /\ ptr \in Pointers
    BY <1>2, <1>3, <1>m1
  <2> QED
    BY <2>1, SetNextIs
<1> HIDE DEF m2
<1>m3. /\ m3 \in Memories
       /\ \A a \in Addresses :
             /\ m3[a].next = m2[a].next
             /\ m3[a].prev = IF a = n THEN ptr ELSE m2[a].prev
             /\ m3[a].size = m2[a].size
  <2>1. m2 \in Memories /\ n \in Pointers /\ ptr \in Pointers
    BY <1>2, <1>5, <1>m2
  <2> QED
    BY <2>1, SetPrevIs
<1> HIDE DEF m3
<1>m4. /\ m4 \in Memories /\ m4[e].size = 0
       /\ \A a \in Addresses : a # e => m4[a] = m3[a]
  BY <1>4, <1>m3, ForgetIs
<1> HIDE DEF m4
<1>7. \A a \in Addresses : a # e /\ a # ptr =>
          /\ m4[a].next = IF a = pfb THEN ptr ELSE m[a].next
          /\ m4[a].prev = IF a = n THEN ptr ELSE m[a].prev
          /\ m4[a].size = m[a].size
  BY <1>m1, <1>m2, <1>m3, <1>m4
<1>8. m4[ptr].next = n /\ m4[ptr].prev = pfb /\ m4[ptr].size = z
  <2>1. ptr # e /\ ptr # n /\ ptr # pfb
    BY <1>1, <1>2, <1>3, <1>4, <1>5
  <2> QED
    BY <2>1, <1>2, <1>m1, <1>m2, <1>m3, <1>m4
<1>9. Headers(m4) = Headers(m) \ {e}
  <2>1. \A a \in Addresses : m4[a].size # 0 <=> a \in Headers(m) \ {e}
    BY <1>1, <1>2, <1>4, <1>6, <1>7, <1>8, <1>m4 DEF Headers
  <2> QED
    BY <2>1 DEF Headers
<1>10. Tiled(m4)
  <2>1. ptr \in Headers(m) /\ e \in Headers(m)
    BY <1>1, <1>e
  <2>2. m4[ptr].size = m[ptr].size + m[e].size
    BY <1>8 DEF z
  <2>3. \A a \in Headers(m) \ {ptr, e} : m4[a].size = m[a].size
    BY <1>7 DEF Headers
  <2> QED
    BY <2>1, <2>2, <2>3, <1>1, <1>6, <1>9, MergeTiles
<1>11. IsChain(m4, free_buf_chain, F4)
  <2>1. F \ {e} \subseteq Headers(m4) /\ ptr \in Headers(m4) /\ ptr \notin F
    BY <1>1, <1>2, <1>4, <1>9
  <2>2. \A a \in F \ {e} :
            /\ m4[a].next = IF a = m[e].prev THEN ptr ELSE m[a].next
            /\ m4[a].prev = IF a = m[e].next THEN ptr ELSE m[a].prev
    BY <1>1, <1>2, <1>4, <1>7 DEF n
  <2>3. m4[ptr].next = m[e].next /\ m4[ptr].prev = m[e].prev
    BY <1>4, <1>8 DEF n
  <2>4. IsChain(m4, IF e = free_buf_chain THEN ptr ELSE free_buf_chain,
                (F \ {e}) \cup {ptr})
    BY <1>t, <2>1, <2>2, <2>3, <1>1, <1>e, ReplaceInChain
  <2> QED
    BY <2>4, <1>h
<1>12. IsChain(m4, alloc, U)
  <2>1. U \subseteq Headers(m4)
    BY <1>1, <1>e, <1>9
  <2>2. \A a \in U : a \in Addresses /\ a # e /\ a # ptr /\ a # pfb /\ a # n
    BY <1>0, <1>1, <1>2, <1>5, <1>e
  <2>3. \A a \in U : m4[a].next = m[a].next /\ m4[a].prev = m[a].prev
    BY <2>2, <1>7
  <2> QED
    BY <2>1, <2>3, <1>0, OtherChain
<1>13. Apart(m4, F4)
  <2> SUFFICES ASSUME NEW a \in F4, m4[a].next # NULL
               PROVE  a + m4[a].size < m4[a].next
    BY DEF Apart
  <2>1. CASE a = ptr
    <3>1. n # NULL /\ m4[a].next = n /\ ptr + m4[a].size = e + m[e].size
      BY <2>1, <1>2, <1>4, <1>6, <1>8 DEF z
    <3>2. e + m[e].size < n
      BY <3>1, <1>1, <1>e DEF Apart, n
    <3> QED
      BY <2>1, <3>1, <3>2
  <2>2. CASE a = pfb
    BY <1>t, <2>2, <1>2, <1>3, <1>4, <1>7
  <2>3. CASE a \in F \ {e} /\ a # pfb
    BY <2>3, <1>1, <1>2, <1>7 DEF Apart
  <2> QED
    BY <2>1, <2>2, <2>3
<1>14. Good(m4, free_buf_chain, F4, alloc, U, {})
  <2>1. Headers(m4) = F4 \cup U \cup {} /\ F4 \cap U = {}
    BY <1>1, <1>4, <1>e, <1>9
  <2> QED
    BY <2>1, <1>m4, <1>10, <1>11, <1>12, <1>13 DEF Good
<1>15. \A a \in U : m4[a].size = m[a].size
  BY <1>1, <1>2, <1>7, <1>e
<1> HIDE DEF F4
<1> QED
  BY <1>i, <1>14, <1>15

\* The released buffer fills the gap between two free ones (do_release()).
LEMMA InsertBoth ==
    ASSUME NEW m, NEW F, NEW alloc, NEW U, NEW ptr, NEW pfb,
           Between(m, F, alloc, U, ptr, pfb),
           Touches(m, pfb, ptr), Touches(m, ptr, m[pfb].next)
    PROVE  /\ \E F2 : Good(Insert(m, ptr, pfb), free_buf_chain, F2, alloc, U, {})
           /\ \A a \in U : Insert(m, ptr, pfb)[a].size = m[a].size
<1> DEFINE e == m[pfb].next
           n == m[e].next
           p == m[pfb].prev
           y == m[pfb].size + m[ptr].size
           z == m[pfb].size + m[ptr].size + m[e].size
           r1 == [m EXCEPT ![pfb].size = y]
           r2 == Forget(r1, ptr)
           m1 == Put(m, pfb, n, p, z)
           m2 == SetPrev(m1, n, pfb)
           m3 == Forget(m2, e)
           m4 == Forget(m3, ptr)
           F4 == F \ {e}
<1>t. pfb + m[pfb].size = ptr /\ ptr + m[ptr].size = m[pfb].next
  BY DEF Touches
<1>i. Insert(m, ptr, pfb) = m4
  BY <1>t DEF Insert
<1>0. Good(m, free_buf_chain, F, alloc, U, {ptr}) /\ pfb \in F
  BY DEF Between
<1>1. /\ m \in Memories /\ Tiled(m) /\ Headers(m) = F \cup U \cup {ptr}
      /\ F \cap U = {} /\ F \cap {ptr} = {} /\ U \cap {ptr} = {}
      /\ IsChain(m, free_buf_chain, F) /\ Apart(m, F)
  BY <1>0 DEF Good
<1>2. /\ F \cup U \subseteq Addresses /\ NULL \notin F \cup U
      /\ ptr \in Addresses /\ ptr # NULL /\ ptr \in Pointers /\ ptr \in Nat
      /\ m[ptr].size \in 0 .. MemSize /\ m[ptr].size \in Nat /\ m[ptr].size > 0
  BY Neighbours
<1>3. /\ pfb \in Addresses /\ pfb \in Nat /\ pfb \in Pointers /\ pfb # ptr
      /\ m[pfb].size \in 0 .. MemSize /\ m[pfb].size \in Nat /\ m[pfb].size > 0
      /\ pfb + m[pfb].size <= ptr
  BY Neighbours
<1>e. e \in F /\ m[pfb].next = e
  <2>1. m[pfb].next \in F \cup {NULL}
    BY Neighbours
  <2>2. ptr + m[ptr].size # NULL
    BY <1>2 DEF NULL
  <2> QED
    BY <1>t, <2>1, <2>2
<1> HIDE DEF e
<1>4. /\ e \in Nat /\ e \in Addresses /\ e # NULL /\ ptr < e
      /\ m[e].prev = pfb /\ m[e].size \in Nat /\ m[e].size > 0
      /\ e + m[e].size <= MemSize
  BY <1>e, AboveIs
<1>5. n \in F \cup {NULL} /\ n \in Pointers /\ n # e
  BY <1>e, AboveIs
<1>h. free_buf_chain # e
  BY <1>1, <1>2, <1>3, <1>4, <1>0 DEF IsChain, Linked
<1>6. /\ y \in 0 .. MemSize /\ y \in Nat /\ y > 0 /\ z = y + m[e].size
      /\ z \in 0 .. MemSize /\ z > 0 /\ ptr + m[ptr].size = e
      /\ pfb + y = e /\ pfb < e
  BY <1>t, <1>2, <1>3, <1>4, <1>e, SizeFacts
<1>7. p \in F \cup {NULL} /\ p \in Pointers /\ n # pfb
  <2>1. p \in F \cup {NULL} /\ p \in Pointers
    BY <1>0, GoodIs
  <2>2. n # NULL => e + m[e].size < n
    BY <1>1, <1>e DEF Apart
  <2>3. n = pfb => n # NULL
    BY <1>0, <1>2
  <2> QED
    BY <2>1, <2>2, <2>3, <1>3, <1>4, <1>6
<1> HIDE DEF y, z, n, p
<1>r1. /\ r1 \in Memories
       /\ \A a \in Addresses : r1[a].size = IF a = pfb THEN y ELSE m[a].size
  BY <1>1, <1>3, <1>6, ResizeIs
<1> HIDE DEF r1
<1>r2. /\ r2 \in Memories /\ r2[ptr].size = 0
       /\ \A a \in Addresses : a # ptr => r2[a] = r1[a]
  BY <1>2, <1>r1, ForgetIs
<1> HIDE DEF r2
<1>8. Headers(r2) = Headers(m) \ {ptr} /\ Tiled(r2)
  <2>1. \A a \in Addresses : r2[a].size # 0 <=> a \in Headers(m) \ {ptr}
    BY <1>1, <1>0, <1>3, <1>6, <1>r1, <1>r2 DEF Headers
  <2>2. Headers(r2) = Headers(m) \ {ptr}
    BY <2>1 DEF Headers
  <2>3. pfb \in Headers(m) /\ ptr \in Headers(m)
    BY <1>0, <1>1
  <2>4. r2[pfb].size = m[pfb].size + m[ptr].size
    BY <1>3, <1>r1, <1>r2 DEF y
  <2>5. \A a \in Headers(m) \ {pfb, ptr} : r2[a].size = m[a].size
    BY <1>r1, <1>r2 DEF Headers
  <2> QED
    BY <1>t, <2>2, <2>3, <2>4, <2>5, <1>1, MergeTiles
<1>m1. /\ m1 \in Memories
       /\ \A a \in Addresses :
             /\ m1[a].next = IF a = pfb THEN n ELSE m[a].next
             /\ m1[a].prev = IF a = pfb THEN p ELSE m[a].prev
             /\ m1[a].size = IF a = pfb THEN z ELSE m[a].size
  <2>1. m \in Memories /\ pfb \in Addresses /\ n \in Pointers /\ p \in Pointers
        /\ z \in 0 .. MemSize
    BY <1>1, <1>3, <1>5, <1>6, <1>7
  <2> QED
    BY <2>1, PutIs
<1> HIDE DEF m1
<1>m2. /\ m2 \in Memories
       /\ \A a \in Addresses :
             /\ m2[a].next = m1[a].next
             /\ m2[a].prev = IF a = n THEN pfb ELSE m1[a].prev
             /\ m2[a].size = m1[a].size
  <2>1. m1 \in Memories /\ n \in Pointers /\ pfb \in Pointers
    BY <1>3, <1>5, <1>m1
  <2> QED
    BY <2>1, SetPrevIs
<1> HIDE DEF m2
<1>m3. /\ m3 \in Memories /\ m3[e].size = 0
       /\ \A a \in Addresses : a # e => m3[a] = m2[a]
  BY <1>4, <1>m2, ForgetIs
<1> HIDE DEF m3
<1>m4. /\ m4 \in Memories /\ m4[ptr].size = 0
       /\ \A a \in Addresses : a # ptr => m4[a] = m3[a]
  BY <1>2, <1>m3, ForgetIs
<1> HIDE DEF m4
<1>9. \A a \in Addresses : a # e /\ a # ptr =>
          /\ m4[a].next = IF a = pfb THEN n ELSE m[a].next
          /\ m4[a].prev = IF a = n THEN pfb ELSE m[a].prev
          /\ m4[a].size = IF a = pfb THEN z ELSE m[a].size
  BY <1>m1, <1>m2, <1>m3, <1>m4 DEF p
<1>10. m4[e].size = 0 /\ e # ptr
  BY <1>4, <1>2, <1>m3, <1>m4
<1>11. Headers(m4) = Headers(r2) \ {e}
  <2>1. \A a \in Addresses : m4[a].size # 0 <=> a \in (Headers(m) \ {ptr}) \ {e}
    BY <1>0, <1>1, <1>3, <1>6, <1>9, <1>10, <1>m4 DEF Headers
  <2> QED
    BY <2>1, <1>8 DEF Headers
<1>12. Tiled(m4)
  <2>1. pfb \in Headers(r2) /\ e \in Headers(r2)
    BY <1>0, <1>1, <1>3, <1>8, <1>10, <1>e
  <2>2. r2[pfb].size = y /\ r2[e].size = m[e].size
    BY <1>3, <1>4, <1>6, <1>10, <1>r1, <1>r2
  <2>3. m4[pfb].size = r2[pfb].size + r2[e].size /\ pfb + r2[pfb].size = e
    BY <2>2, <1>3, <1>4, <1>6, <1>9
  <2>4. \A a \in Headers(r2) \ {pfb, e} : m4[a].size = r2[a].size
    BY <1>8, <1>9, <1>r1, <1>r2 DEF Headers
  <2> QED
    BY <2>1, <2>3, <2>4, <1>8, <1>11, <1>r2, MergeTiles
<1>13. IsChain(m4, free_buf_chain, F4)
  <2>1. F \ {e} \subseteq Headers(m4)
    BY <1>1, <1>8, <1>11
  <2>2. \A a \in F \ {e} :
            /\ m4[a].next = IF a = m[e].prev THEN m[e].next ELSE m[a].next
            /\ m4[a].prev = IF a = m[e].next THEN m[e].prev ELSE m[a].prev
    BY <1>1, <1>2, <1>4, <1>9 DEF n
  <2>3. IsChain(m4, IF e = free_buf_chain THEN m[e].next ELSE free_buf_chain,
                F \ {e})
    <3>1. e \in F /\ IsChain(m, free_buf_chain, F)
      BY <1>1, <1>e
    <3> QED
      BY <3>1, <2>1, <2>2, RemoveFromChain
  <2> QED
    BY <2>3, <1>h
<1>14. \A a \in U : a \in Addresses /\ a # e /\ a # ptr /\ a # pfb /\ a # n
  BY <1>0, <1>1, <1>2, <1>5, <1>e
<1>15. IsChain(m4, alloc, U)
  <2>1. U \subseteq Headers(m4)
    BY <1>1, <1>8, <1>11, <1>14
  <2>2. \A a \in U : m4[a].next = m[a].next /\ m4[a].prev = m[a].prev
    BY <1>9, <1>14
  <2> QED
    BY <2>1, <2>2, <1>0, OtherChain
<1>16. Apart(m4, F4)
  <2> SUFFICES ASSUME NEW a \in F4, m4[a].next # NULL
               PROVE  a + m4[a].size < m4[a].next
    BY DEF Apart
  <2>1. CASE a = pfb
    <3>1. n # NULL /\ m4[a].next = n /\ m4[a].size = y + m[e].size
      BY <2>1, <1>3, <1>6, <1>9
    <3>2. e + m[e].size < n
      BY <3>1, <1>1, <1>e DEF Apart, n
    <3> QED
      BY <2>1, <3>1, <3>2, <1>3, <1>4, <1>6
  <2>2. CASE a # pfb
    <3>1. a \in F /\ a \in Addresses /\ a # e /\ a # ptr
      BY <1>1, <1>2
    <3>2. m4[a].next = m[a].next /\ m4[a].size = m[a].size
      BY <3>1, <2>2, <1>9
    <3> QED
      BY <3>1, <3>2, <1>1 DEF Apart
  <2> QED
    BY <2>1, <2>2
<1>17. Good(m4, free_buf_chain, F4, alloc, U, {})
  <2>1. Headers(m4) = F4 \cup U \cup {} /\ F4 \cap U = {}
    BY <1>1, <1>8, <1>11, <1>14
  <2> QED
    BY <2>1, <1>m4, <1>12, <1>13, <1>15, <1>16 DEF Good
<1>18. \A a \in U : m4[a].size = m[a].size
  BY <1>9, <1>14
<1> HIDE DEF F4
<1> QED
  BY <1>i, <1>17, <1>18

-----------------------------------------------------------------------------
(* Merging *)

\* No free buffer ends where another begins, next on the chain or not.
LEMMA NoneTouch ==
    ASSUME NEW m, NEW free, NEW F, NEW alloc, NEW U, NEW X,
           Good(m, free, F, alloc, U, X), NEW a \in F, NEW b \in F
    PROVE  ~Touches(m, a, b)
<1> SUFFICES ASSUME Touches(m, a, b)
             PROVE  FALSE
  OBVIOUS
<1> DEFINE T == {a} \cup {d \in F : b < d}
<1>1. /\ m \in Memories /\ IsChain(m, free, F) /\ Apart(m, F)
      /\ F \subseteq Headers(m)
  BY DEF Good
<1>2. \A d \in F : d \in Nat /\ m[d].size \in Nat /\ m[d].size > 0
                   /\ m[d].next \in F \cup {NULL}
  BY GoodIs, SizeFacts
<1>3. a < b /\ a + m[a].size = b /\ a \in Nat /\ b \in Nat
  BY <1>2 DEF Touches
<1>4. b \in Chain(m, a)
  BY <1>1, <1>3, InOrder
<1>5. T \in SUBSET Headers(m)
  BY <1>1
<1>6. \A d \in T : m[d].next \in Headers(m) => m[d].next \in T
  <2> SUFFICES ASSUME NEW d \in T, m[d].next \in Headers(m)
               PROVE  m[d].next \in T
    OBVIOUS
  <2>1. d \in F /\ m[d].next # NULL
    BY HeaderIs
  <2>2. m[d].next \in F /\ d + m[d].size < m[d].next
    BY <2>1, <1>1, <1>2 DEF Apart
  <2>n. m[d].next \in Nat /\ d \in Nat /\ m[d].size \in Nat
    BY <2>1, <2>2, <1>2
  <2>3. b < m[d].next
    <3>1. CASE d = a
      BY <3>1, <2>2, <1>3
    <3>2. CASE d # a
      <4>1. b < d
        BY <3>2
      <4> QED
        BY <4>1, <2>2, <2>n, <1>3
    <3> QED
      BY <3>1, <3>2
  <2> QED
    BY <2>2, <2>3
<1>7. b \notin T
  BY <1>3
<1>8. a \in T
  OBVIOUS
<1> HIDE DEF T
<1>9. Chain(m, a) \subseteq T
  BY <1>5, <1>6, <1>8, ChainIs
<1> QED
  BY <1>4, <1>7, <1>9

\* If all buffers are free, there is only one, which is all of the memory.
LEMMA WholeAgain ==
    ASSUME NEW m, NEW free, NEW F, NEW alloc, Good(m, free, F, alloc, {}, {})
    PROVE  F = {0} /\ m[0].size = MemSize
<1>1. m \in Memories /\ Tiled(m) /\ Headers(m) = F
  BY DEF Good
<1>2. 0 \in F /\ 0 + m[0].size \in F \cup {MemSize}
  BY <1>1 DEF Tiled
<1>3. 0 + m[0].size \notin F
  BY <1>2, NoneTouch DEF Touches
<1>4. m[0].size \in Nat
  BY <1>1, <1>2, TileIs
<1>5. m[0].size = MemSize
  BY <1>2, <1>3, <1>4
<1>6. \A b \in F : b \in Nat /\ b < MemSize /\ (b <= 0 \/ 0 + m[0].size <= b)
  BY <1>1, <1>2, TileIs
<1> QED
  BY <1>2, <1>5, <1>6, SizeFacts

-----------------------------------------------------------------------------
(* The invariant *)

\* Both chains are linked, disjoint and fill the memory; what was handed out
\* is the allocated chain, in which every request has the room it asked for.
IInv ==
    /\ TypeOK
    /\ Good(mem, free_buf_chain, FreeBufs, allocced_buf_chain, AllocBufs, {})
    /\ AllocBufs = Held
    /\ \A a \in Held : asked[a] \in Requests /\ asked[a] + Header <= mem[a].size

\* The chains are the sets that Good speaks of.
LEMMA GoodSets ==
    ASSUME NEW m, NEW free, NEW F, NEW alloc, NEW U, NEW X,
           Good(m, free, F, alloc, U, X)
    PROVE  Chain(m, free) = F /\ Chain(m, alloc) = U
BY DEF Good, IsChain

\* The only buffer of shared_mem_init() is free and is all of the memory.
LEMMA InitInv == Init => IInv
<1> SUFFICES ASSUME Init
             PROVE  IInv
  OBVIOUS
<1>1. 0 \in Addresses /\ 0 # NULL /\ 0 \in Pointers
  BY SizesAssumption, NullIs DEF Addresses, NULL
<1>2. /\ mem \in Memories
      /\ \A a \in Addresses : /\ mem[a].next = NULL /\ mem[a].prev = NULL
                              /\ mem[a].size = IF a = 0 THEN MemSize ELSE 0
  BY <1>1, NullIs, SizeFacts DEF Init, NoHeader, Memories
<1>3. free_buf_chain = 0 /\ allocced_buf_chain = NULL
  BY DEF Init
<1>4. Headers(mem) = {0}
  BY <1>1, <1>2, SizeFacts DEF Headers
<1>5. Tiled(mem)
  BY <1>1, <1>2, <1>4, SizesAssumption DEF Tiled
<1>6. IsChain(mem, 0, {0})
  <2>1. Linked(mem, 0, {0})
    BY <1>1, <1>2 DEF Linked
  <2> QED
    BY <2>1, <1>1, <1>4, IsTheChain
<1>7. IsChain(mem, NULL, {})
  <2>1. Linked(mem, NULL, {})
    BY DEF Linked
  <2> QED
    BY <2>1, IsTheChain
<1>8. Good(mem, 0, {0}, NULL, {}, {})
  <2>1. Apart(mem, {0})
    BY <1>1, <1>2 DEF Apart
  <2> QED
    BY <2>1, <1>2, <1>4, <1>5, <1>6, <1>7 DEF Good
<1>9. FreeBufs = {0} /\ AllocBufs = {}
  BY <1>3, <1>8, GoodSets DEF FreeBufs, AllocBufs
<1>10. Held = {}
  BY DEF Init, Held
<1>11. TypeOK
  BY <1>1, <1>2, NullIs DEF TypeOK, Init, Memories, Pointers, Idle
<1> QED
  BY <1>3, <1>8, <1>9, <1>10, <1>11 DEF IInv

\* What shared_mem_acquire() does when it finds a buffer: the buffer moves from
\* the free chain to the allocated one, and is large enough.
LEMMA AcquireStep ==
    ASSUME IInv, NEW t \in Tasks, shared_mem_acquire(t),
           NEW c, c = Candidate(RoundUp(pc[t])), c # NULL
    PROVE  /\ pc[t] \in Requests
           /\ c \in FreeBufs
           /\ \E F : Good(mem', free_buf_chain', F, c, AllocBufs \cup {c}, {})
           /\ allocced_buf_chain' = c
           /\ asked' = [asked EXCEPT ![c] = pc[t]]
           /\ mem'[c].size \in Nat /\ pc[t] + Header <= mem'[c].size
           /\ \A a \in AllocBufs : mem'[a].size = mem[a].size
<1> DEFINE size == RoundUp(pc[t])
           rest == Take(c, size)
           U == AllocBufs
<1>1. pc[t] \in Requests
  BY DEF IInv, TypeOK, shared_mem_acquire, Idle
<1>2. /\ size \in Nat /\ size >= pc[t] + Header /\ size > Header
      /\ size % Word = 0 /\ pc[t] \in Nat
  BY <1>1, RoundUpIs, SizeFacts
<1>3. Good(mem, free_buf_chain, FreeBufs, allocced_buf_chain, U, {})
  BY DEF IInv
<1>4. c \in FreeBufs /\ mem[c].size >= size
  BY <1>2, <1>3, CandidateIs
<1>5. c \in Addresses /\ mem[c].size \in Nat /\ U \subseteq Addresses
  BY <1>3, <1>4, GoodIs
<1>6. /\ mem' = Pushed(rest.m, allocced_buf_chain, c)
      /\ free_buf_chain' = rest.head
      /\ allocced_buf_chain' = c
      /\ asked' = [asked EXCEPT ![c] = pc[t]]
  BY DEF shared_mem_acquire, Pushed
<1>7. /\ \E F : Good(rest.m, rest.head, F, allocced_buf_chain, U, {c})
      /\ rest.m[c].size \in Nat /\ rest.m[c].size >= size
      /\ \A a \in U : rest.m[a].size = mem[a].size
  <2>1. CASE mem[c].size - size <= Header
    <3>1. rest = TakeAll(c)
      BY <2>1 DEF Take
    <3>2. /\ Good(TakeAll(c).m, TakeAll(c).head, FreeBufs \ {c},
                  allocced_buf_chain, U, {c})
          /\ \A a \in Addresses : TakeAll(c).m[a].size = mem[a].size
      BY <1>3, <1>4, TakeAllGood
    <3> QED
      BY <3>1, <3>2, <1>4, <1>5
  <2>2. CASE ~(mem[c].size - size <= Header)
    <3>1. rest = Split(c, size)
      BY <2>2 DEF Take
    <3>2. HasTail(c, size)
      BY <2>2, <1>2, <1>5, SizeFacts DEF HasTail
    <3>3. /\ \E F : Good(Split(c, size).m, Split(c, size).head, F,
                         allocced_buf_chain, U, {c})
          /\ Cut(Split(c, size).m, c, size, U)
      <4> HIDE DEF size, U
      <4>1. HasTail(c, size) /\ c \in FreeBufs
            /\ Good(mem, free_buf_chain, FreeBufs, allocced_buf_chain, U, {})
        BY <3>2, <1>3, <1>4
      <4>2. \E F : Good(Split(c, size).m, Split(c, size).head, F,
                        allocced_buf_chain, U, {c})
        BY ONLY <4>1, SplitGood
      <4>3. Cut(Split(c, size).m, c, size, U)
        BY ONLY <4>1, SplitGood
      <4> QED
        BY <4>2, <4>3
    <3> QED
      BY <3>1, <3>3, <1>2 DEF Cut
  <2> QED
    BY <2>1, <2>2
<1> HIDE DEF rest, size, U
<1>8. PICK F : Good(rest.m, rest.head, F, allocced_buf_chain, U, {c})
  BY <1>7
<1>9. /\ Good(mem', rest.head, F, c, U \cup {c}, {})
      /\ \A a \in Addresses : mem'[a].size = rest.m[a].size
  BY <1>6, <1>8, PushGood
<1>10. /\ mem'[c].size \in Nat /\ pc[t] + Header <= mem'[c].size
       /\ \A a \in U : mem'[a].size = mem[a].size
  BY <1>2, <1>5, <1>7, <1>9, SizeFacts
<1> QED
  BY <1>1, <1>4, <1>6, <1>9, <1>10 DEF U

\* What shared_mem_release() does: the buffer leaves the allocated chain.
LEMMA ReleaseStep ==
    ASSUME IInv, NEW ptr \in Held, shared_mem_release(ptr)
    PROVE  /\ ptr \in AllocBufs
           /\ \E F : Good(mem', free_buf_chain', F, allocced_buf_chain',
                          AllocBufs \ {ptr}, {})
           /\ asked' = [asked EXCEPT ![ptr] = 0]
           /\ \A a \in AllocBufs \ {ptr} : mem'[a].size = mem[a].size
<1> DEFINE m == Unlinked(ptr)
           alloc == IF ptr = allocced_buf_chain THEN mem[ptr].next
                    ELSE allocced_buf_chain
           F == FreeBufs
           U == AllocBufs \ {ptr}
<1>1. ptr \in AllocBufs /\ allocced_buf_chain' = alloc
      /\ asked' = [asked EXCEPT ![ptr] = 0]
  BY DEF shared_mem_release
<1>2. Good(mem, free_buf_chain, F, allocced_buf_chain, AllocBufs, {})
  BY DEF IInv
<1>3. /\ Good(m, free_buf_chain, F, alloc, U, {ptr})
      /\ \A a \in Addresses : m[a].size = mem[a].size
  BY <1>1, <1>2, UnlinkedGood
<1>4. \/ /\ free_buf_chain = NULL
         /\ mem' = Put(m, ptr, NULL, NULL, m[ptr].size)
         /\ free_buf_chain' = ptr
      \/ /\ free_buf_chain # NULL /\ ptr < free_buf_chain
         /\ mem' = Prepend(m, ptr)
         /\ free_buf_chain' = ptr
      \/ /\ free_buf_chain # NULL /\ ptr > free_buf_chain
         /\ mem' = Insert(m, ptr, Below(m, ptr))
         /\ free_buf_chain' = free_buf_chain
  BY DEF shared_mem_release
<1>5. U \subseteq Addresses /\ ptr \in Nat
      /\ (free_buf_chain # NULL => free_buf_chain \in Nat)
  BY <1>3, GoodIs
<1> HIDE DEF m, alloc, F, U
<1>6. /\ \E F2 : Good(mem', free_buf_chain', F2, alloc, U, {})
      /\ \A a \in U : mem'[a].size = m[a].size
  <2>1. CASE /\ free_buf_chain = NULL
             /\ mem' = Put(m, ptr, NULL, NULL, m[ptr].size)
             /\ free_buf_chain' = ptr
    <3>1. Good(m, NULL, F, alloc, U, {ptr})
      BY <2>1, <1>3
    <3>2. /\ Good(mem', ptr, {ptr}, alloc, U, {})
          /\ \A a \in Addresses : mem'[a].size = m[a].size
      BY <3>1, <2>1, OnlyGood
    <3> QED
      BY <3>2, <2>1, <1>5
  <2>2. CASE /\ free_buf_chain # NULL /\ ptr < free_buf_chain
             /\ mem' = Prepend(m, ptr)
             /\ free_buf_chain' = ptr
    <3>1. CASE Touches(m, ptr, free_buf_chain)
      <4>1. /\ Good(Prepend(m, ptr), ptr, (F \ {free_buf_chain}) \cup {ptr},
                    alloc, U, {})
            /\ \A a \in U : Prepend(m, ptr)[a].size = m[a].size
        BY <3>1, <2>2, <1>3, PrependMerged
      <4> QED
        BY <4>1, <2>2, Zenon
    <3>2. CASE ~Touches(m, ptr, free_buf_chain)
      <4>1. /\ Good(Prepend(m, ptr), ptr, F \cup {ptr}, alloc, U, {})
            /\ \A a \in U : Prepend(m, ptr)[a].size = m[a].size
        BY <3>2, <2>2, <1>3, PrependApart
      <4> QED
        BY <4>1, <2>2, Zenon
    <3> QED
      BY <3>1, <3>2
  <2>3. CASE /\ free_buf_chain # NULL /\ ptr > free_buf_chain
             /\ mem' = Insert(m, ptr, Below(m, ptr))
             /\ free_buf_chain' = free_buf_chain
    <3> DEFINE pfb == Below(m, ptr)
    <3>1. Between(m, F, alloc, U, ptr, pfb)
      <4>1. m \in Memories /\ IsChain(m, free_buf_chain, F) /\ Apart(m, F)
        BY <1>3 DEF Good
      <4>2. free_buf_chain < ptr
        BY <2>3, <1>5
      <4>3. /\ pfb \in F /\ pfb < ptr
            /\ m[pfb].next = NULL \/ m[pfb].next >= ptr
        BY <4>1, <4>2, <2>3, <1>5, BelowIs
      <4> QED
        BY <4>3, <1>3 DEF Between
    <3> HIDE DEF pfb
    <3>2. mem' = Insert(m, ptr, pfb)
      BY <2>3 DEF pfb
    <3>3. CASE Touches(m, pfb, ptr) /\ Touches(m, ptr, m[pfb].next)
      <4>1. /\ \E F2 : Good(Insert(m, ptr, pfb), free_buf_chain, F2, alloc, U, {})
            /\ \A a \in U : Insert(m, ptr, pfb)[a].size = m[a].size
        BY <3>1, <3>3, InsertBoth
      <4> QED
        BY <4>1, <3>2, <2>3, Zenon
    <3>4. CASE Touches(m, pfb, ptr) /\ ~Touches(m, ptr, m[pfb].next)
      <4>1. /\ Good(Insert(m, ptr, pfb), free_buf_chain, F,
                    alloc, U, {})
            /\ \A a \in U : Insert(m, ptr, pfb)[a].size = m[a].size
        BY <3>1, <3>4, InsertBelow
      <4> QED
        BY <4>1, <3>2, <2>3, Zenon
    <3>5. CASE ~Touches(m, pfb, ptr) /\ Touches(m, ptr, m[pfb].next)
      <4>1. /\ \E F2 : Good(Insert(m, ptr, pfb), free_buf_chain, F2, alloc, U, {})
            /\ \A a \in U : Insert(m, ptr, pfb)[a].size = m[a].size
        BY <3>1, <3>5, InsertAbove
      <4> QED
        BY <4>1, <3>2, <2>3, Zenon
    <3>6. CASE ~Touches(m, pfb, ptr) /\ ~Touches(m, ptr, m[pfb].next)
      <4>1. /\ Good(Insert(m, ptr, pfb), free_buf_chain, F \cup {ptr},
                    alloc, U, {})
            /\ \A a \in U : Insert(m, ptr, pfb)[a].size = m[a].size
        BY <3>1, <3>6, InsertApart
      <4> QED
        BY <4>1, <3>2, <2>3, Zenon
    <3> QED
      BY <3>3, <3>4, <3>5, <3>6
  <2> QED
    BY <2>1, <2>2, <2>3, <1>4
<1>7. \A a \in U : mem'[a].size = mem[a].size
  BY <1>3, <1>5, <1>6
<1> QED
  BY <1>1, <1>6, <1>7 DEF U

\* The invariant after a step, from what the step leaves.
LEMMA InvAfter ==
    ASSUME NEW F, NEW U,
           Good(mem', free_buf_chain', F, allocced_buf_chain', U, {}),
           asked' \in [Addresses -> Requests \cup {0}],
           pc' \in [Tasks -> Requests \cup {Idle}],
           U = Held',
           \A a \in U : asked'[a] \in Requests
                        /\ asked'[a] + Header <= mem'[a].size
    PROVE  IInv'
<1>1. FreeBufs' = F /\ AllocBufs' = U
  BY GoodSets DEF FreeBufs, AllocBufs
<1>2. mem' \in Memories /\ free_buf_chain' \in Pointers
      /\ allocced_buf_chain' \in Pointers
  <2>1. mem' \in Memories
    BY DEF Good
  <2>2. free_buf_chain' \in Pointers /\ allocced_buf_chain' \in Pointers
    BY GoodIs
  <2> QED
    BY <2>1, <2>2
<1>3. TypeOK'
  BY <1>2 DEF TypeOK, Memories, Pointers
<1> QED
  BY <1>1, <1>3 DEF IInv

\* The history after a buffer was handed out.
LEMMA HeldAfterAcquire ==
    ASSUME TypeOK, NEW c \in Addresses, NEW s \in Requests,
           asked' = [asked EXCEPT ![c] = s]
    PROVE  /\ asked' \in [Addresses -> Requests \cup {0}]
           /\ Held' = Held \cup {c}
           /\ asked'[c] = s
           /\ \A a \in Held : a # c => asked'[a] = asked[a]
<1>1. s # 0
  BY SizeFacts
<1> QED
  BY <1>1 DEF TypeOK, Held

\* The history after a buffer was given back.
LEMMA HeldAfterRelease ==
    ASSUME TypeOK, NEW ptr \in Held, asked' = [asked EXCEPT ![ptr] = 0]
    PROVE  /\ asked' \in [Addresses -> Requests \cup {0}]
           /\ Held' = Held \ {ptr}
           /\ \A a \in Held \ {ptr} : asked'[a] = asked[a]
BY DEF TypeOK, Held

\* A step that leaves the allocator alone.
LEMMA AloneInv ==
    ASSUME IInv, UNCHANGED <<mem, free_buf_chain, allocced_buf_chain, asked>>,
           pc' \in [Tasks -> Requests \cup {Idle}]
    PROVE  IInv'
<1>1. FreeBufs' = FreeBufs /\ AllocBufs' = AllocBufs /\ Held' = Held
  BY DEF FreeBufs, AllocBufs, Held
<1>2. TypeOK'
  BY DEF IInv, TypeOK
<1> QED
  BY <1>1, <1>2 DEF IInv

\* shared_mem_acquire() keeps the invariant.
LEMMA AcquireInv ==
    ASSUME IInv, NEW t \in Tasks, shared_mem_acquire(t)
    PROVE  IInv'
<1> DEFINE c == Candidate(RoundUp(pc[t]))
<1>1. TypeOK /\ pc' \in [Tasks -> Requests \cup {Idle}]
  BY DEF IInv, TypeOK, shared_mem_acquire
<1>2. CASE c = NULL
  <2>1. UNCHANGED <<mem, free_buf_chain, allocced_buf_chain, asked>>
    BY <1>2 DEF shared_mem_acquire
  <2> QED
    BY <2>1, <1>1, AloneInv
<1>3. CASE c # NULL
  <2> HIDE DEF c
  <2>1. /\ pc[t] \in Requests /\ c \in FreeBufs
        /\ \E F : Good(mem', free_buf_chain', F, c, AllocBufs \cup {c}, {})
        /\ allocced_buf_chain' = c
        /\ asked' = [asked EXCEPT ![c] = pc[t]]
        /\ mem'[c].size \in Nat /\ pc[t] + Header <= mem'[c].size
        /\ \A a \in AllocBufs : mem'[a].size = mem[a].size
    BY <1>3, AcquireStep DEF c
  <2>2. PICK F : Good(mem', free_buf_chain', F, allocced_buf_chain',
                      AllocBufs \cup {c}, {})
    BY <2>1
  <2>3. c \in Addresses
    BY <2>2, GoodIs
  <2>4. /\ asked' \in [Addresses -> Requests \cup {0}]
        /\ Held' = Held \cup {c}
        /\ asked'[c] = pc[t]
        /\ \A a \in Held : a # c => asked'[a] = asked[a]
    BY <2>1, <2>3, <1>1, HeldAfterAcquire
  <2>5. /\ AllocBufs = Held
        /\ \A a \in Held : asked[a] \in Requests
                           /\ asked[a] + Header <= mem[a].size
    BY DEF IInv
  <2>6. /\ AllocBufs \cup {c} = Held'
        /\ \A a \in AllocBufs \cup {c} :
              asked'[a] \in Requests /\ asked'[a] + Header <= mem'[a].size
    BY <2>1, <2>4, <2>5
  <2> QED
    BY <2>2, <2>4, <2>6, <1>1, InvAfter
<1> QED
  BY <1>2, <1>3

\* shared_mem_release() keeps the invariant.
LEMMA ReleaseInv ==
    ASSUME IInv, NEW ptr \in Held, shared_mem_release(ptr)
    PROVE  IInv'
<1>1. TypeOK /\ pc' \in [Tasks -> Requests \cup {Idle}]
  BY DEF IInv, TypeOK, shared_mem_release
<1>2. /\ \E F : Good(mem', free_buf_chain', F, allocced_buf_chain',
                     AllocBufs \ {ptr}, {})
      /\ asked' = [asked EXCEPT ![ptr] = 0]
      /\ \A a \in AllocBufs \ {ptr} : mem'[a].size = mem[a].size
  BY ReleaseStep
<1>3. PICK F : Good(mem', free_buf_chain', F, allocced_buf_chain',
                    AllocBufs \ {ptr}, {})
  BY <1>2
<1>4. /\ asked' \in [Addresses -> Requests \cup {0}]
      /\ Held' = Held \ {ptr}
      /\ \A a \in Held \ {ptr} : asked'[a] = asked[a]
  BY <1>1, <1>2, HeldAfterRelease
<1>5. /\ AllocBufs = Held
      /\ \A a \in Held : asked[a] \in Requests
                         /\ asked[a] + Header <= mem[a].size
  BY DEF IInv
<1>6. /\ AllocBufs \ {ptr} = Held'
      /\ \A a \in AllocBufs \ {ptr} :
            asked'[a] \in Requests /\ asked'[a] + Header <= mem'[a].size
  BY <1>2, <1>4, <1>5
<1> QED
  BY <1>1, <1>3, <1>4, <1>6, InvAfter

\* Every step keeps the invariant.
LEMMA NextInv == IInv /\ [Next]_vars => IInv'
<1> SUFFICES ASSUME IInv, [Next]_vars
             PROVE  IInv'
  OBVIOUS
<1>1. ASSUME NEW t \in Tasks, NEW size \in Requests, Request(t, size)
      PROVE  IInv'
  <2>1. pc' \in [Tasks -> Requests \cup {Idle}]
    BY <1>1 DEF IInv, TypeOK, Request
  <2>2. UNCHANGED <<mem, free_buf_chain, allocced_buf_chain, asked>>
    BY <1>1 DEF Request
  <2> QED
    BY <2>1, <2>2, AloneInv
<1>2. ASSUME NEW t \in Tasks, shared_mem_acquire(t)
      PROVE  IInv'
  BY <1>2, AcquireInv
<1>3. ASSUME NEW ptr \in Held, shared_mem_release(ptr)
      PROVE  IInv'
  BY <1>3, ReleaseInv
<1>4. CASE UNCHANGED vars
  <2>1. pc' \in [Tasks -> Requests \cup {Idle}]
    BY <1>4 DEF IInv, TypeOK, vars
  <2>2. UNCHANGED <<mem, free_buf_chain, allocced_buf_chain, asked>>
    BY <1>4 DEF vars
  <2> QED
    BY <2>1, <2>2, AloneInv
<1> QED
  BY <1>1, <1>2, <1>3, <1>4 DEF Next

\* The invariant holds of every behaviour.
LEMMA Inductive == Spec => []IInv
<1> QED
  BY InitInv, NextInv, PTL DEF Spec

-----------------------------------------------------------------------------
(* The theorems *)

\* Whatever is split and merged, every pointer in a header is NULL or an aligned
\* address, and every size lies within the memory (do_acquire(), do_release()).
THEOREM TypeCorrect == Spec => []TypeOK
<1>1. IInv => TypeOK
  BY DEF IInv
<1> QED
  BY <1>1, Inductive, PTL

\* For every memory, header and requests: no byte is lost or in two buffers, and
\* the allocated chain is what was handed out (do_acquire(), do_release()).
THEOREM ChainsTile == Spec => []ChainsTileMemory
<1>1. IInv => ChainsTileMemory
  <2> SUFFICES ASSUME IInv
               PROVE  ChainsTileMemory
    OBVIOUS
  <2>1. /\ Tiled(mem) /\ Headers(mem) = FreeBufs \cup AllocBufs
        /\ FreeBufs \cap AllocBufs = {} /\ AllocBufs = Held
    BY DEF IInv, Good
  <2> QED
    BY <2>1 DEF ChainsTileMemory, Tiled
<1> QED
  BY <1>1, Inductive, PTL

\* No two free buffers touch, and the chain of them is in order: memory that
\* has come back is one buffer again (do_release()).
THEOREM Merged == Spec => []FreeIsMerged
<1>1. IInv => FreeIsMerged
  <2> SUFFICES ASSUME IInv
               PROVE  FreeIsMerged
    OBVIOUS
  <2>1. /\ Good(mem, free_buf_chain, FreeBufs, allocced_buf_chain, AllocBufs, {})
        /\ AllocBufs = Held
    BY DEF IInv
  <2>2. \A a \in FreeBufs : mem[a].next # NULL => a + mem[a].size < mem[a].next
    BY <2>1 DEF Good, Apart
  <2>3. ASSUME Held = {}
        PROVE  FreeBufs = {0} /\ mem[0].size = MemSize
    BY <2>1, <2>3, WholeAgain
  <2> QED
    BY <2>2, <2>3 DEF FreeIsMerged
<1> QED
  BY <1>1, Inductive, PTL

\* The pieces that are in use, with what was asked for in them.
Pieces(m, H, ask) ==
    \A a \in H :
        /\ a \in Nat /\ m[a].size \in Nat
        /\ ask[a] \in Requests /\ ask[a] \in Nat
        /\ ask[a] + Header <= m[a].size
        /\ a + m[a].size <= MemSize
        /\ \A b \in H : b <= a \/ a + m[a].size <= b

\* The allocated buffers are such pieces.
LEMMA PieceIs ==
    ASSUME NEW m, NEW free, NEW F, NEW alloc, NEW H, NEW ask,
           Good(m, free, F, alloc, H, {}),
           \A a \in H : ask[a] \in Requests /\ ask[a] + Header <= m[a].size
    PROVE  Pieces(m, H, ask)
<1>1. \A a \in H :
          /\ a \in Nat /\ m[a].size \in 0 .. MemSize
          /\ a + m[a].size <= MemSize
          /\ \A b \in H : b <= a \/ a + m[a].size <= b
  BY GoodIs
<1>2. \A a \in H : ask[a] \in Nat /\ m[a].size \in Nat
  <2> TAKE a \in H
  <2>1. m[a].size \in Nat
    BY <1>1, SizeFacts
  <2>2. ask[a] \in Requests
    OBVIOUS
  <2>3. ask[a] \in Nat
    BY <2>2, SizeFacts
  <2> QED
    BY <2>1, <2>3
<1> QED
  BY <1>1, <1>2 DEF Pieces

\* A buffer that is handed out is a piece that is disjoint from all others.
LEMMA AcquireRefines ==
    ASSUME IInv, IInv', NEW t \in Tasks, shared_mem_acquire(t),
           Candidate(RoundUp(pc[t])) # NULL
    PROVE  Heap!Acquire
<1> DEFINE c == Candidate(RoundUp(pc[t]))
           p == [start |-> c + Header, size |-> pc[t]]
           held == {[start |-> a + Header, size |-> asked[a]] : a \in Held}
<1> HIDE DEF c
<1>1. /\ pc[t] \in Requests /\ c \in FreeBufs
      /\ asked' = [asked EXCEPT ![c] = pc[t]]
  BY AcquireStep DEF c
<1>2. c \in Addresses /\ c \notin Held /\ TypeOK
  <2>1. /\ Good(mem, free_buf_chain, FreeBufs, allocced_buf_chain, AllocBufs, {})
        /\ AllocBufs = Held /\ TypeOK
    BY DEF IInv
  <2>2. FreeBufs \subseteq Addresses
    BY <2>1, GoodIs
  <2>3. FreeBufs \cap AllocBufs = {}
    BY <2>1 DEF Good
  <2> QED
    BY <2>1, <2>2, <2>3, <1>1
<1>3. /\ Held' = Held \cup {c} /\ asked'[c] = pc[t]
      /\ \A a \in Held : asked'[a] = asked[a]
  BY <1>1, <1>2, HeldAfterAcquire
<1>p. Pieces(mem', Held', asked')
  <2>1. /\ Good(mem', free_buf_chain', FreeBufs', allocced_buf_chain', Held', {})
        /\ \A a \in Held' : asked'[a] \in Requests
                            /\ asked'[a] + Header <= mem'[a].size
    BY DEF IInv
  <2> QED
    BY <2>1, PieceIs
<1>4. /\ c \in Nat /\ mem'[c].size \in Nat
      /\ pc[t] \in Nat /\ pc[t] + Header <= mem'[c].size
      /\ c + mem'[c].size <= MemSize
      /\ \A b \in Held : b <= c \/ c + mem'[c].size <= b
  BY <1>1, <1>3, <1>p DEF Pieces
<1>5. \A a \in Held :
          /\ a \in Nat /\ asked[a] \in Nat /\ mem'[a].size \in Nat
          /\ asked[a] + Header <= mem'[a].size
          /\ c <= a \/ a + mem'[a].size <= c
          /\ a # c
  BY <1>2, <1>3, <1>p DEF Pieces
<1>6. held' = held \cup {p}
  BY <1>3
<1>7. p \in [start : 0 .. MemSize, size : Requests]
      /\ p.start + p.size <= MemSize
  BY <1>1, <1>4, SizeFacts
<1>a. p.start % Word = 0
  <2>1. c \in Int /\ c % Word = 0 /\ Header \in Int /\ Header % Word = 0
    BY <1>2, <1>4, SizesAssumption DEF Addresses
  <2>2. (c + Header) % Word = 0
    BY <2>1, AlignedSum
  <2> QED
    BY <2>2
<1>8. \A a \in Held : \/ p.start + p.size <= a + Header
                      \/ a + Header + asked[a] <= p.start
  BY <1>4, <1>5, SizeFacts
<1>9. \A q \in held : p.start + p.size <= q.start \/ q.start + q.size <= p.start
  BY <1>8
<1>10. p \notin held
  <2>1. \A a \in Held : a + Header # c + Header
    BY <1>4, <1>5, SizeFacts
  <2>2. \A a \in Held : [start |-> a + Header, size |-> asked[a]] # p
    BY <2>1
  <2> QED
    BY <2>2
<1>11. p \in held' \ held
  BY <1>6, <1>10
<1> QED
  BY <1>6, <1>7, <1>9, <1>11, <1>a DEF Heap!Acquire, Heap!Disjoint

\* A buffer that is given back is one of the pieces, and the only one that goes.
LEMMA ReleaseRefines ==
    ASSUME IInv, NEW ptr \in Held, shared_mem_release(ptr)
    PROVE  Heap!Release
<1> DEFINE p == [start |-> ptr + Header, size |-> asked[ptr]]
           held == {[start |-> a + Header, size |-> asked[a]] : a \in Held}
<1>1. asked' = [asked EXCEPT ![ptr] = 0] /\ TypeOK
  BY DEF shared_mem_release, IInv
<1>2. /\ Held' = Held \ {ptr}
      /\ \A a \in Held \ {ptr} : asked'[a] = asked[a]
  BY <1>1, HeldAfterRelease
<1>3. held' = {[start |-> a + Header, size |-> asked[a]] : a \in Held \ {ptr}}
  BY <1>2
<1>4. \A a \in Held \ {ptr} : [start |-> a + Header, size |-> asked[a]] # p
  <2>1. /\ Good(mem, free_buf_chain, FreeBufs, allocced_buf_chain, Held, {})
        /\ \A a \in Held : asked[a] \in Requests
                           /\ asked[a] + Header <= mem[a].size
    BY DEF IInv
  <2>2. \A a \in Held : a \in Nat
    BY <2>1, PieceIs DEF Pieces
  <2>3. \A a \in Held \ {ptr} : a + Header # ptr + Header
    BY <2>2, SizeFacts
  <2> QED
    BY <2>3
<1>5. p \in held
  OBVIOUS
<1>6. held' = held \ {p}
  BY <1>3, <1>4
<1>7. p \in held \ held'
  BY <1>5, <1>6
<1> QED
  BY <1>6, <1>7 DEF Heap!Release

\* The allocator implements the abstract heap: whoever acquires memory has it
\* alone until it is released (shared_mem_acquire(), shared_mem_release()).
THEOREM Refines == Spec => ImplementsHeap
<1>1. Init => Heap!Init
  BY DEF Init, Heap!Init, Held
<1>2. IInv /\ IInv' /\ [Next]_vars
      => [Heap!Acquire \/ Heap!Release]_{[start |-> a + Header,
                                          size |-> asked[a]] : a \in Held}
  <2> SUFFICES ASSUME IInv, IInv', [Next]_vars
               PROVE  [Heap!Acquire \/ Heap!Release]_{
                          [start |-> a + Header, size |-> asked[a]] : a \in Held}
    OBVIOUS
  <2>0. asked' = asked => UNCHANGED {[start |-> a + Header,
                                      size |-> asked[a]] : a \in Held}
    BY DEF Held
  <2>1. ASSUME NEW t \in Tasks, NEW size \in Requests, Request(t, size)
        PROVE  asked' = asked
    BY <2>1 DEF Request
  <2>2. ASSUME NEW t \in Tasks, shared_mem_acquire(t)
        PROVE  Heap!Acquire \/ asked' = asked
    BY <2>2, AcquireRefines DEF shared_mem_acquire
  <2>3. ASSUME NEW ptr \in Held, shared_mem_release(ptr)
        PROVE  Heap!Release
    BY <2>3, ReleaseRefines
  <2>4. CASE UNCHANGED vars
    BY <2>4, <2>0 DEF vars
  <2> QED
    BY <2>0, <2>1, <2>2, <2>3, <2>4 DEF Next
<1> QED
  BY <1>1, <1>2, Inductive, PTL DEF Spec, ImplementsHeap, Heap!Spec

=============================================================================
