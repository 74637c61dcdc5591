----------------------------- MODULE SharedMem ------------------------------
(***************************************************************************)
(* The allocator of common/shmalloc.c: two doubly linked chains of         *)
(* buffers, free ones and allocated ones, whose headers are in the memory  *)
(* that is handed out.                                                     *)
(*                                                                         *)
(* mem maps the address of a header to the header.  A section under        *)
(* shmem_lock is one step; the look at free_buf_chain that precedes it is  *)
(* another.                                                                *)
(***************************************************************************)
EXTENDS Integers

CONSTANTS
    Tasks,
    Word,       \* sizeof(int)
    Header,     \* sizeof(struct shm_buffer)
    MemSize,    \* bytes of shared memory
    Requests    \* sizes that are asked for

ASSUME SizesAssumption ==
    /\ Word \in Nat \ {0} /\ Header \in Nat \ {0} /\ MemSize \in Nat
    /\ Header % Word = 0 /\ MemSize % Word = 0 /\ MemSize > Header
    /\ Requests \subseteq Nat \ {0}

VARIABLES
    mem,                    \* the headers
    free_buf_chain,
    allocced_buf_chain,
    asked,                  \* history: the size each buffer was asked for
    pc                      \* the request a task is in the middle of

vars == <<mem, free_buf_chain, allocced_buf_chain, asked, pc>>

NULL == 0 - 1
Idle == 0

Addresses == {a \in 0 .. MemSize - 1 : a % Word = 0}

NoHeader == [next |-> NULL, prev |-> NULL, size |-> 0]

\* shared_mem_init()
Init ==
    /\ mem = [a \in Addresses |-> IF a = 0 THEN [NoHeader EXCEPT !.size = MemSize]
                                  ELSE NoHeader]
    /\ free_buf_chain = 0
    /\ allocced_buf_chain = NULL
    /\ asked = [a \in Addresses |-> 0]
    /\ pc = [t \in Tasks |-> Idle]

-----------------------------------------------------------------------------
(* Chains *)

\* The addresses that hold a header.
Headers(m) == {a \in Addresses : m[a].size # 0}

\* The buffers that a walk along the next pointers meets, beginning with `from',
\* as long as it does not come to NULL or to limit: the members of every set
\* that has the first of them and, with each buffer, the next one.
Met(m, from, limit) ==
    LET headers == Headers(m)
        Goes(p) == p \in headers /\ p < limit
        closed == {S \in SUBSET headers :
                      /\ Goes(from) => from \in S
                      /\ \A a \in S : Goes(m[a].next) => m[a].next \in S}
    IN  {a \in headers : \A S \in closed : a \in S}

Chain(m, head) == Met(m, head, MemSize)

FreeBufs == Chain(mem, free_buf_chain)
AllocBufs == Chain(mem, allocced_buf_chain)

\* The buffers that were handed out and not given back.
Held == {a \in Addresses : asked[a] # 0}

\* A pointer of the buffer at a, which may be NULL, is set to p.
SetNext(m, a, p) == IF a = NULL THEN m ELSE [m EXCEPT ![a].next = p]
SetPrev(m, a, p) == IF a = NULL THEN m ELSE [m EXCEPT ![a].prev = p]

Put(m, a, next, prev, size) ==
    [m EXCEPT ![a] = [next |-> next, prev |-> prev, size |-> size]]

-----------------------------------------------------------------------------
(* Acquiring *)

\* do_acquire(): the size with alignment and header.
RoundUp_down(size) == (size \div Word) * Word + Header

RoundUp(size) == ((size + Word - 1) \div Word) * Word + Header

\* do_acquire(): the first, on the chain, of the buffers that leave the least
\* headroom.
Candidate(size) ==
    LET fit == {a \in FreeBufs : mem[a].size >= size}
        Best(a) == \A b \in fit :
                       \/ mem[a].size < mem[b].size
                       \/ mem[a].size = mem[b].size /\ b \in Chain(mem, a)
    IN  IF fit = {} THEN NULL ELSE CHOOSE a \in fit : Best(a)

\* do_acquire(): the memory and the free chain without the candidate, whose
\* tail stays free when there is room in it for more than a header.
TakeAll(c) ==
    [m    |-> SetPrev(SetNext(mem, mem[c].prev, mem[c].next),
                      mem[c].next, mem[c].prev),
     head |-> IF c = free_buf_chain THEN mem[c].next ELSE free_buf_chain]

Split(c, size) ==
    LET tail == c + size
        m == Put([mem EXCEPT ![c].size = size], tail, mem[c].next, mem[c].prev,
                 mem[c].size - size)
    IN  [m    |-> SetNext(SetPrev(m, mem[c].next, tail),
                          IF c = free_buf_chain THEN NULL ELSE mem[c].prev,
                          tail),
         head |-> IF c = free_buf_chain THEN tail ELSE free_buf_chain]

Take_noheader(c, size) ==
    IF mem[c].size - size <= 0 THEN TakeAll(c) ELSE Split(c, size)

Take(c, size) ==
    IF mem[c].size - size <= Header THEN TakeAll(c) ELSE Split(c, size)

\* shared_mem_acquire(): without the lock.
Request(t, size) ==
    /\ pc[t] = Idle
    /\ free_buf_chain # NULL
    /\ pc' = [pc EXCEPT ![t] = size]
    /\ UNCHANGED <<mem, free_buf_chain, allocced_buf_chain, asked>>

\* shared_mem_acquire(): with the lock.
shared_mem_acquire(t) ==
    LET c == Candidate(RoundUp(pc[t]))
        rest == Take(c, RoundUp(pc[t]))
    IN  /\ pc[t] # Idle
        /\ IF c = NULL
             THEN UNCHANGED <<mem, free_buf_chain, allocced_buf_chain, asked>>
             ELSE /\ mem' = SetPrev([rest.m EXCEPT ![c].next = allocced_buf_chain,
                                                   ![c].prev = NULL],
                                    allocced_buf_chain, c)
                  /\ free_buf_chain' = rest.head
                  /\ allocced_buf_chain' = c
                  /\ asked' = [asked EXCEPT ![c] = pc[t]]
        /\ pc' = [pc EXCEPT ![t] = Idle]

-----------------------------------------------------------------------------
(* Releasing *)

\* do_release(): the memory with ptr out of the allocated chain.
Unlinked(ptr) ==
    IF ptr = allocced_buf_chain
      THEN SetPrev(mem, mem[ptr].next, NULL)
      ELSE SetPrev(SetNext(mem, mem[ptr].prev, mem[ptr].next),
                   mem[ptr].next, mem[ptr].prev)

\* do_release(): the free buffer that ptr comes after, where the walk up to ptr
\* ends.
Below(m, ptr) ==
    CHOOSE a \in Met(m, free_buf_chain, ptr) :
        m[a].next = NULL \/ m[a].next >= ptr

\* The header at a is no longer one.
Forget(m, a) == [m EXCEPT ![a] = NoHeader]

\* ptr comes before all free buffers, and may be merged with the first.
Prepend(m, ptr) ==
    LET first == free_buf_chain
        size == m[ptr].size
    IN  IF ptr + size = first
          THEN Forget(SetPrev(Put(m, ptr, m[first].next, NULL,
                                  size + m[first].size),
                              m[first].next, ptr), first)
          ELSE SetPrev(Put(m, ptr, first, NULL, size), first, ptr)

\* ptr comes after pfb, and may be merged with it, with the one above, or
\* with both.
Insert_gap(m, ptr, pfb) ==
    LET size == m[ptr].size
    IN  IF pfb + m[pfb].size = ptr
          THEN Forget([m EXCEPT ![pfb].size = @ + size], ptr)
          ELSE SetPrev(SetNext(Put(m, ptr, m[pfb].next, pfb, size), pfb, ptr),
                       m[pfb].next, ptr)

Insert(m, ptr, pfb) ==
    LET size == m[ptr].size
        above == m[pfb].next
    IN  IF pfb + m[pfb].size = ptr
          THEN IF ptr + size = above
                 THEN Forget(Forget(
                          SetPrev(Put(m, pfb, m[above].next, m[pfb].prev,
                                      m[pfb].size + size + m[above].size),
                                  m[above].next, pfb), above), ptr)
                 ELSE Forget([m EXCEPT ![pfb].size = @ + size], ptr)
        ELSE IF ptr + size = above
          THEN Forget(SetPrev(SetNext(Put(m, ptr, m[above].next, pfb,
                                          size + m[above].size), pfb, ptr),
                              m[above].next, ptr), above)
          ELSE SetPrev(SetNext(Put(m, ptr, above, pfb, size), pfb, ptr),
                       above, ptr)

\* shared_mem_release(), of a buffer that is in the allocated chain: of any other
\* there is nothing to do.
shared_mem_release(ptr) ==
    LET m == Unlinked(ptr)
    IN  /\ ptr \in AllocBufs
        /\ allocced_buf_chain' = IF ptr = allocced_buf_chain THEN mem[ptr].next
                                 ELSE allocced_buf_chain
        /\ asked' = [asked EXCEPT ![ptr] = 0]
        /\ \/ /\ free_buf_chain = NULL
              /\ mem' = Put(m, ptr, NULL, NULL, m[ptr].size)
              /\ free_buf_chain' = ptr
           \/ /\ free_buf_chain # NULL /\ ptr < free_buf_chain
              /\ mem' = Prepend(m, ptr)
              /\ free_buf_chain' = ptr
           \/ /\ free_buf_chain # NULL /\ ptr > free_buf_chain
              /\ mem' = Insert(m, ptr, Below(m, ptr))
              /\ UNCHANGED free_buf_chain
        /\ UNCHANGED pc

Next ==
    \/ \E t \in Tasks, size \in Requests : Request(t, size)
    \/ \E t \in Tasks : shared_mem_acquire(t)
    \/ \E ptr \in Held : shared_mem_release(ptr)

Spec == Init /\ [][Next]_vars

-----------------------------------------------------------------------------
(* Properties *)

\* Every variable has its type; the buffers lie within the shared memory.
TypeOK ==
    /\ mem \in [Addresses -> [next : Addresses \cup {NULL},
                              prev : Addresses \cup {NULL}, size : 0 .. MemSize]]
    /\ free_buf_chain \in Addresses \cup {NULL}
    /\ allocced_buf_chain \in Addresses \cup {NULL}
    /\ asked \in [Addresses -> Requests \cup {0}]
    /\ pc \in [Tasks -> Requests \cup {Idle}]

\* The buffers of the two chains together are the whole memory, and no byte
\* is in two of them; each is larger than its header, and the allocated ones are
\* those that were handed out and not given back.  Nothing is lost or handed out
\* twice, at whatever sizes buffers were split and merged (do_acquire(),
\* do_release()).
ChainsTileMemory ==
    LET free == FreeBufs
        used == AllocBufs
        End(a) == a + mem[a].size
    IN  /\ used = Held
        /\ free \cap used = {}
        /\ \A a \in free \cup used :
              /\ mem[a].size > Header
              /\ End(a) \in free \cup used \cup {MemSize}
              /\ \A b \in free \cup used : b <= a \/ End(a) <= b
        /\ 0 \in free \cup used

\* The free chain is in the order of the addresses and no two free buffers
\* touch: memory that has come back is there for the largest request that fits,
\* and when everything has come back it is one buffer again (do_release()).
FreeIsMerged ==
    /\ \A a \in FreeBufs :
          mem[a].next # NULL => a + mem[a].size < mem[a].next
    /\ Held = {} => FreeBufs = {0} /\ mem[0].size = MemSize

\* The allocator does what its users rely on.
Heap ==
    INSTANCE AbstractHeap WITH
        held <- {[start |-> a + Header, size |-> asked[a]] : a \in Held}

ImplementsHeap == Heap!Spec
=============================================================================
