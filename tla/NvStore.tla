------------------------------ MODULE NvStore ------------------------------
(***************************************************************************)
(* The flash log of common/new_nvmem.c: how objects are saved, deleted,    *)
(* moved and found again after a power loss.                               *)
(*                                                                         *)
(* The flash pages with a valid header, in the order of page_list, make    *)
(* one sequence of words, PageWords for every page (the two words of the   *)
(* page header are not counted), so a page_tracker is a position in the    *)
(* sequence and list_index is the page of the position.  A container is a  *)
(* header word and size words of body.  What the body holds, its hash and  *)
(* its encryption are kept in the header word as key and val; a container  *)
(* is valid when every word of its body is there.                          *)
(*                                                                         *)
(* Everything here runs under flash_mtx, so there is one thread.  It reads *)
(* the flash at will and puts the words it writes in a queue; one step     *)
(* writes one word, one page header or erases one page, and the power may  *)
(* fail before any of them.  CrashAt says before which.                    *)
(***************************************************************************)
EXTENDS Integers, SequencesExt

CONSTANTS
    Tuples,      \* keys of the (key, value) pairs of setvar()
    Reserved,    \* reserved TPM objects
    Evictables,  \* evictable TPM objects
    Size,        \* words in the body of each object
    MaxVal,      \* bound: objects have the values 1 .. MaxVal
    PageWords,   \* words in a page
    PageCount,   \* page_count, the number of pages
    Updates,     \* how often every tuple of a used device was written
    CrashAt,     \* windows in which the power may fail
    MaxCrashes,  \* bound: power losses
    MaxOps       \* bound: calls of the interface

TpmObjects == Reserved \cup Evictables
Keys == Tuples \cup TpmObjects
Windows == {"idle", "new", "old", "word", "span", "compact", "erase",
            "reserved", "recover"}

ASSUME StoreAssumption ==
    /\ Size \in [Keys -> Nat \ {0}]
    /\ PageWords \in Nat /\ PageCount \in Nat
    /\ \A k \in Keys : Size[k] < PageWords
    /\ MaxVal \in Nat \ {0}
    /\ Updates \in Nat
    /\ CrashAt \subseteq Windows
    /\ MaxCrashes \in Nat /\ MaxOps \in Nat
    /\ Tuples \cap TpmObjects = {} /\ Reserved \cap Evictables = {}

VARIABLES
    words,    \* the words of the pages in use
    offs,     \* data_offset of every page in use
    free,     \* how many pages are not in use
    q,        \* flash operations under way
    pc,       \* where the thread is
    ctl,      \* controller_at.mt: the end of the log
    at,       \* the access tracker of the loop that runs
    dt,       \* controller_at.dt: the last finalized delimiter, 0 if none
    nc,       \* the header the initialization read last
    loc,      \* other local variables of the function that runs
    cache,    \* TPM objects in the NVMEM cache
    init,     \* init_in_progress
    may,      \* history: the contents the store may show
    goal,     \* history: the contents that the call asked for
    ops,      \* how many calls were made
    crashes   \* how many power losses there were

flash == <<words, offs, free>>
vars == <<words, offs, free, q, pc, ctl, at, dt, nc, loc, cache, init, may,
          goal, ops, crashes>>

----------------------------------------------------------------------------
(* Words and pages.                                                        *)

\* struct nn_container with the container_type and container_type_copy that
\* a word starts with.
Word(type, size, key, val) ==
    [type |-> type, copy |-> type, size |-> size, key |-> key, val |-> val]

Erased == Word("erased", 0, "", 0)
Body == Word("body", 0, "", 0)
Zero == Word("zero", 0, "", 0)

TypeOf(k) == IF k \in Tuples THEN "tuple"
             ELSE IF k \in Reserved THEN "reserved" ELSE "evictable"

Container(k, v) == Word(TypeOf(k), Size[k], k, v)

Invalid(w) == [w EXCEPT !.type = "old"]

Delimiter == Word("del", 0, "", 0)
Finalized == Invalid(Delimiter)

Page(p) == ((p - 1) \div PageWords) + 1
Offset(p) == ((p - 1) % PageWords) + 1
PageEnd(p) == Page(p) * PageWords

\* Mutant: the index of the page, which starts at zero, is compared with the
\* number of pages.
compaction_needed_late == Page(ctl) - 1 >= PageCount

\* list_index of the controller's page has reached three quarters of the list.
compaction_needed ==
    Page(ctl) - 1 >= (PageCount \div 2) + (PageCount \div 4)

----------------------------------------------------------------------------
(* Reading: nvmem_read_bytes(), container_is_valid(), get_next_object().   *)

NextPos(p) == p + 1 + words[p].size

\* What get_next_object() meets at a position: an object, the end of the
\* log, a hash mismatch, a reason to call report_failure(), or no page at
\* all for the header or for the body after it, when it reads through a null
\* pointer.
Read(p) ==
    IF p > Len(words) THEN "null"
    ELSE IF words[p].type = "erased" THEN "end"
    ELSE IF p = Len(words) /\ words[p].size > 0 THEN "null"
    ELSE IF NextPos(p) > Len(words) + 1 THEN "failure"
    ELSE IF /\ NextPos(p) > PageEnd(p)
            /\ p # PageEnd(p)
            /\ Page(p) < Len(offs)
            /\ offs[Page(p) + 1] < NextPos(p) - PageEnd(p)
         THEN "failure"
    ELSE IF /\ words[p].copy \notin {"zero", "body"}
            /\ \A i \in p + 1 .. NextPos(p) - 1 : words[i] = Body
         THEN "object"
    ELSE "mismatch"

\* get_next_object() goes on without returning to its caller.
Skipped(w) == w.type = "old" /\ w.copy # "del"

IsLive(w) == w.type \in {"tuple", "reserved", "evictable"}

\* find_var()
Live(k) == {p \in 1..Len(words) : IsLive(words[p]) /\ words[p].key = k}
find_var(k) == IF Live(k) = {} THEN 0 ELSE Min(Live(k))

----------------------------------------------------------------------------
(* Writing: the flash operations that a function puts in the queue.        *)

WriteWord(p, w, window) == [op |-> "word", pos |-> p, word |-> w, win |-> window]

NewPage(off, window) == [op |-> "page", pos |-> off, word |-> Erased, win |-> window]
EraseFirst(window) == [op |-> "release", pos |-> 0, word |-> Erased, win |-> window]
EraseLast(window) == [op |-> "unspill", pos |-> 0, word |-> Erased, win |-> window]

\* Mutant: a container that ends with the page does not start a new page.
save_object_fits(p, w, window) ==
    LET n == w.size + 1
        room == PageEnd(p) - p + 1
        write(i) == WriteWord(p + i - 1, IF i = 1 THEN w ELSE Body,
                              IF i = 1 THEN window
                              ELSE IF i = room + 1 THEN "span" ELSE "word")
    IN IF n <= room
       THEN [i \in 1..n |-> write(i)]
       ELSE [i \in 1..room |-> write(i)]
            \o <<NewPage(n - room + 1, "span")>>
            \o [i \in 1..(n - room) |-> write(room + i)]

\* save_object(): the words of the container up to the end of the page, the
\* header of a new page, the rest of the words.  A container that ends with
\* the page starts a new page, too.
save_object(p, w, window) ==
    LET n == w.size + 1
        room == PageEnd(p) - p + 1
        write(i) == WriteWord(p + i - 1, IF i = 1 THEN w ELSE Body,
                              IF i = 1 THEN window
                              ELSE IF i = room + 1 THEN "span" ELSE "word")
    IN IF n < room
       THEN [i \in 1..n |-> write(i)]
       ELSE [i \in 1..room |-> write(i)]
            \o <<NewPage(n - room + 1, "span")>>
            \o [i \in 1..(n - room) |-> write(room + i)]

add_delimiter(p, window) == save_object(p, Delimiter, window)

\* Mutant: the type of the delimiter is written as it was.
finalize_delimiter_same(p, window) == <<WriteWord(p, Delimiter, window)>>

finalize_delimiter(p, window) == <<WriteWord(p, Finalized, window)>>

add_final_delimiter(p, window, final) ==
    add_delimiter(p, window) \o finalize_delimiter(p, final)

invalidate_object(p, window) == <<WriteWord(p, Invalid(words[p]), window)>>

----------------------------------------------------------------------------
(* The contents of the store.                                              *)

\* The cache holds a value of every reserved object and the instances of the
\* evictable objects in the order they were added.
EmptyCache == [reserved |-> [k \in Reserved |-> 0],
               evictable |-> [k \in Evictables |-> <<>>]]

\* restore_reserved() overwrites, restore_object() appends.
Restore(c, w) ==
    CASE w.type = "reserved" -> [c EXCEPT !.reserved[w.key] = w.val]
      [] w.type = "evictable" ->
            [c EXCEPT !.evictable[w.key] = Append(@, w.val)]
      [] OTHER -> c

First(s) == IF s = <<>> THEN 0 ELSE s[1]

\* What the users of the store see: getvar() returns the first instance of a
\* tuple, the TPM library finds the first instance of an evictable object.
Contents(c) ==
    [k \in Keys |->
        CASE k \in Tuples ->
                IF find_var(k) = 0 THEN 0 ELSE words[find_var(k)].val
          [] k \in Reserved -> c.reserved[k]
          [] k \in Evictables -> First(c.evictable[k])]

----------------------------------------------------------------------------
(* The flash of a new device is erased.  On a used one there are the       *)
(* reserved objects, then every tuple, written Updates times; all but the  *)
(* last instance are deleted.                                              *)

Instance(k, v, live) ==
    <<IF live THEN Container(k, v) ELSE Invalid(Container(k, v))>>
    \o [i \in 1..Size[k] |-> Body]

UsedLog ==
    LET reserved == [i \in 1..Cardinality(Reserved) |->
                        Instance(SetToSeq(Reserved)[i], 0, TRUE)]
        writes(k) == [i \in 1..Updates |->
                        Instance(k, 1 + ((Updates - i) % MaxVal), i = Updates)
                        \o <<Finalized>>]
        tuples == [i \in 1..Cardinality(Tuples) |->
                      FlattenSeq(writes(SetToSeq(Tuples)[i]))]
    IN FlattenSeq(reserved) \o <<Finalized>> \o FlattenSeq(tuples)

UsedPages == (Len(UsedLog) \div PageWords) + 1

NewFlash ==
    /\ words = <<>>
    /\ offs = <<>>
    /\ free = PageCount
    /\ goal = [k \in Keys |-> 0]

UsedFlash ==
    /\ words = [p \in 1..UsedPages * PageWords |->
                   IF p <= Len(UsedLog) THEN UsedLog[p] ELSE Erased]
    /\ offs = [i \in 1..UsedPages |->
                  Min({p \in 1..PageWords :
                         words[(i - 1) * PageWords + p] # Body})]
    /\ free = PageCount - UsedPages
    /\ goal = [k \in Keys |-> IF k \in Tuples /\ Updates > 0 THEN 1 ELSE 0]

\* Local variables of the functions; those a function does not have are left
\* alone.
NoLocals ==
    [key |-> "", val |-> 0, ret |-> "", tries |-> 0, fence |-> 0,
     saved |-> FALSE, final |-> TRUE, news |-> {}, cand |-> <<>>,
     objs |-> [k \in Evictables |-> <<>>]]

Init ==
    /\ NewFlash \/ UsedFlash
    /\ may = {goal}
    /\ q = <<>>
    /\ pc = "boot"
    /\ ctl = 1 /\ at = 1 /\ dt = 0
    /\ nc = Erased
    /\ loc = NoLocals
    /\ cache = EmptyCache
    /\ init = TRUE
    /\ ops = 0
    /\ crashes = 0

\* Start of the firmware: only the flash remains of what was.
Boot ==
    /\ q' = <<>>
    /\ pc' = "boot"
    /\ ctl' = 1 /\ at' = 1 /\ dt' = 0
    /\ nc' = Erased
    /\ loc' = NoLocals
    /\ cache' = EmptyCache
    /\ init' = TRUE

----------------------------------------------------------------------------
(* The flash.                                                              *)

\* One operation of the queue.  start_new_flash_page() reports a failure if
\* there is no page left.
FlashStep ==
    /\ q # <<>>
    /\ \/ /\ Head(q).op = "word"
          /\ words' = [words EXCEPT ![Head(q).pos] = Head(q).word]
          /\ q' = Tail(q)
          /\ UNCHANGED <<offs, free, pc>>
       \/ /\ Head(q).op = "page"
          /\ free > 0
          /\ words' = words \o [i \in 1..PageWords |-> Erased]
          /\ offs' = Append(offs, Head(q).pos)
          /\ free' = free - 1
          /\ q' = Tail(q)
          /\ UNCHANGED pc
       \/ /\ Head(q).op = "page"
          /\ free = 0
          /\ q' = <<>>
          /\ pc' = "failed"
          /\ UNCHANGED flash
       \/ /\ Head(q).op = "release"
          /\ words' = SubSeq(words, PageWords + 1, Len(words))
          /\ offs' = Tail(offs)
          /\ free' = free + 1
          /\ q' = Tail(q)
          /\ UNCHANGED pc
       \/ /\ Head(q).op = "unspill"
          /\ words' = SubSeq(words, 1, Len(words) - PageWords)
          /\ offs' = Front(offs)
          /\ free' = free + 1
          /\ q' = Tail(q)
          /\ UNCHANGED pc
    /\ UNCHANGED <<ctl, at, dt, nc, loc, cache, init, may, goal, ops, crashes>>

\* The power fails before the next flash operation, or between two calls.
PowerLoss ==
    /\ crashes < MaxCrashes
    /\ crashes' = crashes + 1
    /\ \/ /\ q # <<>>
          /\ Head(q).win \in CrashAt
          /\ UNCHANGED may
       \/ /\ pc = "ready"
          /\ "idle" \in CrashAt
          /\ may' = {Contents(cache)}
    /\ Boot
    /\ UNCHANGED <<words, offs, free, goal, ops>>

\* report_failure(): during initialization the page headers are overwritten,
\* one by one, which takes the pages out of the list; then the chip resets.
report_failure ==
    /\ pc = "failed"
    /\ q' = IF init THEN [i \in 1..Len(offs) |-> EraseFirst("recover")]
                    ELSE <<>>
    /\ pc' = "reset"
    /\ UNCHANGED <<words, offs, free, ctl, at, dt, nc, loc, cache, init, may,
                   goal, ops, crashes>>

system_reset ==
    /\ pc = "reset"
    /\ q = <<>>
    /\ Boot
    /\ UNCHANGED <<words, offs, free, may, goal, ops, crashes>>

----------------------------------------------------------------------------
(* new_nvmem_init()                                                        *)

Runs(label) == pc = label /\ q = <<>>

\* init_page_list(): an erased flash gets its first page header.
init_page_list ==
    /\ Runs("boot")
    /\ q' = IF offs = <<>> THEN <<NewPage(1, "new")>> ELSE <<>>
    /\ pc' = "retrieve"
    /\ loc' = NoLocals
    /\ init' = TRUE
    /\ UNCHANGED <<words, offs, free, ctl, at, dt, nc, cache, may, goal, ops,
                   crashes>>

\* Mutant: the number of tries is not limited.
StartTry_always ==
    /\ Runs("retrieve")
    /\ at' = offs[1]
    /\ dt' = 0
    /\ cache' = EmptyCache
    /\ pc' = "scan"
    /\ loc' = [loc EXCEPT !.tries = 0]
    /\ UNCHANGED <<words, offs, free, q, ctl, nc, init, may, goal, ops, crashes>>

\* The loop over the tries in retrieve_nvmem_contents().
StartTry ==
    /\ Runs("retrieve")
    /\ \/ /\ loc.tries < 3
          /\ at' = offs[1]
          /\ dt' = 0
          /\ cache' = EmptyCache
          /\ pc' = "scan"
       \/ /\ loc.tries = 3
          /\ pc' = "failed"
          /\ UNCHANGED <<at, dt, cache>>
    /\ UNCHANGED <<words, offs, free, q, ctl, nc, loc, init, may, goal, ops,
                   crashes>>

\* Take the next object to the cache, or stop at the end of the log or at an
\* object that is not whole.
retrieve_nvmem_contents ==
    /\ Runs("scan")
    /\ \/ /\ Read(at) = "object"
          /\ nc' = words[at]
          /\ dt' = IF words[at] = Finalized THEN at ELSE dt
          /\ cache' = Restore(cache, words[at])
          /\ at' = NextPos(at)
          /\ UNCHANGED <<pc, ctl>>
       \/ /\ Read(at) = "end"
          /\ ctl' = at
          /\ pc' = "verify"
          /\ UNCHANGED <<at, dt, nc, cache>>
       \/ /\ Read(at) = "mismatch"
          /\ nc' = words[at]
          /\ ctl' = NextPos(at)
          /\ pc' = "verify"
          /\ UNCHANGED <<at, dt, cache>>
       \/ /\ Read(at) = "failure"
          /\ pc' = "failed"
          /\ UNCHANGED <<ctl, at, dt, nc, cache>>
       \/ /\ Read(at) = "null"
          /\ pc' = "undefined"
          /\ UNCHANGED <<ctl, at, dt, nc, cache>>
    /\ UNCHANGED <<words, offs, free, q, loc, init, may, goal, ops, crashes>>

\* verify_delimiter(): what is at the top of the log?
verify_delimiter ==
    /\ Runs("verify")
    /\ \/ /\ ctl = 1
          /\ pc' = IF dt = 0 THEN "reserved" ELSE "failed"
          /\ UNCHANGED <<at, loc>>
       \/ /\ ctl # 1
          /\ nc = Finalized
          /\ pc' = "reserved"
          /\ UNCHANGED <<at, loc>>
       \/ /\ ctl # 1
          /\ nc = Delimiter
          /\ at' = dt
          /\ pc' = IF dt = 0 THEN "undefined" ELSE "last_section"
          /\ loc' = [loc EXCEPT !.news = {}]
       \/ /\ ctl # 1
          /\ nc.copy # "del"
          /\ at' = IF dt = 0 THEN offs[1] ELSE dt
          /\ pc' = "purge"
          /\ UNCHANGED loc
    /\ UNCHANGED <<words, offs, free, q, ctl, dt, nc, cache, init, may, goal, ops,
                   crashes>>

\* verify_last_section(): the objects saved since the last finalized
\* delimiter.
verify_last_section ==
    /\ Runs("last_section")
    /\ \/ /\ Read(at) = "object"
          /\ loc' = [loc EXCEPT !.news = @ \cup
                        IF IsLive(words[at]) THEN {words[at].key} ELSE {}]
          /\ at' = NextPos(at)
          /\ UNCHANGED pc
       \/ /\ Read(at) # "object"
          /\ at' = offs[1]
          /\ pc' = "leftovers"
          /\ UNCHANGED loc
    /\ UNCHANGED <<words, offs, free, q, ctl, dt, nc, cache, init, may, goal, ops,
                   crashes>>

\* The condition of its second loop.
BeforeSection(p) == Page(p) # Page(dt) /\ Offset(p) # Offset(dt)

\* The position of the delimiter to finalize; at the start of a page the
\* code computes an address outside of the page.
TopDelimiter == IF Offset(ctl) = 1 THEN 0 ELSE ctl - 1

\* Delete the objects that have a newer instance, then finalize.
DeleteLeftovers ==
    /\ Runs("leftovers")
    /\ LET w == words[at]
           leftover == IsLive(w) /\ w.key \in loc.news
           more == Skipped(w) \/ BeforeSection(NextPos(at))
       IN \/ /\ Read(at) = "object"
             /\ at' = NextPos(at)
             /\ \/ /\ more
                   /\ q' = IF leftover THEN invalidate_object(at, "recover")
                                       ELSE <<>>
                   /\ UNCHANGED pc
                \/ /\ ~more
                   /\ TopDelimiter # 0
                   /\ q' = (IF leftover THEN invalidate_object(at, "recover")
                                        ELSE <<>>)
                           \o finalize_delimiter(TopDelimiter, "recover")
                   /\ pc' = "reserved"
                \/ /\ ~more
                   /\ TopDelimiter = 0
                   /\ q' = <<>>
                   /\ pc' = "undefined"
          \/ /\ Read(at) # "object"
             /\ pc' = "failed"
             /\ UNCHANGED <<at, q>>
    /\ UNCHANGED <<words, offs, free, ctl, dt, nc, loc, cache, init, may, goal, ops,
                   crashes>>

\* The rest of verify_delimiter(): no delimiter at the top, delete what was
\* saved after the last finalized one.  At the end of the log add a
\* delimiter; at an object that is not whole give up the rest of its page
\* and compact.  If other pages follow, the code erases or starts one that is
\* in use; if none does and the object fills its page, it erases the page at
\* address zero.
Purge ==
    /\ Runs("purge")
    /\ \/ /\ Read(at) = "object"
          /\ at' = NextPos(at)
          /\ q' = IF Skipped(words[at]) THEN <<>>
                                        ELSE invalidate_object(at, "recover")
          /\ UNCHANGED <<pc, ctl, loc>>
       \/ /\ Read(at) = "end"
          /\ q' = add_final_delimiter(ctl, "recover", "old")
          /\ pc' = "retrieve"
          /\ loc' = [loc EXCEPT !.tries = @ + 1]
          /\ UNCHANGED <<ctl, at>>
       \/ /\ Read(at) = "mismatch"
          /\ ctl <= Len(words)
          /\ Page(ctl) = Len(offs)
          /\ LET spilled == IF Page(ctl) # Page(at)
                            THEN <<EraseLast("recover")>> ELSE <<>>
             IN q' = spilled
                     \o [i \in 1..(PageEnd(at) - at + 1) |->
                            WriteWord(at + i - 1, Zero,
                                      IF i = 1 THEN "recover" ELSE "word")]
                     \o <<NewPage(1, "recover")>>
          /\ ctl' = PageEnd(at) + 1
          /\ pc' = "compact"
          /\ loc' = [loc EXCEPT !.ret = "retrieve", !.tries = @ + 1]
          /\ UNCHANGED at
       \/ /\ Read(at) = "mismatch"
          /\ ctl > Len(words) \/ Page(ctl) < Len(offs)
          /\ pc' = "undefined"
          /\ UNCHANGED <<q, ctl, at, loc>>
    /\ UNCHANGED <<words, offs, free, dt, nc, cache, init, may, goal, ops, crashes>>

\* verify_reserved(): reserved objects that were not found get the value
\* zero.  They are in the order of the set here.
verify_reserved ==
    /\ Runs("reserved")
    /\ LET missing == {k \in Reserved : Live(k) = {}}
       IN \/ /\ missing # {}
             /\ \E k \in missing :
                   /\ q' = save_object(ctl, Container(k, 0), "reserved")
                   /\ ctl' = ctl + Size[k] + 1
             /\ loc' = [loc EXCEPT !.saved = TRUE]
             /\ UNCHANGED <<pc, init>>
          \/ /\ missing = {}
             /\ loc.saved
             /\ q' = add_final_delimiter(ctl, "reserved", "reserved")
             /\ ctl' = ctl + 1
             /\ loc' = [loc EXCEPT !.saved = FALSE]
             /\ UNCHANGED <<pc, init>>
          \/ /\ missing = {}
             /\ ~loc.saved
             /\ pc' = "ready"
             /\ init' = FALSE
             /\ UNCHANGED <<q, ctl, loc>>
    /\ UNCHANGED <<words, offs, free, at, dt, nc, cache, may, goal, ops, crashes>>

----------------------------------------------------------------------------
(* compact_nvmem()                                                         *)

\* Fill the current page up and start a new one, unless the controller is at
\* the start of a page or there is no other page.
CompactStart ==
    /\ Runs("compact")
    /\ LET room == PageEnd(ctl) - ctl + 1
           fill == IF room >= 2
                   THEN save_object(ctl, Invalid(Word("old", room - 2, "", 0)),
                                    "compact")
                   ELSE <<>>
       IN \/ /\ Offset(ctl) # 1
             /\ free > 0
             /\ q' = fill \o add_final_delimiter(PageEnd(ctl), "compact",
                                                 "compact")
             /\ ctl' = PageEnd(ctl) + 1
             /\ loc' = [loc EXCEPT !.fence = Page(ctl) + 1, !.saved = FALSE,
                                   !.final = TRUE]
          \/ /\ Offset(ctl) = 1 \/ free = 0
             /\ q' = <<>>
             /\ ctl' = ctl
             /\ loc' = [loc EXCEPT !.fence = Page(ctl), !.saved = FALSE,
                                   !.final = TRUE]
    /\ pc' = "compacting"
    /\ at' = offs[1]
    /\ UNCHANGED <<words, offs, free, dt, nc, cache, init, may, goal, ops, crashes>>

\* One turn of the loop: save a live object again, then release the pages
\* that were read to their end.
compact_nvmem ==
    /\ Runs("compacting")
    /\ Read(at) = "object"
    /\ LET w == words[at]
           next == NextPos(at)
           copy == IF IsLive(w) THEN save_object(ctl, w, "compact") ELSE <<>>
           end == IF IsLive(w) THEN ctl + w.size + 1 ELSE ctl
           saved == loc.saved \/ IsLive(w)
           done == Page(next) - 1
       IN \/ /\ Skipped(w)
             /\ at' = next
             /\ UNCHANGED <<q, ctl, loc, pc>>
          \/ /\ ~Skipped(w)
             /\ done = 0
             /\ q' = copy
             /\ ctl' = end
             /\ at' = next
             /\ loc' = [loc EXCEPT !.saved = saved, !.final = TRUE]
             /\ pc' = IF Page(next) = loc.fence THEN "compacted" ELSE pc
          \/ /\ ~Skipped(w)
             /\ done > 0
             /\ q' = copy
                     \o (IF saved THEN add_delimiter(end, "compact") ELSE <<>>)
                     \o [i \in 1..done |-> EraseFirst("compact")]
                     \o (IF saved
                         THEN finalize_delimiter(end - done * PageWords,
                                                 "compact")
                         ELSE <<>>)
             /\ ctl' = end + (IF saved THEN 1 ELSE 0) - done * PageWords
             /\ at' = next - done * PageWords
             /\ loc' = [loc EXCEPT !.saved = FALSE, !.final = FALSE,
                                   !.fence = @ - done]
             /\ pc' = IF Page(next) = loc.fence THEN "compacted" ELSE pc
    /\ UNCHANGED <<words, offs, free, dt, nc, cache, init, may, goal, ops, crashes>>

\* There was no object, or one that is not whole: during initialization the
\* first page is released all the same, otherwise a failure is reported.
CompactStopped ==
    /\ Runs("compacting")
    /\ Read(at) # "object"
    /\ LET torn == Read(at) = "mismatch" /\ init
           release == torn /\ Page(NextPos(at)) # loc.fence
       IN /\ q' = IF release THEN <<EraseFirst("compact")>> ELSE <<>>
          /\ ctl' = IF release THEN ctl - PageWords ELSE ctl
          /\ pc' = IF torn \/ Read(at) = "end" THEN loc.ret
                   ELSE IF Read(at) = "null" THEN "undefined" ELSE "failed"
    /\ UNCHANGED <<words, offs, free, at, dt, nc, loc, cache, init, may, goal,
                   ops, crashes>>

CompactEnd ==
    /\ Runs("compacted")
    /\ q' = IF loc.final THEN add_final_delimiter(ctl, "compact", "compact")
                         ELSE <<>>
    /\ ctl' = IF loc.final THEN ctl + 1 ELSE ctl
    /\ pc' = loc.ret
    /\ UNCHANGED <<words, offs, free, at, dt, nc, loc, cache, init, may, goal, ops,
                   crashes>>

----------------------------------------------------------------------------
(* setvar()                                                                *)

\* A call is to take the store from what it shows now to new, all at once
\* unless partial says what else a power loss may leave.
Call(new, partial) ==
    /\ Runs("ready")
    /\ ops < MaxOps
    /\ ops' = ops + 1
    /\ goal' = new
    /\ may' = {Contents(cache), new} \cup partial

\* A call with a value, up to the compaction.
setvar(k, v) ==
    /\ Call([Contents(cache) EXCEPT ![k] = v], {})
    /\ pc' = IF compaction_needed THEN "compact" ELSE "setvar"
    /\ loc' = [loc EXCEPT !.key = k, !.val = v, !.ret = "setvar"]
    /\ UNCHANGED <<words, offs, free, q, ctl, at, dt, nc, cache, init,
                   crashes>>

\* A call without a value deletes the first instance of the tuple.
EraseVar(k) ==
    /\ find_var(k) # 0
    /\ Call([Contents(cache) EXCEPT ![k] = 0], {})
    /\ q' = invalidate_object(find_var(k), "old")
    /\ pc' = "done"
    /\ UNCHANGED <<words, offs, free, ctl, at, dt, nc, loc, cache, init,
                   crashes>>

\* Mutant: the old instance is deleted before the delimiter is there.
ReplaceVar_early(old, new, end) ==
    save_object(ctl, new, "new")
    \o invalidate_object(old, "new")
    \o add_delimiter(end, "new")
    \o finalize_delimiter(end, "old")

\* The new instance, the delimiter, the old instance is deleted, and the
\* delimiter is finalized.
ReplaceVar(old, new, end) ==
    save_object(ctl, new, "new")
    \o add_delimiter(end, "new")
    \o invalidate_object(old, "old")
    \o finalize_delimiter(end, "old")

\* The rest of setvar_(): a new tuple, a new value, or nothing to do.
setvar_ ==
    /\ Runs("setvar")
    /\ LET old == find_var(loc.key)
           new == Container(loc.key, loc.val)
           end == ctl + new.size + 1
       IN \/ /\ old = 0
             /\ q' = save_object(ctl, new, "new")
                     \o add_final_delimiter(end, "new", "old")
             /\ ctl' = end + 1
          \/ /\ old # 0
             /\ words[old].val # loc.val
             /\ q' = ReplaceVar(old, new, end)
             /\ ctl' = end + 1
          \/ /\ old # 0
             /\ words[old].val = loc.val
             /\ UNCHANGED <<q, ctl>>
    /\ pc' = "done"
    /\ UNCHANGED <<words, offs, free, at, dt, nc, loc, cache, init, may, goal,
                   ops, crashes>>

\* A call returns: from now on the store must show what it asked for.
Return ==
    /\ Runs("done")
    /\ pc' = "ready"
    /\ may' = {goal}
    /\ UNCHANGED <<words, offs, free, q, ctl, at, dt, nc, loc, cache, init,
                   goal, ops, crashes>>

----------------------------------------------------------------------------
(* new_nvmem_save(): the commit of the TPM objects.                        *)

\* The TPM library changes, adds (to an empty list) or deletes the first
\* instance of an evictable object; 0 stands for deleted.
ChangeFirst(s, v) ==
    IF v = 0 THEN IF s = <<>> THEN s ELSE Tail(s)
    ELSE IF s = <<>> THEN <<v>> ELSE [s EXCEPT ![1] = v]

Changed(r, e) ==
    [reserved |-> r,
     evictable |-> [k \in Evictables |-> ChangeFirst(cache.evictable[k], e[k])]]

\* TPM commands change the cache, then nvmem_save() commits it.
new_nvmem_save(r, e) ==
    /\ Call(Contents(Changed(r, e)), {})
    /\ cache' = Changed(r, e)
    /\ pc' = IF compaction_needed THEN "compact" ELSE "save"
    /\ loc' = [loc EXCEPT !.ret = "save"]
    /\ UNCHANGED <<words, offs, free, q, ctl, at, dt, nc, init, crashes>>

\* init_object_offsets(): every object of the cache is still to be found.
SaveStart ==
    /\ Runs("save")
    /\ pc' = "saving"
    /\ at' = offs[1]
    /\ loc' = [loc EXCEPT !.fence = ctl, !.cand = <<>>,
                          !.objs = cache.evictable]
    /\ UNCHANGED <<words, offs, free, q, ctl, dt, nc, cache, init, may, goal,
                   ops, crashes>>

\* process_reserved() and process_object() for an object that is in flash:
\* a new instance is saved if it changed, the old one is to be deleted when
\* all are saved.
new_nvmem_save_ ==
    /\ Runs("saving")
    /\ LET w == words[at]
           found == Read(at) = "object"
           next == IF \/ Read(at) = "end"
                      \/ found /\ NextPos(at) = loc.fence /\ ~Skipped(w)
                   THEN "save_new" ELSE IF found THEN "saving" ELSE "failed"
           objs == IF w.type = "evictable" THEN loc.objs[w.key] ELSE <<>>
           value == IF w.type = "reserved" THEN cache.reserved[w.key]
                                           ELSE First(objs)
       IN
       /\ pc' = next
       /\ \/ /\ \/ ~found
                \/ w.type \notin {"reserved", "evictable"}
                \/ w.val = value
             /\ at' = IF found THEN NextPos(at) ELSE at
             /\ loc' = IF found /\ w.type = "evictable"
                       THEN [loc EXCEPT !.objs[w.key] = Tail(@)] ELSE loc
             /\ UNCHANGED <<q, ctl>>
          \/ /\ found
             /\ w.type \in {"reserved", "evictable"}
             /\ w.val # value
             /\ w.type = "reserved" \/ objs # <<>>
             /\ at' = NextPos(at)
             /\ q' = save_object(ctl, [w EXCEPT !.val = value], "new")
             /\ ctl' = ctl + w.size + 1
             /\ loc' = IF w.type = "evictable"
                       THEN [loc EXCEPT !.cand = Append(@, at),
                                        !.objs[w.key] = Tail(@)]
                       ELSE [loc EXCEPT !.cand = Append(@, at)]
          \/ /\ found
             /\ w.type = "evictable"
             /\ objs = <<>>
             /\ at' = NextPos(at)
             /\ loc' = [loc EXCEPT !.cand = Append(@, at)]
             /\ UNCHANGED <<q, ctl>>
    /\ UNCHANGED <<words, offs, free, dt, nc, cache, init, may, goal, ops,
                   crashes>>

\* save_new_object(): the objects of the cache that were not in flash.
save_new_object ==
    /\ Runs("save_new")
    /\ \E k \in Evictables :
          /\ loc.objs[k] # <<>>
          /\ q' = save_object(ctl, Container(k, First(loc.objs[k])), "new")
          /\ ctl' = ctl + Size[k] + 1
          /\ loc' = [loc EXCEPT !.objs[k] = Tail(@)]
    /\ UNCHANGED <<words, offs, free, pc, at, dt, nc, cache, init, may, goal,
                   ops, crashes>>

\* The end of the transaction: the delimiter, the deletions, the delimiter
\* is finalized.
SaveEnd ==
    /\ Runs("save_new")
    /\ \A k \in Evictables : loc.objs[k] = <<>>
    /\ \/ /\ loc.cand # <<>> \/ ctl # loc.fence
          /\ q' = add_delimiter(ctl, "new")
                  \o [i \in 1..Len(loc.cand) |->
                         invalidate_object(loc.cand[i], "old")[1]]
                  \o finalize_delimiter(ctl, "old")
          /\ ctl' = ctl + 1
       \/ /\ loc.cand = <<>>
          /\ ctl = loc.fence
          /\ UNCHANGED <<q, ctl>>
    /\ pc' = "done"
    /\ UNCHANGED <<words, offs, free, at, dt, nc, loc, cache, init, may, goal,
                   ops, crashes>>

----------------------------------------------------------------------------
(* nvmem_erase_tpm_data()                                                  *)

Without(S) == [k \in Keys |-> IF k \in S THEN 0 ELSE Contents(cache)[k]]

\* The objects are deleted one by one: some of them may be gone after a power
\* loss.
nvmem_erase_tpm_data ==
    /\ Call(Without(TpmObjects), {Without(S) : S \in SUBSET TpmObjects})
    /\ at' = offs[1]
    /\ pc' = "erase"
    /\ loc' = [loc EXCEPT !.saved = FALSE]
    /\ UNCHANGED <<words, offs, free, q, ctl, dt, nc, cache, init, crashes>>

\* Delete the TPM objects one by one, compact, and initialize again.
EraseObjects ==
    /\ Runs("erase")
    /\ \/ /\ Read(at) = "object"
          /\ words[at].type \in {"reserved", "evictable"}
          /\ at' = NextPos(at)
          /\ q' = invalidate_object(at, "erase")
          /\ loc' = [loc EXCEPT !.saved = TRUE]
          /\ UNCHANGED <<pc, may>>
       \/ /\ Read(at) = "object"
          /\ words[at].type \notin {"reserved", "evictable"}
          /\ at' = NextPos(at)
          /\ UNCHANGED <<q, pc, loc, may>>
       \/ /\ Read(at) # "object"
          /\ pc' = IF loc.saved THEN "compact" ELSE "done"
          /\ loc' = [loc EXCEPT !.ret = "boot"]
          /\ may' = {goal}
          /\ UNCHANGED <<q, at>>
    /\ UNCHANGED <<words, offs, free, ctl, dt, nc, cache, init, goal, ops,
                   crashes>>

----------------------------------------------------------------------------
Initialization ==
    \/ init_page_list \/ StartTry \/ retrieve_nvmem_contents
    \/ verify_delimiter \/ verify_last_section \/ DeleteLeftovers \/ Purge
    \/ verify_reserved

Compaction == CompactStart \/ compact_nvmem \/ CompactStopped \/ CompactEnd

Calls ==
    \/ \E k \in Tuples : EraseVar(k) \/ \E v \in 1..MaxVal : setvar(k, v)
    \/ \E r \in [Reserved -> 0..MaxVal], e \in [Evictables -> 0..MaxVal] :
          new_nvmem_save(r, e)
    \/ nvmem_erase_tpm_data

Saving ==
    \/ setvar_ \/ SaveStart \/ new_nvmem_save_ \/ save_new_object \/ SaveEnd
    \/ EraseObjects \/ Return

Running ==
    \/ FlashStep \/ report_failure \/ system_reset
    \/ Initialization \/ Compaction \/ Saving

Next == Running \/ Calls \/ PowerLoss

\* The thread that was called runs on.
Spec == Init /\ [][Next]_vars /\ WF_vars(Running)

----------------------------------------------------------------------------
(* Properties.                                                             *)

\* Every variable has its type.
TypeOK ==
    /\ Len(words) = Len(offs) * PageWords
    /\ Len(offs) + free = PageCount
    /\ \A i \in DOMAIN offs : offs[i] \in 1..PageWords
    /\ ctl \in Nat /\ at \in Nat /\ dt \in Nat
    /\ goal \in [Keys -> 0..MaxVal]
    /\ init \in BOOLEAN

\* "Either all variables get updated", or none: when the store is ready it
\* shows what the last call asked for, or, after a power loss during the
\* call, either that or what was there before.
AtomicUpdate == pc = "ready" => Contents(cache) \in may

\* Recovery within one start deletes what was saved after the last finalized
\* delimiter and nothing else: once the log was repaired and read again, it
\* shows what it showed before the call that the power loss cut off, or what
\* that call asked for.
RecoveryKeepsCommitted ==
    pc = "reserved" /\ loc.tries > 0 => Contents(cache) \in may

\* No code path goes through a null page pointer or a wrong flash address.
DefinedBehaviour == pc # "undefined"

\* A store that is ready ends with a finalized delimiter, and no object has
\* two live instances.
ReadyIsClean ==
    pc = "ready" =>
        /\ ctl \in 2..Len(words)
        /\ words[ctl - 1] = Finalized
        /\ words[ctl] = Erased
        /\ \A k \in Keys : Cardinality(Live(k)) <= 1

\* The page list is never exhausted.
NeverFails == pc # "failed"

\* Every start of the firmware ends with a store that is ready, unless the
\* code leaves what C defines: the tries of retrieve_nvmem_contents() are
\* limited, and the flash that report_failure() invalidated can be read.
InitCompletes == pc = "boot" ~> pc \in {"ready", "undefined"}
=============================================================================
