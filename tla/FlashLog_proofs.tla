--------------------------- MODULE FlashLog_proofs ---------------------------
(***************************************************************************)
(* Theorems about the event log of FlashLog, for every number of tasks and *)
(* every size of the page.                                                 *)
(***************************************************************************)
EXTENDS FlashLog, WellFoundedInduction, TLAPS

EntrySizes == Sizes \cup {MinSize}
Entry == [at : Nat, stamp : Nat, size : EntrySizes]

Steps == {"check", "lock", "compact", "restore", "write", "reset"}
Types == {"none", "FE_LOG_LOCKS", "FE_LOG_OVERFLOWS", "FE_LOG_TEST",
          "FE_LOG_START", "FE_LOG_CORRUPTED"}
Items == [step : Steps, type : Types, size : {0} \cup EntrySizes]

\* The types that the proofs use; TypeOK follows with the bounds of StoreInv.
Typed ==
    /\ flash \in Seq(Entry) /\ buf \in Seq(Entry)
    /\ garbage \in BOOLEAN /\ log_event_in_progress \in BOOLEAN
    /\ log_write_cursor \in Nat /\ read_cursor \in Nat
    /\ prev_timestamp \in Nat /\ last_used_timestamp \in Nat
    /\ uptime \in Nat /\ log_tstamp_base \in Int
    /\ lock_failures_count \in 0 .. MaxFailures
    /\ overflow_failures_count \in 0 .. MaxFailures
    /\ todo \in [Actors -> Seq(Items)]
    /\ after \in [Readers -> Nat]

\* A list of steps: only the first item is under way; what flash_log_init()
\* does without an entry to add is compaction.
TodoOK(a, q) ==
    /\ \A n \in DOMAIN q : n > 1 => q[n].step \in {"check", "lock"}
    /\ \A n \in DOMAIN q :
          IF q[n].type = "none"
            THEN a = Boot /\ n = 1 /\ q[n].step \in {"compact", "restore"}
            ELSE q[n].size \in EntrySizes
    /\ q # <<>> => q[Len(q)].step # "check"

TodoInv == \A a \in Actors : TodoOK(a, todo[a])

\* Where an actor is, and what it adds.
St(a) == IF todo[a] = <<>> THEN "idle" ELSE todo[a][1].step
Ty(a) == IF todo[a] = <<>> THEN "idle" ELSE todo[a][1].type

Busy == {"compact", "restore", "write"}

\* At most one actor is inside of the log.  It has the lock, unless it is
\* flash_log_init(), before which no task runs.
LockInv ==
    /\ St(Boot) # "idle" => \A t \in Tasks : St(t) = "idle"
    /\ \A a \in Actors :
          St(a) \in Busy => log_event_in_progress \/ (a = Boot /\ Ty(a) = "none")
    /\ \A a, b \in Actors : St(a) \in Busy /\ St(b) \in Busy => a = b

\* Entries follow each other in the page and in time.
Laid(log) ==
    /\ Contiguous(log)
    /\ \A m, n \in DOMAIN log : m < n =>
          /\ log[m].at + log[m].size <= log[n].at
          /\ log[m].stamp < log[n].stamp

Restoring == \E a \in Actors : St(a) = "restore"

\* Between the erasure and the write of a compaction the entries are in the
\* buffer; otherwise they are in flash, and the cursors fit them.  Garbage is
\* there only before the compaction of flash_log_init().
StoreInv ==
    /\ Laid(flash) /\ Laid(buf)
    /\ \A n \in DOMAIN flash : flash[n].stamp <= last_used_timestamp
    /\ \A n \in DOMAIN buf : buf[n].stamp <= last_used_timestamp
    /\ Used(buf) <= COMPACTION_SPACE_PRESERVE
    /\ Used(flash) <= Space /\ log_write_cursor <= Space
    /\ Restoring => flash = <<>>
    /\ ~Restoring => /\ buf = <<>>
                     /\ log_write_cursor = Used(flash)
                     /\ read_cursor <= Len(flash)
    /\ garbage => St(Boot) = "compact"

Inv == Typed /\ TodoInv /\ LockInv /\ StoreInv

\* What the reader passes by was retrieved.
ReadInv ==
    \A r \in Readers : after[r] # 0 /\ prev_timestamp <= after[r] =>
        \A n \in DOMAIN flash : n <= read_cursor => flash[n].stamp <= after[r]

-----------------------------------------------------------------------------
(* Operators *)

\* A set of numbers that is not empty has a least one.
LEMMA LeastIs ==
    ASSUME NEW S, S \subseteq Nat, S # {}
    PROVE  Least(S) \in S /\ \A k \in S : Least(S) <= k
<1>1. PICK m \in S : \A k \in S : <<k, m>> \notin OpToRel(<, Nat)
  BY WFMin, NatLessThanWellFounded
<1>2. \A k \in S : ~(k < m)
  BY <1>1 DEF OpToRel
<1>3. \A k \in S : m <= k
  BY <1>2
<1> QED
  BY <1>3 DEF Least

\* The sizes of the page and of the entries.
LEMMA SizeFacts ==
    /\ Space \in Nat /\ MinSize \in Nat \ {0} /\ EntrySizes \subseteq Nat \ {0}
    /\ COMPACTION_SPACE_PRESERVE \in Nat /\ COMPACTION_SPACE_PRESERVE <= Space
    /\ 0 <= COMPACTION_SPACE_PRESERVE
BY SizesAssumption DEF EntrySizes, COMPACTION_SPACE_PRESERVE

\* The fields of an entry.
LEMMA EntryIs ==
    ASSUME NEW e \in Entry
    PROVE  e.at \in Nat /\ e.stamp \in Nat /\ e.size \in Nat /\ e.size > 0
<1>1. e.at \in Nat /\ e.stamp \in Nat /\ e.size \in EntrySizes
  BY DEF Entry
<1>2. e.size \in Nat \ {0}
  BY <1>1, SizeFacts
<1> QED
  BY <1>1, <1>2

\* The entries of a log end at an offset.
LEMMA UsedIs ==
    ASSUME NEW log \in Seq(Entry)
    PROVE  Used(log) \in Nat /\ LastStamp(log) \in Nat
<1>1. CASE log = <<>>
  BY <1>1 DEF Used, LastStamp
<1>2. CASE log # <<>>
  <2>1. log[Len(log)] \in Entry
    BY <1>2
  <2> QED
    BY <1>2, <2>1, EntryIs DEF Used, LastStamp
<1> QED
  BY <1>1, <1>2

\* The empty log.
LEMMA EmptyLaid == Laid(<<>>) /\ Used(<<>>) = 0 /\ <<>> \in Seq(Entry)
BY DEF Laid, Contiguous, Used

\* The start of a log is a log.
LEMMA PrefixLaid ==
    ASSUME NEW log \in Seq(Entry), Laid(log), NEW n \in 0 .. Len(log)
    PROVE  /\ SubSeq(log, 1, n) \in Seq(Entry) /\ Laid(SubSeq(log, 1, n))
           /\ Used(SubSeq(log, 1, n)) <= Used(log)
<1> DEFINE s == SubSeq(log, 1, n)
<1>1. /\ s \in Seq(Entry) /\ Len(s) = n /\ DOMAIN s = 1 .. n
      /\ DOMAIN log = 1 .. Len(log) /\ Len(log) \in Nat
  OBVIOUS
<1>2. \A k \in 1 .. n : s[k] = log[k] /\ log[k] \in Entry
  OBVIOUS
<1> HIDE DEF s
<1>3. Laid(s)
  <2>1. Contiguous(s)
    <3>1. SUFFICES ASSUME NEW k \in 1 .. n
                   PROVE  s[k].at = IF k = 1 THEN 0 ELSE s[k - 1].at + s[k - 1].size
      BY <1>1 DEF Contiguous
    <3>2. k \in DOMAIN log /\ s[k] = log[k] /\ (k # 1 => s[k - 1] = log[k - 1])
      BY <1>1, <1>2
    <3> QED
      BY <3>2 DEF Laid, Contiguous
  <2> QED
    BY <1>1, <1>2, <2>1 DEF Laid
<1>4. CASE n = 0
  <2>1. s = <<>>
    BY <1>1, <1>4
  <2>2. Used(s) = 0 /\ Used(log) \in Nat
    BY <2>1, UsedIs, EmptyLaid
  <2>3. Used(s) <= Used(log)
    BY <2>2
  <2> QED
    BY <1>1, <1>3, <2>3 DEF s
<1>5. CASE n # 0
  <2>1. s # <<>> /\ log # <<>> /\ n \in DOMAIN log /\ Len(log) \in DOMAIN log
    BY <1>1, <1>5
  <2>2. Used(s) = log[n].at + log[n].size
    BY <1>1, <1>2, <1>5, <2>1 DEF Used
  <2>3. Used(log) = log[Len(log)].at + log[Len(log)].size
    BY <2>1 DEF Used
  <2>4. log[n].at + log[n].size <= log[Len(log)].at + log[Len(log)].size
    <3>1. /\ log[n].at \in Nat /\ log[n].size \in Nat
          /\ log[Len(log)].at \in Nat /\ log[Len(log)].size \in Nat
      BY <1>1, <2>1, EntryIs
    <3>2. n < Len(log) => log[n].at + log[n].size <= log[Len(log)].at
      BY <2>1 DEF Laid
    <3>3. n = Len(log) \/ n < Len(log)
      <4>1. Len(log) \in Nat
        BY <1>1
      <4> QED
        BY <4>1
    <3> QED
      BY <3>1, <3>2, <3>3
  <2> QED
    BY <1>1, <1>3, <2>2, <2>3, <2>4 DEF s
<1> QED
  BY <1>4, <1>5

\* An entry at the end of a log, with a later stamp.
LEMMA AppendLaid ==
    ASSUME NEW log \in Seq(Entry), Laid(log), NEW e \in Entry,
           e.at = Used(log), \A n \in DOMAIN log : log[n].stamp < e.stamp
    PROVE  /\ Append(log, e) \in Seq(Entry) /\ Laid(Append(log, e))
           /\ Used(Append(log, e)) = e.at + e.size
           /\ Len(Append(log, e)) = Len(log) + 1
           /\ \A n \in DOMAIN log : Append(log, e)[n] = log[n]
           /\ Append(log, e)[Len(log) + 1] = e
<1> DEFINE s == Append(log, e)
<1>1. /\ s \in Seq(Entry) /\ Len(s) = Len(log) + 1 /\ DOMAIN s = 1 .. Len(log) + 1
      /\ DOMAIN log = 1 .. Len(log) /\ Len(log) \in Nat
      /\ s[Len(log) + 1] = e
  OBVIOUS
<1>2. \A k \in 1 .. Len(log) : s[k] = log[k] /\ log[k] \in Entry
  OBVIOUS
<1> HIDE DEF s
<1>3. s # <<>>
  BY <1>1
<1>4. Used(s) = e.at + e.size
  BY <1>1, <1>3 DEF Used
<1>5. \A m \in DOMAIN log : log[m].at + log[m].size <= e.at
  <2>1. SUFFICES ASSUME NEW m \in DOMAIN log
                 PROVE  log[m].at + log[m].size <= e.at
    OBVIOUS
  <2>2. log # <<>> /\ e.at = log[Len(log)].at + log[Len(log)].size
    BY <1>1, <2>1 DEF Used
  <2>3. /\ log[m].at \in Nat /\ log[m].size \in Nat
        /\ log[Len(log)].at \in Nat /\ log[Len(log)].size \in Nat
    BY <1>1, <1>2, <2>1, EntryIs
  <2>4. m < Len(log) => log[m].at + log[m].size <= log[Len(log)].at
    BY <1>1, <2>1 DEF Laid
  <2>5. m = Len(log) \/ m < Len(log)
    BY <1>1, <2>1
  <2> QED
    BY <2>2, <2>3, <2>4, <2>5
<1>6. Contiguous(s)
  <2>1. SUFFICES ASSUME NEW n \in DOMAIN s
                 PROVE  s[n].at = IF n = 1 THEN 0 ELSE s[n - 1].at + s[n - 1].size
    BY DEF Contiguous
  <2>2. CASE n \in 1 .. Len(log)
    <3>1. n \in DOMAIN log /\ s[n] = log[n] /\ (n # 1 => s[n - 1] = log[n - 1])
      BY <1>1, <1>2, <2>2
    <3> QED
      BY <3>1 DEF Laid, Contiguous
  <2>3. CASE n = Len(log) + 1
    <3>1. CASE log = <<>>
      BY <1>1, <2>3, <3>1 DEF Used
    <3>2. CASE log # <<>>
      BY <1>1, <1>2, <2>3, <3>2 DEF Used
    <3> QED
      BY <3>1, <3>2
  <2> QED
    BY <1>1, <2>2, <2>3
<1>7. ASSUME NEW m \in DOMAIN s, NEW n \in DOMAIN s, m < n
      PROVE  s[m].at + s[m].size <= s[n].at /\ s[m].stamp < s[n].stamp
  <2>1. m \in DOMAIN log /\ s[m] = log[m]
    BY <1>1, <1>2, <1>7
  <2>2. CASE n \in DOMAIN log
    BY <1>1, <1>2, <1>7, <2>1, <2>2 DEF Laid
  <2>3. CASE n = Len(log) + 1
    BY <1>1, <1>5, <2>1, <2>3
  <2> QED
    BY <1>1, <2>2, <2>3
<1> QED
  BY <1>1, <1>2, <1>4, <1>6, <1>7 DEF Laid, s

\* What Preserved keeps is a log that fits into the buffer.
LEMMA PreservedIs ==
    ASSUME flash \in Seq(Entry), Laid(flash), log_write_cursor = Used(flash)
    PROVE  /\ Preserved \in Seq(Entry) /\ Laid(Preserved)
           /\ Used(Preserved) <= COMPACTION_SPACE_PRESERVE
           /\ \A k \in DOMAIN Preserved : \E n \in DOMAIN flash :
                 Preserved[k].stamp = flash[n].stamp
<1> DEFINE kept == {n \in DOMAIN flash :
                      log_write_cursor - flash[n].at <= COMPACTION_SPACE_PRESERVE}
           f == Least(kept)
           s == [n \in 1 .. Len(flash) - f + 1 |->
                   [flash[f + n - 1] EXCEPT !.at = @ - flash[f].at]]
<1>1. CASE kept = {}
  <2>1. Preserved = <<>>
    BY <1>1 DEF Preserved
  <2> QED
    BY <2>1, EmptyLaid, SizeFacts
<1>2. CASE kept # {}
  <2>1. Preserved = s
    BY <1>2 DEF Preserved
  <2>2. /\ Len(flash) \in Nat /\ DOMAIN flash = 1 .. Len(flash)
        /\ \A n \in DOMAIN flash : flash[n] \in Entry
    OBVIOUS
  <2>3. kept \subseteq Nat /\ kept \subseteq DOMAIN flash
    BY <2>2
  <2>4. /\ f \in 1 .. Len(flash)
        /\ log_write_cursor - flash[f].at <= COMPACTION_SPACE_PRESERVE
    <3> HIDE DEF kept
    <3>1. Least(kept) \in kept
      BY <1>2, <2>3, LeastIs
    <3> QED
      BY <2>2, <2>3, <3>1 DEF kept
  <2> HIDE DEF kept, f
  <2>5. /\ \A n \in DOMAIN flash : /\ flash[n].at \in Nat /\ flash[n].size \in Nat
                                   /\ flash[n].stamp \in Nat /\ flash[n].size \in EntrySizes
        /\ \A n \in DOMAIN flash : f <= n => flash[f].at <= flash[n].at
    <3>1. \A n \in DOMAIN flash : /\ flash[n].at \in Nat /\ flash[n].size \in Nat
                                  /\ flash[n].stamp \in Nat /\ flash[n].size \in EntrySizes
      BY <2>2, EntryIs DEF Entry
    <3>2. ASSUME NEW n \in DOMAIN flash, f <= n
          PROVE  flash[f].at <= flash[n].at
      <4>1. f \in DOMAIN flash /\ n \in Nat /\ f \in Nat
        BY <2>2, <2>4
      <4>2. f < n => flash[f].at + flash[f].size <= flash[n].at
        BY <4>1 DEF Laid
      <4>3. f = n \/ f < n
        BY <3>2, <4>1
      <4> QED
        BY <3>1, <4>1, <4>2, <4>3
    <3> QED
      BY <3>1, <3>2
  <2> DEFINE L == Len(flash) - f + 1
  <2>6. L \in Nat /\ L >= 1 /\ f + L - 1 = Len(flash)
    BY <2>2, <2>4
  <2>7. ASSUME NEW n \in 1 .. L
        PROVE  /\ f + n - 1 \in DOMAIN flash /\ f <= f + n - 1
               /\ s[n].at = flash[f + n - 1].at - flash[f].at
               /\ s[n].size = flash[f + n - 1].size
               /\ s[n].stamp = flash[f + n - 1].stamp
               /\ s[n] \in Entry
    <3>1. f + n - 1 \in DOMAIN flash /\ f <= f + n - 1
      BY <2>2, <2>4, <2>6
    <3>2. s[n] = [flash[f + n - 1] EXCEPT !.at = @ - flash[f].at]
      OBVIOUS
    <3>3. flash[f + n - 1] \in Entry
      BY <2>2, <3>1
    <3> DEFINE e == flash[f + n - 1]
               b == flash[f].at
    <3>4. e.at - b \in Nat
      <4>1. e.at \in Nat /\ b \in Nat /\ b <= e.at
        BY <2>2, <2>4, <2>5, <3>1
      <4> HIDE DEF e, b
      <4> QED
        BY <4>1
    <3> HIDE DEF e, b
    <3>5. e \in Entry
      BY <3>3 DEF e
    <3>6. /\ [e EXCEPT !.at = @ - b].at = e.at - b
          /\ [e EXCEPT !.at = @ - b].size = e.size
          /\ [e EXCEPT !.at = @ - b].stamp = e.stamp
          /\ [e EXCEPT !.at = @ - b] \in Entry
      BY <3>4, <3>5 DEF Entry
    <3> QED
      BY <3>1, <3>2, <3>6 DEF e, b
  <2>8. DOMAIN s = 1 .. L
    OBVIOUS
  <2>9. s \in Seq(Entry) /\ Len(s) = L
    <3>1. s \in [1 .. L -> Entry]
      BY <2>7
    <3> QED
      BY <2>6, <3>1
  <2> HIDE DEF s
  <2>10. Contiguous(s)
    <3>1. SUFFICES ASSUME NEW n \in 1 .. L
                   PROVE  s[n].at = IF n = 1 THEN 0 ELSE s[n - 1].at + s[n - 1].size
      BY <2>8 DEF Contiguous
    <3>2. CASE n = 1
      <4>1. f + n - 1 = f
        BY <2>4, <3>2
      <4> QED
        BY <2>2, <2>4, <2>5, <2>7, <3>2, <4>1
    <3>3. CASE n # 1
      <4>1. n - 1 \in 1 .. L
        BY <2>6, <3>3
      <4> DEFINE k == f + n - 1
      <4>2. /\ k \in DOMAIN flash /\ k - 1 \in DOMAIN flash /\ k # 1
            /\ f + (n - 1) - 1 = k - 1
        BY <2>2, <2>4, <2>7, <4>1
      <4>3. flash[k].at = flash[k - 1].at + flash[k - 1].size
        BY <4>2 DEF Laid, Contiguous
      <4>4. s[n].at = flash[k].at - flash[f].at
        BY <2>7
      <4>5. /\ s[n - 1].at = flash[k - 1].at - flash[f].at
            /\ s[n - 1].size = flash[k - 1].size
        BY <2>7, <4>1, <4>2
      <4> HIDE DEF k
      <4>6. /\ flash[k - 1].at \in Nat /\ flash[k - 1].size \in Nat
            /\ flash[f].at \in Nat
        BY <2>2, <2>4, <2>5, <4>2
      <4> QED
        BY <3>3, <4>3, <4>4, <4>5, <4>6
    <3> QED
      BY <3>2, <3>3
  <2>11. ASSUME NEW m \in 1 .. L, NEW n \in 1 .. L, m < n
         PROVE  s[m].at + s[m].size <= s[n].at /\ s[m].stamp < s[n].stamp
    <3> DEFINE i == f + m - 1
               j == f + n - 1
    <3>1. /\ i \in DOMAIN flash /\ j \in DOMAIN flash /\ i < j
      BY <2>2, <2>4, <2>7, <2>11
    <3>2. /\ s[m].at = flash[i].at - flash[f].at /\ s[m].size = flash[i].size
          /\ s[n].at = flash[j].at - flash[f].at
          /\ s[m].stamp = flash[i].stamp /\ s[n].stamp = flash[j].stamp
      BY <2>7
    <3> HIDE DEF i, j
    <3>3. flash[i].at + flash[i].size <= flash[j].at /\ flash[i].stamp < flash[j].stamp
      BY <3>1 DEF Laid
    <3>4. /\ flash[i].at \in Nat /\ flash[i].size \in Nat /\ flash[j].at \in Nat
          /\ flash[f].at \in Nat
      BY <2>2, <2>4, <2>5, <3>1
    <3>5. \A x, y, z, w \in Nat : x + y <= z => x - w + y <= z - w
      OBVIOUS
    <3> QED
      BY <3>2, <3>3, <3>4, <3>5
  <2>12. Used(s) <= COMPACTION_SPACE_PRESERVE
    <3>1. s # <<>> /\ flash # <<>>
      BY <2>2, <2>4, <2>6, <2>9
    <3>2. Used(s) = s[L].at + s[L].size
      BY <2>9, <3>1 DEF Used
    <3>3. L \in 1 .. L
      BY <2>6
    <3>4. s[L].at = flash[Len(flash)].at - flash[f].at /\ s[L].size = flash[Len(flash)].size
      BY <2>6, <2>7, <3>3
    <3>5. log_write_cursor = flash[Len(flash)].at + flash[Len(flash)].size
      BY <3>1 DEF Used
    <3>6. /\ flash[Len(flash)].at \in Nat /\ flash[Len(flash)].size \in Nat
          /\ flash[f].at \in Nat
      BY <2>2, <2>4, <2>5
    <3> QED
      BY <2>4, <3>2, <3>4, <3>5, <3>6
  <2>13. \A k \in DOMAIN s : \E n \in DOMAIN flash : s[k].stamp = flash[n].stamp
    BY <2>7, <2>8
  <2> QED
    BY <2>1, <2>8, <2>9, <2>10, <2>11, <2>12, <2>13 DEF Laid
<1> QED
  BY <1>1, <1>2

-----------------------------------------------------------------------------
(* The lists of steps *)

\* GoTo changes the step of one actor.
LEMMA GoToIs ==
    ASSUME todo \in [Actors -> Seq(Items)], TodoInv,
           NEW a \in Actors, todo[a] # <<>>,
           NEW step \in Steps \ {"check"}, GoTo(a, step),
           Ty(a) = "none" => step \in {"compact", "restore"}
    PROVE  /\ todo' \in [Actors -> Seq(Items)] /\ TodoInv'
           /\ \A b \in Actors : b # a => todo'[b] = todo[b]
           /\ St(a)' = step /\ Ty(a)' = Ty(a)
           /\ \A b \in Actors : b # a => St(b)' = St(b) /\ Ty(b)' = Ty(b)
<1> DEFINE q == todo[a]
           p == [q EXCEPT ![1].step = step]
<1>1. q \in Seq(Items) /\ q # <<>> /\ Len(q) \in Nat \ {0} /\ 1 \in DOMAIN q
      /\ DOMAIN q = 1 .. Len(q)
  OBVIOUS
<1>2. todo' = [todo EXCEPT ![a] = p]
  BY DEF GoTo
<1> HIDE DEF q
<1>3. \A n \in 1 .. Len(q) : q[n] \in Items
  BY <1>1
<1>4. /\ DOMAIN p = 1 .. Len(q)
      /\ p[1] = [q[1] EXCEPT !.step = step]
      /\ \A n \in 2 .. Len(q) : p[n] = q[n]
  BY <1>1
<1>5. /\ p[1] \in Items /\ p[1].step = step /\ p[1].type = q[1].type
      /\ p[1].size = q[1].size
  BY <1>1, <1>3, <1>4 DEF Items
<1>6. \A n \in 1 .. Len(q) : p[n] \in Items
  BY <1>3, <1>4, <1>5
<1>7. p \in Seq(Items) /\ Len(p) = Len(q) /\ p # <<>>
  <2>1. p \in [1 .. Len(q) -> Items]
    BY <1>4, <1>6
  <2> QED
    BY <1>1, <2>1
<1> HIDE DEF p
<1>8. /\ todo' \in [Actors -> Seq(Items)] /\ todo'[a] = p
      /\ \A b \in Actors : b # a => todo'[b] = todo[b]
  BY <1>2, <1>7
<1>9. TodoOK(a, p)
  <2>1. TodoOK(a, q)
    BY DEF TodoInv, q
  <2>2. Ty(a) = q[1].type
    BY DEF Ty, q
  <2>3. \A n \in DOMAIN p : n > 1 => p[n].step \in {"check", "lock"}
    BY <1>1, <1>4, <2>1 DEF TodoOK
  <2>4. ASSUME NEW n \in DOMAIN p
        PROVE  IF p[n].type = "none"
                 THEN a = Boot /\ n = 1 /\ p[n].step \in {"compact", "restore"}
                 ELSE p[n].size \in EntrySizes
    <3>1. CASE n = 1
      BY <1>1, <1>5, <2>1, <2>2, <3>1 DEF TodoOK
    <3>2. CASE n # 1
      BY <1>1, <1>4, <2>1, <3>2 DEF TodoOK
    <3> QED
      BY <3>1, <3>2
  <2>5. p[Len(p)].step # "check"
    <3>1. CASE Len(q) = 1
      BY <1>5, <1>7, <3>1
    <3>2. CASE Len(q) # 1
      BY <1>1, <1>4, <1>7, <2>1, <3>2 DEF TodoOK
    <3> QED
      BY <3>1, <3>2
  <2> QED
    BY <2>3, <2>4, <2>5 DEF TodoOK
<1>10. TodoInv'
  BY <1>8, <1>9 DEF TodoInv
<1>11. St(a)' = step /\ Ty(a)' = Ty(a)
  BY <1>1, <1>5, <1>7, <1>8 DEF St, Ty, q
<1> QED
  BY <1>8, <1>10, <1>11 DEF St, Ty

\* Leave goes on to the next item, which has not begun.
LEMMA LeaveIs ==
    ASSUME todo \in [Actors -> Seq(Items)], TodoInv,
           NEW a \in Actors, todo[a] # <<>>, Leave(a)
    PROVE  /\ todo' \in [Actors -> Seq(Items)] /\ TodoInv'
           /\ \A b \in Actors : b # a => todo'[b] = todo[b]
           /\ St(a)' \in {"idle", "check", "lock"}
           /\ \A b \in Actors : b # a => St(b)' = St(b) /\ Ty(b)' = Ty(b)
<1> DEFINE q == todo[a]
           p == Tail(q)
<1>1. q \in Seq(Items) /\ q # <<>> /\ Len(q) \in Nat \ {0}
      /\ DOMAIN q = 1 .. Len(q)
  OBVIOUS
<1>2. todo' = [todo EXCEPT ![a] = p]
  BY DEF Leave
<1>3. /\ p \in Seq(Items) /\ Len(p) = Len(q) - 1 /\ DOMAIN p = 1 .. Len(q) - 1
      /\ \A n \in 1 .. Len(q) - 1 : p[n] = q[n + 1]
  BY <1>1
<1> HIDE DEF p, q
<1>4. /\ todo' \in [Actors -> Seq(Items)] /\ todo'[a] = p
      /\ \A b \in Actors : b # a => todo'[b] = todo[b]
  BY <1>2, <1>3
<1>5. TodoOK(a, q)
  BY DEF TodoInv, q
<1>6. ASSUME NEW n \in DOMAIN p
      PROVE  /\ p[n].step \in {"check", "lock"} /\ p[n].type # "none"
             /\ p[n].size \in EntrySizes
  <2>1. n + 1 \in DOMAIN q /\ n + 1 > 1 /\ p[n] = q[n + 1]
    BY <1>1, <1>3
  <2> QED
    BY <1>5, <2>1 DEF TodoOK
<1>7. p # <<>> => p[Len(p)] = q[Len(q)]
  BY <1>1, <1>3
<1>8. TodoOK(a, p)
  BY <1>1, <1>5, <1>6, <1>7 DEF TodoOK
<1>9. TodoInv'
  BY <1>4, <1>8 DEF TodoInv
<1>10. St(a)' \in {"idle", "check", "lock"}
  <2>1. p # <<>> => 1 \in DOMAIN p
    BY <1>3
  <2> QED
    BY <1>4, <1>6, <2>1 DEF St
<1> QED
  BY <1>4, <1>9, <1>10 DEF St, Ty

\* Due passes reports, and begins with what is left.
LEMMA DueIs ==
    ASSUME NEW a \in Actors, NEW q \in Seq(Items), q # <<>>, TodoOK(a, q),
           q[1].type # "none"
    PROVE  /\ Due(q) \in Seq(Items) /\ TodoOK(a, Due(q)) /\ Due(q) # <<>>
           /\ Due(q)[1].step = "lock"
<1> DEFINE S == {n \in DOMAIN q :
                    ~(q[n].step = "check" /\ Failures(q[n].type) = 0)}
           f == Least(S)
           s == SubSeq(q, f, Len(q))
           p == [s EXCEPT ![1].step = "lock"]
<1>1. /\ Len(q) \in Nat \ {0} /\ DOMAIN q = 1 .. Len(q)
      /\ \A n \in 1 .. Len(q) : q[n] \in Items
  OBVIOUS
<1>2. Len(q) \in S
  BY <1>1 DEF TodoOK
<1>3. f \in 1 .. Len(q)
  <2>1. S \subseteq Nat /\ S \subseteq 1 .. Len(q) /\ S # {}
    BY <1>1, <1>2
  <2> HIDE DEF S
  <2> QED
    BY <2>1, LeastIs
<1>4. Due(q) = p
  BY DEF Due
<1> HIDE DEF S, f
<1>5. /\ s \in Seq(Items) /\ Len(s) = Len(q) - f + 1
      /\ DOMAIN s = 1 .. Len(q) - f + 1
      /\ \A n \in 1 .. Len(q) - f + 1 : s[n] = q[f + n - 1]
  BY <1>1, <1>3
<1> HIDE DEF s
<1> DEFINE L == Len(q) - f + 1
<1>6. L \in Nat \ {0} /\ f + L - 1 = Len(q)
  BY <1>1, <1>3
<1>7. \A n \in 1 .. L : f + n - 1 \in 1 .. Len(q) /\ (n > 1 => f + n - 1 > 1)
  BY <1>1, <1>3
<1>8. /\ DOMAIN p = 1 .. L
      /\ p[1] = [s[1] EXCEPT !.step = "lock"]
      /\ \A n \in 2 .. L : p[n] = s[n]
  BY <1>5, <1>6
<1>9. \A n \in 1 .. L : s[n] \in Items /\ s[n].type # "none" /\ s[n].size \in EntrySizes
                        /\ (n > 1 => s[n].step \in {"check", "lock"})
  <2>1. \A n \in 1 .. Len(q) :
            /\ q[n] \in Items /\ q[n].type # "none" /\ q[n].size \in EntrySizes
            /\ (n > 1 => q[n].step \in {"check", "lock"})
    BY <1>1 DEF TodoOK
  <2> QED
    BY <1>5, <1>7, <2>1
<1>10. /\ p[1] \in Items /\ p[1].step = "lock" /\ p[1].type = s[1].type
       /\ p[1].size = s[1].size
  BY <1>6, <1>8, <1>9 DEF Items, Steps
<1>11. \A n \in 1 .. L :
           /\ p[n] \in Items /\ p[n].type # "none" /\ p[n].size \in EntrySizes
           /\ (n > 1 => p[n].step \in {"check", "lock"})
  BY <1>6, <1>8, <1>9, <1>10
<1>12. p \in Seq(Items) /\ Len(p) = L /\ p # <<>>
  <2>1. p \in [1 .. L -> Items]
    BY <1>8, <1>11
  <2> HIDE DEF p, L
  <2> QED
    BY <1>6, <2>1
<1> HIDE DEF p
<1>13. p[Len(p)].step # "check"
  <2>1. CASE L = 1
    BY <1>10, <1>12, <2>1
  <2>2. CASE L # 1
    <3>1. p[L] = q[Len(q)]
      BY <1>5, <1>6, <1>8, <2>2
    <3> QED
      BY <1>12, <3>1 DEF TodoOK
  <2> QED
    BY <2>1, <2>2
<1>14. TodoOK(a, p)
  BY <1>8, <1>11, <1>13 DEF TodoOK
<1> QED
  BY <1>4, <1>10, <1>12, <1>14

-----------------------------------------------------------------------------
(* The invariant *)

\* flash_log_init() after a scan that found such a log begins with what InitTodo
\* says, and no task runs.
LEMMA ScanInv ==
    ASSUME NEW log \in Seq(Entry), NEW bad \in BOOLEAN,
           Laid(log), Used(log) <= Space,
           flash_log_init(log, bad), after' \in [Readers -> Nat]
    PROVE  Inv'
<1> USE DEF Boot, Actors
<1> DEFINE q == InitTodo(log, bad)
<1>1. q \in Seq(Items) /\ TodoOK(Boot, q)
  <2>1. MinSize \in EntrySizes
    BY DEF EntrySizes
  <2>2. /\ Item("compact", "none", 0) \in Items
        /\ Item("lock", "FE_LOG_CORRUPTED", MinSize) \in Items
        /\ Item("lock", "FE_LOG_START", MinSize) \in Items
    BY <2>1 DEF Item, Items, Steps, Types
  <2>3. CASE bad
    BY <2>1, <2>2, <2>3 DEF InitTodo, TodoOK, Item
  <2>4. CASE ~bad /\ log = <<>>
    BY <2>1, <2>2, <2>4 DEF InitTodo, TodoOK, Item
  <2>5. CASE ~bad /\ log # <<>>
    BY <2>1, <2>2, <2>5 DEF InitTodo, TodoOK, Item, Idle
  <2> QED
    BY <2>3, <2>4, <2>5
<1>2. bad => q # <<>> /\ q[1].step = "compact" /\ q[1].type = "none"
  BY DEF InitTodo, Item
<1>3. q # <<>> => \/ q[1].step = "compact" /\ q[1].type = "none"
                  \/ q[1].step = "lock"
  BY DEF InitTodo, Item, Idle
<1> HIDE DEF q
<1>4. todo' = [a \in Actors |-> IF a = Boot THEN q ELSE <<>>]
  BY DEF flash_log_init, q, Idle
<1>5. Typed'
  <2>1. todo' \in [Actors -> Seq(Items)]
    BY <1>1, <1>4
  <2>2. 0 \in 0 .. MaxFailures /\ FALSE \in BOOLEAN
    BY SizesAssumption
  <2>3. /\ flash' \in Seq(Entry) /\ buf' \in Seq(Entry)
        /\ log_write_cursor' \in Nat /\ read_cursor' \in Nat
        /\ prev_timestamp' \in Nat /\ last_used_timestamp' \in Nat
        /\ uptime' \in Nat /\ log_tstamp_base' \in Int
    BY UsedIs, EmptyLaid DEF flash_log_init
  <2>4. /\ garbage' \in BOOLEAN /\ log_event_in_progress' \in BOOLEAN
        /\ lock_failures_count' \in 0 .. MaxFailures
        /\ overflow_failures_count' \in 0 .. MaxFailures
    BY <2>2, Zenon DEF flash_log_init
  <2> QED
    BY <2>1, <2>3, <2>4 DEF Typed
<1>6. "init" \notin Tasks
  BY SizesAssumption
<1>7. TodoInv'
  <2>1. \A a : TodoOK(a, <<>>)
    BY DEF TodoOK
  <2> QED
    BY <1>1, <1>4, <2>1 DEF TodoInv
<1>8. /\ \A t \in Tasks : St(t)' = "idle"
      /\ St(Boot)' \in {"idle", "compact", "lock"}
      /\ St(Boot)' = "compact" => Ty(Boot)' = "none"
      /\ bad => St(Boot)' = "compact"
  BY <1>2, <1>3, <1>4, <1>6 DEF St, Ty
<1>9. LockInv'
  BY <1>6, <1>8 DEF LockInv, Busy
<1>10. StoreInv'
  <2>1. ~Restoring'
    BY <1>8 DEF Restoring
  <2>2. \A n \in DOMAIN log : log[n].stamp <= LastStamp(log)
    <3>1. SUFFICES ASSUME NEW n \in DOMAIN log
                   PROVE  log[n].stamp <= LastStamp(log)
      OBVIOUS
    <3>2. /\ log # <<>> /\ Len(log) \in DOMAIN log
          /\ n = Len(log) \/ n < Len(log)
          /\ log[n].stamp \in Nat /\ log[Len(log)].stamp \in Nat
      BY EntryIs
    <3> QED
      BY <3>2 DEF LastStamp, Laid
  <2>3. Used(buf') <= COMPACTION_SPACE_PRESERVE /\ Laid(buf') /\ buf' = <<>>
    BY EmptyLaid, SizeFacts DEF flash_log_init
  <2>4. /\ flash' = log /\ garbage' = bad /\ log_write_cursor' = Used(log)
        /\ read_cursor' = 0 /\ last_used_timestamp' = LastStamp(log)
    BY DEF flash_log_init
  <2>5. Len(log) \in Nat
    OBVIOUS
  <2> QED
    BY <1>8, <2>1, <2>2, <2>3, <2>4, <2>5 DEF StoreInv
<1> QED
  BY <1>5, <1>7, <1>9, <1>10 DEF Inv

\* The first boot finds an empty page.
LEMMA InitInv == Init => Inv
<1> SUFFICES ASSUME Init PROVE Inv
  OBVIOUS
<1> USE DEF Boot, Actors
<1> DEFINE q == InitTodo(<<>>, FALSE)
<1>0. q = <<Item("lock", "FE_LOG_START", MinSize)>> /\ "init" \notin Tasks
  BY SizesAssumption DEF InitTodo
<1>1. q \in Seq(Items) /\ TodoOK(Boot, q) /\ q # <<>> /\ q[1].step = "lock"
  <2>1. MinSize \in EntrySizes
    BY DEF EntrySizes
  <2>2. Item("lock", "FE_LOG_START", MinSize) \in Items
    BY <2>1 DEF Item, Items, Steps, Types
  <2> QED
    BY <2>1, <2>2 DEF TodoOK, Item, InitTodo
<1> HIDE DEF q
<1>2. todo = [a \in Actors |-> IF a = Boot THEN q ELSE <<>>]
  BY DEF Init, q, Idle
<1>3. todo \in [Actors -> Seq(Items)]
  BY <1>1, <1>2
<1>4. Typed
  <2>1. 0 \in 0 .. MaxFailures /\ FALSE \in BOOLEAN
    BY SizesAssumption
  <2>2. after \in [Readers -> Nat]
    BY DEF Init
  <2>3. /\ garbage \in BOOLEAN /\ log_event_in_progress \in BOOLEAN
        /\ lock_failures_count \in 0 .. MaxFailures
        /\ overflow_failures_count \in 0 .. MaxFailures
    BY <2>1, Zenon DEF Init
  <2>4. /\ flash \in Seq(Entry) /\ buf \in Seq(Entry)
        /\ log_write_cursor \in Nat /\ read_cursor \in Nat
        /\ prev_timestamp \in Nat /\ last_used_timestamp \in Nat
        /\ uptime \in Nat /\ log_tstamp_base \in Int
    BY EmptyLaid DEF Init
  <2> QED
    BY <1>3, <2>2, <2>3, <2>4 DEF Typed
<1>5. TodoInv
  <2>1. \A a : TodoOK(a, <<>>)
    BY DEF TodoOK
  <2> QED
    BY <1>1, <1>2, <2>1 DEF TodoInv
<1>6. St(Boot) = "lock" /\ \A t \in Tasks : St(t) = "idle"
  BY <1>0, <1>1, <1>2 DEF St
<1>7. LockInv
  BY <1>0, <1>6 DEF LockInv, Busy
<1>8. StoreInv
  <2>1. ~Restoring
    BY <1>6 DEF Restoring
  <2> QED
    BY <1>6, <2>1, EmptyLaid, SizeFacts DEF StoreInv, Init
<1> QED
  BY <1>4, <1>5, <1>7, <1>8 DEF Inv

\* A loss of power leaves a log: what is in flash, or a part of the buffer.
LEMMA PowerLossInv == Inv /\ PowerLoss => Inv'
<1> SUFFICES ASSUME Inv, PowerLoss PROVE Inv'
  OBVIOUS
<1>1. PICK s \in Interrupted : flash_log_init(s.log, s.bad)
  BY DEF PowerLoss
<1>2. /\ s.log \in Seq(Entry) /\ Laid(s.log) /\ Used(s.log) <= Space
      /\ s.bad \in BOOLEAN
  <2>1. CASE s.log = flash /\ s.bad \in BOOLEAN
    BY <2>1 DEF Inv, Typed, StoreInv
  <2>2. CASE s.log = <<>> /\ s.bad \in BOOLEAN
    BY <2>2, EmptyLaid, SizeFacts
  <2>3. ASSUME NEW n \in 0 .. Len(buf), s.log = SubSeq(buf, 1, n), s.bad \in BOOLEAN
        PROVE  /\ s.log \in Seq(Entry) /\ Laid(s.log) /\ Used(s.log) <= Space
               /\ s.bad \in BOOLEAN
    <3>1. /\ s.log \in Seq(Entry) /\ Laid(s.log) /\ Used(s.log) <= Used(buf)
          /\ Used(buf) \in Nat /\ Used(buf) <= COMPACTION_SPACE_PRESERVE
      BY <2>3, PrefixLaid, UsedIs DEF Inv, Typed, StoreInv
    <3>2. Used(s.log) \in Nat
      BY <3>1, UsedIs
    <3> QED
      BY <2>3, <3>1, <3>2, SizeFacts
  <2>4. \/ s.log = flash /\ s.bad \in BOOLEAN
        \/ s.log = <<>> /\ s.bad \in BOOLEAN
        \/ \E n \in 0 .. Len(buf) : s.log = SubSeq(buf, 1, n) /\ s.bad \in BOOLEAN
    <3>1. garbage \in BOOLEAN /\ TRUE \in BOOLEAN
      BY DEF Inv, Typed
    <3> DEFINE Cut == {[log |-> SubSeq(buf, 1, n), bad |-> b] :
                          n \in 0 .. Len(buf), b \in BOOLEAN}
               Gone == {[log |-> <<>>, bad |-> b] : b \in BOOLEAN}
               P(step) == \E a \in Actors : todo[a] # Idle /\ todo[a][1].step = step
    <3>2. Interrupted = {[log |-> flash, bad |-> garbage]}
                        \cup IF P("write") THEN {[log |-> flash, bad |-> TRUE]} ELSE {}
                        \cup IF P("restore") THEN Cut ELSE {}
                        \cup IF P("compact") THEN Gone ELSE {}
      BY DEF Interrupted
    <3>3. \A c \in Cut : \E n \in 0 .. Len(buf) :
              c.log = SubSeq(buf, 1, n) /\ c.bad \in BOOLEAN
      OBVIOUS
    <3>4. \A c \in Gone : c.log = <<>> /\ c.bad \in BOOLEAN
      OBVIOUS
    <3> HIDE DEF Cut, Gone, P
    <3>5. \/ s = [log |-> flash, bad |-> garbage]
          \/ s = [log |-> flash, bad |-> TRUE]
          \/ s \in Cut \/ s \in Gone
      BY <3>2
    <3>6. CASE s = [log |-> flash, bad |-> garbage]
      BY <3>1, <3>6
    <3>7. CASE s = [log |-> flash, bad |-> TRUE]
      BY <3>1, <3>7
    <3> QED
      BY <3>3, <3>4, <3>5, <3>6, <3>7
  <2> QED
    BY <2>1, <2>2, <2>3, <2>4
<1>3. after' \in [Readers -> Nat]
  BY DEF PowerLoss, Inv, Typed
<1> QED
  BY <1>1, <1>2, <1>3, ScanInv

\* One actor moves: at most one is inside of the log afterwards.
LEMMA LockStep ==
    ASSUME LockInv, NEW a \in Actors,
           a = Boot => St(Boot) # "idle", a # Boot => St(Boot) = "idle",
           \A b \in Actors : b # a => St(b)' = St(b) /\ Ty(b)' = Ty(b),
           \/ St(a)' \notin Busy /\ log_event_in_progress' = log_event_in_progress
           \/ St(a)' \notin Busy /\ St(a) \in Busy
           \/ /\ St(a)' \in Busy /\ St(a) \in Busy /\ Ty(a)' = Ty(a)
              /\ log_event_in_progress' = log_event_in_progress
           \/ /\ St(a)' \in Busy /\ St(a) \notin Busy
              /\ ~log_event_in_progress /\ log_event_in_progress'
    PROVE  LockInv'
<1>1. Boot \in Actors /\ Tasks \subseteq Actors /\ Actors = Tasks \cup {Boot}
      /\ Boot \notin Tasks
  BY SizesAssumption DEF Actors, Boot
<1>2. St(Boot)' # "idle" => \A t \in Tasks : St(t)' = "idle"
  BY <1>1 DEF LockInv
<1>3. ASSUME NEW b \in Actors, St(b)' \in Busy
      PROVE  log_event_in_progress' \/ (b = Boot /\ Ty(b)' = "none")
  BY <1>3 DEF LockInv
<1>4. ASSUME NEW b \in Actors, NEW c \in Actors, St(b)' \in Busy, St(c)' \in Busy
      PROVE  b = c
  <2>1. CASE b # a /\ c # a
    BY <1>4, <2>1 DEF LockInv
  <2>2. CASE b = a /\ c # a
    BY <1>1, <1>4, <2>2 DEF LockInv, Busy
  <2>3. CASE b # a /\ c = a
    BY <1>1, <1>4, <2>3 DEF LockInv, Busy
  <2> QED
    BY <2>1, <2>2, <2>3
<1> QED
  BY <1>2, <1>3, <1>4 DEF LockInv

\* A step that leaves flash and its cursors alone.
LEMMA StoreQuiet ==
    ASSUME StoreInv,
           UNCHANGED <<flash, garbage, log_write_cursor, last_used_timestamp, buf,
                       read_cursor>>,
           Restoring' <=> Restoring,
           garbage /\ St(Boot) = "compact" => St(Boot)' = "compact"
    PROVE  StoreInv'
BY DEF StoreInv, Laid, Contiguous, Used

\* Whether anyone restores depends on the actor that moves.
LEMMA RestoringStep ==
    ASSUME NEW a \in Actors, \A b \in Actors : b # a => St(b)' = St(b)
    PROVE  /\ St(a) # "restore" /\ St(a)' # "restore" => (Restoring' <=> Restoring)
           /\ St(a)' = "restore" => Restoring'
BY DEF Restoring

\* Whoever is inside of the log is the only one who may restore.
LEMMA OnlyRestorer ==
    ASSUME LockInv, NEW a \in Actors, St(a) \in Busy
    PROVE  /\ Restoring <=> St(a) = "restore"
           /\ \A b \in Actors : b # a => St(b) \notin Busy
BY DEF LockInv, Restoring, Busy

\* An actor at a step is where St says, and no task runs before
\* flash_log_init() is done.
LEMMA AtIs ==
    ASSUME NEW a \in Actors, NEW step, At(a, step)
    PROVE  /\ todo[a] # <<>> /\ St(a) = step
           /\ a # Boot => St(Boot) = "idle"
           /\ Ty(a) = todo[a][1].type
BY DEF At, Running, St, Ty, Idle

\* Steps that begin a call or wait for its turn.
LEMMA BeginInv ==
    ASSUME Inv, NEW a \in Actors, NEW q \in Seq(Items), TodoOK(a, q), q # <<>>,
           q[1].step = "lock", todo' = [todo EXCEPT ![a] = q],
           a = Boot => St(Boot) # "idle", a # Boot => St(Boot) = "idle",
           St(a) \in {"idle", "check"},
           UNCHANGED <<store, log_write_cursor, readctx, time,
                       log_event_in_progress, counts, buf, after>>
    PROVE  Inv'
<1> USE DEF Inv
<1>1. /\ todo' \in [Actors -> Seq(Items)] /\ todo'[a] = q
      /\ \A b \in Actors : b # a => todo'[b] = todo[b]
  BY DEF Typed
<1>2. St(a)' = "lock" /\ \A b \in Actors : b # a => St(b)' = St(b) /\ Ty(b)' = Ty(b)
  BY <1>1 DEF St, Ty
<1>3. Typed'
  BY <1>1 DEF Typed, store, readctx, time, counts
<1>4. TodoInv'
  BY <1>1 DEF TodoInv
<1>5. LockInv'
  BY <1>2, LockStep DEF Busy
<1>6. StoreInv'
  <2>1. Restoring' <=> Restoring
    BY <1>2, RestoringStep
  <2>2. garbage /\ St(Boot) = "compact" => St(Boot)' = "compact"
    BY <1>2 DEF Actors
  <2> QED
    BY <2>1, <2>2, StoreQuiet DEF store, readctx, time
<1> QED
  BY <1>3, <1>4, <1>5, <1>6

\* flash_log_add_event(): the reports, then the event.
LEMMA AddInv ==
    ASSUME Inv, NEW t \in Tasks, NEW size \in Sizes, flash_log_add_event(t, size)
    PROVE  Inv'
<1> DEFINE i1 == Item("check", "FE_LOG_LOCKS", MinSize)
           i2 == Item("check", "FE_LOG_OVERFLOWS", MinSize)
           i3 == Item("lock", "FE_LOG_TEST", size)
           q == <<i1, i2, i3>>
<1>1. /\ i1 \in Items /\ i2 \in Items /\ i3 \in Items
      /\ MinSize \in EntrySizes /\ size \in EntrySizes
  BY DEF Item, Items, Steps, Types, EntrySizes
<1>2. q \in Seq(Items) /\ q # <<>> /\ TodoOK(t, q) /\ q[1].type # "none"
  <2>1. q \in Seq(Items) /\ q # <<>> /\ Len(q) = 3 /\ DOMAIN q = 1 .. 3
    BY <1>1
  <2>2. q[1] = i1 /\ q[2] = i2 /\ q[3] = i3
    OBVIOUS
  <2> HIDE DEF q
  <2>3. /\ i1.step = "check" /\ i1.type = "FE_LOG_LOCKS" /\ i1.size = MinSize
        /\ i2.step = "check" /\ i2.type = "FE_LOG_OVERFLOWS" /\ i2.size = MinSize
        /\ i3.step = "lock" /\ i3.type = "FE_LOG_TEST" /\ i3.size = size
    BY DEF Item
  <2> HIDE DEF i1, i2, i3
  <2>4. \A n \in 1 .. 3 : n = 1 \/ n = 2 \/ n = 3
    OBVIOUS
  <2> QED
    BY <1>1, <2>1, <2>2, <2>3, <2>4 DEF TodoOK
<1> HIDE DEF q
<1>3. t \in Actors /\ t # Boot
  BY SizesAssumption DEF Actors, Boot
<1>4. /\ Due(q) \in Seq(Items) /\ TodoOK(t, Due(q)) /\ Due(q) # <<>>
      /\ Due(q)[1].step = "lock"
  BY <1>2, <1>3, DueIs
<1>5. todo' = [todo EXCEPT ![t] = Due(q)] /\ St(t) = "idle" /\ St(Boot) = "idle"
  BY DEF flash_log_add_event, q, St, Idle
<1> QED
  BY <1>3, <1>4, <1>5, BeginInv DEF flash_log_add_event

\* flash_log_add_event(): between two reports.
LEMMA NextItemInv ==
    ASSUME Inv, NEW a \in Actors, flash_log_add_event_next(a)
    PROVE  Inv'
<1>1. At(a, "check")
  BY DEF flash_log_add_event_next
<1>2. /\ todo[a] # <<>> /\ St(a) = "check" /\ Ty(a) = todo[a][1].type
      /\ a # Boot => St(Boot) = "idle"
  BY <1>1, AtIs
<1> DEFINE q == todo[a]
<1>3. q \in Seq(Items) /\ TodoOK(a, q) /\ 1 \in DOMAIN q /\ q[1].step = "check"
  BY <1>1, <1>2 DEF Inv, Typed, TodoInv, St
<1>4. q[1].type # "none"
  BY <1>3 DEF TodoOK
<1>5. /\ Due(q) \in Seq(Items) /\ TodoOK(a, Due(q)) /\ Due(q) # <<>>
      /\ Due(q)[1].step = "lock"
  BY <1>2, <1>3, <1>4, DueIs
<1>6. todo' = [todo EXCEPT ![a] = Due(q)]
  BY DEF flash_log_add_event_next
<1> QED
  BY <1>2, <1>5, <1>6, BeginInv DEF flash_log_add_event_next

\* flash_log_add_event_core(): the lock is taken, or the failure is counted.
LEMMA TakeLockInv ==
    ASSUME Inv, NEW a \in Actors, flash_log_lock(a)
    PROVE  Inv'
<1> USE DEF Inv
<1>1. At(a, "lock")
  BY DEF flash_log_lock
<1>2. /\ todo[a] # <<>> /\ St(a) = "lock" /\ Ty(a) = todo[a][1].type
      /\ a # Boot => St(Boot) = "idle"
  BY <1>1, AtIs
<1>3. Ty(a) # "none"
  <2>1. 1 \in DOMAIN todo[a] /\ TodoOK(a, todo[a])
    BY <1>2 DEF Typed, TodoInv
  <2> QED
    BY <1>2, <2>1 DEF TodoOK, St
<1>4. CASE log_event_in_progress /\ Leave(a) /\ UNCHANGED log_event_in_progress
           /\ lock_failures_count' = Counted(lock_failures_count)
  <2>1. /\ todo' \in [Actors -> Seq(Items)] /\ TodoInv'
        /\ St(a)' \in {"idle", "check", "lock"}
        /\ \A b \in Actors : b # a => St(b)' = St(b) /\ Ty(b)' = Ty(b)
    BY <1>2, <1>4, LeaveIs DEF Typed
  <2>2. lock_failures_count' \in 0 .. MaxFailures
    BY <1>4, SizesAssumption DEF Counted, Typed
  <2>3. Typed'
    BY <1>4, <2>1, <2>2 DEF Typed, flash_log_lock, store, readctx, time
  <2>4. LockInv'
    BY <1>2, <1>4, <2>1, LockStep DEF Busy
  <2>5. StoreInv'
    <3>1. Restoring' <=> Restoring
      BY <1>2, <2>1, RestoringStep
    <3>2. garbage /\ St(Boot) = "compact" => St(Boot)' = "compact"
      BY <1>2, <2>1 DEF Actors
    <3> QED
      BY <3>1, <3>2, StoreQuiet DEF flash_log_lock, store, readctx, time
  <2> QED
    BY <2>1, <2>3, <2>4, <2>5
<1>5. CASE /\ ~log_event_in_progress /\ log_event_in_progress' = TRUE
           /\ GoTo(a, IF log_write_cursor > RUN_TIME_LOG_FULL_WATERMARK
                        THEN "compact" ELSE "write")
           /\ UNCHANGED lock_failures_count
  <2>0. PICK step \in {"compact", "write"} : GoTo(a, step)
    BY <1>5
  <2>1. /\ todo' \in [Actors -> Seq(Items)] /\ TodoInv'
        /\ St(a)' = step
        /\ \A b \in Actors : b # a => St(b)' = St(b) /\ Ty(b)' = Ty(b)
    BY <1>2, <1>3, <2>0, GoToIs DEF Typed, Steps
  <2>3. Typed'
    BY <1>5, <2>1 DEF Typed, flash_log_lock, store, readctx, time
  <2>4. LockInv'
    BY <1>2, <1>5, <2>0, <2>1, LockStep DEF Busy
  <2>5. StoreInv'
    <3>1. Restoring' <=> Restoring
      BY <1>2, <2>0, <2>1, RestoringStep
    <3>2. garbage /\ St(Boot) = "compact" => St(Boot)' = "compact"
      BY <1>2, <2>1 DEF Actors
    <3> QED
      BY <3>1, <3>2, StoreQuiet DEF flash_log_lock, store, readctx, time
  <2> QED
    BY <2>1, <2>3, <2>4, <2>5
<1> QED
  BY <1>4, <1>5 DEF flash_log_lock

\* try_compacting(): the page is erased, the entries are in the buffer.
LEMMA CompactInv ==
    ASSUME Inv, NEW a \in Actors, try_compacting(a)
    PROVE  Inv'
<1> USE DEF Inv
<1>1. At(a, "compact") /\ GoTo(a, "restore")
  BY DEF try_compacting
<1>2. todo[a] # <<>> /\ St(a) = "compact" /\ (a # Boot => St(Boot) = "idle")
  BY <1>1, AtIs
<1>3. /\ todo' \in [Actors -> Seq(Items)] /\ TodoInv'
      /\ St(a)' = "restore" /\ Ty(a)' = Ty(a)
      /\ \A b \in Actors : b # a => St(b)' = St(b) /\ Ty(b)' = Ty(b)
  BY <1>1, <1>2, GoToIs DEF Typed, Steps
<1>4. ~Restoring /\ Restoring'
  BY <1>2, <1>3, OnlyRestorer, RestoringStep DEF Busy
<1>5. /\ Preserved \in Seq(Entry) /\ Laid(Preserved)
      /\ Used(Preserved) <= COMPACTION_SPACE_PRESERVE
      /\ \A k \in DOMAIN Preserved : \E n \in DOMAIN flash :
            Preserved[k].stamp = flash[n].stamp
  BY <1>4, PreservedIs DEF Typed, StoreInv
<1>6. Typed'
  BY <1>3, <1>5, EmptyLaid DEF Typed, try_compacting, readctx, time, counts
<1>7. LockInv'
  <2>1. /\ a # Boot => St(Boot) = "idle"
        /\ a = Boot => St(Boot) # "idle"
        /\ log_event_in_progress' = log_event_in_progress
    BY <1>1, <1>2, AtIs DEF try_compacting
  <2> QED
    BY <1>2, <1>3, <2>1, LockStep DEF Busy
<1>8. StoreInv'
  <2>1. \A k \in DOMAIN Preserved : Preserved[k].stamp <= last_used_timestamp
    BY <1>5 DEF StoreInv
  <2>2. /\ buf' = Preserved /\ flash' = <<>> /\ garbage' = FALSE
        /\ last_used_timestamp' = last_used_timestamp
        /\ log_write_cursor' = log_write_cursor
    BY DEF try_compacting, time
  <2>3. Laid(<<>>) /\ Used(<<>>) <= Space
    BY EmptyLaid, SizeFacts
  <2> QED
    BY <1>4, <1>5, <2>1, <2>2, <2>3 DEF StoreInv
<1> QED
  BY <1>3, <1>6, <1>7, <1>8

\* A compaction without memory changes nothing.
LEMMA FailsInv ==
    ASSUME Inv, NEW a \in Actors, compacting_fails(a)
    PROVE  Inv'
<1> USE DEF Inv
<1>1. At(a, "compact") /\ GoTo(a, "write") /\ a # Boot
  BY DEF compacting_fails
<1>2. /\ todo[a] # <<>> /\ St(a) = "compact" /\ St(Boot) = "idle"
      /\ Ty(a) = todo[a][1].type
  BY <1>1, AtIs
<1>3. Ty(a) # "none"
  <2>1. 1 \in DOMAIN todo[a] /\ TodoOK(a, todo[a])
    BY <1>2 DEF Typed, TodoInv
  <2> QED
    BY <1>1, <1>2, <2>1 DEF TodoOK
<1>4. /\ todo' \in [Actors -> Seq(Items)] /\ TodoInv'
      /\ St(a)' = "write" /\ Ty(a)' = Ty(a)
      /\ \A b \in Actors : b # a => St(b)' = St(b) /\ Ty(b)' = Ty(b)
  BY <1>1, <1>2, <1>3, GoToIs DEF Typed, Steps
<1>5. Typed'
  BY <1>4 DEF Typed, compacting_fails, store, readctx, time, counts
<1>6. LockInv'
  <2>1. log_event_in_progress' = log_event_in_progress
    BY DEF compacting_fails
  <2> QED
    BY <1>1, <1>2, <1>4, <2>1, LockStep DEF Busy
<1>7. StoreInv'
  <2>1. Restoring' <=> Restoring
    BY <1>2, <1>4, RestoringStep
  <2>2. St(Boot)' = St(Boot)
    BY <1>1, <1>4 DEF Actors
  <2> QED
    BY <2>1, <2>2, StoreQuiet DEF compacting_fails, store, readctx, time
<1> QED
  BY <1>4, <1>5, <1>6, <1>7

\* try_compacting(): the entries are written back.
LEMMA RestoreInv ==
    ASSUME Inv, NEW a \in Actors, try_compacting_restore(a)
    PROVE  Inv'
<1> USE DEF Inv
<1>1. At(a, "restore")
  BY DEF try_compacting_restore
<1>2. /\ todo[a] # <<>> /\ St(a) = "restore" /\ Ty(a) = todo[a][1].type
      /\ (a # Boot => St(Boot) = "idle") /\ (a = Boot => St(Boot) # "idle")
  BY <1>1, AtIs
<1>3. Ty(a) = "none" => a = Boot
  <2>1. 1 \in DOMAIN todo[a] /\ TodoOK(a, todo[a])
    BY <1>2 DEF Typed, TodoInv
  <2> QED
    BY <1>2, <2>1 DEF TodoOK
<1>4. \/ Leave(a) /\ a = Boot /\ Ty(a) = "none"
      \/ GoTo(a, "write") /\ Ty(a) # "none"
  BY <1>2, <1>3 DEF try_compacting_restore, AfterCompacting
<1>5. /\ todo' \in [Actors -> Seq(Items)] /\ TodoInv'
      /\ \A b \in Actors : b # a => St(b)' = St(b) /\ Ty(b)' = Ty(b)
      /\ \/ St(a)' \in {"idle", "check", "lock"}
         \/ St(a)' = "write" /\ Ty(a)' = Ty(a)
  <2>1. CASE Leave(a)
    BY <1>2, <2>1, LeaveIs DEF Typed
  <2>2. CASE GoTo(a, "write") /\ Ty(a) # "none"
    BY <1>2, <2>2, GoToIs DEF Typed, Steps
  <2> QED
    BY <1>4, <2>1, <2>2
<1>6. Typed'
  BY <1>5, EmptyLaid, UsedIs
     DEF Typed, try_compacting_restore, Restart, time, counts
<1>7. LockInv'
  <2>1. log_event_in_progress' = log_event_in_progress
    BY DEF try_compacting_restore
  <2> QED
    BY <1>2, <1>5, <2>1, LockStep DEF Busy
<1>8. StoreInv'
  <2>1. ~Restoring'
    <3>1. \A b \in Actors : b # a => St(b)' # "restore"
      BY <1>2, <1>5, OnlyRestorer DEF Busy
    <3> QED
      BY <1>5, <3>1 DEF Restoring
  <2>2. /\ buf' = <<>> /\ flash' = buf /\ garbage' = garbage
        /\ last_used_timestamp' = last_used_timestamp
        /\ log_write_cursor' = Used(buf) /\ read_cursor' = 0
    BY DEF try_compacting_restore, time, Restart
  <2>3. Laid(<<>>) /\ Used(<<>>) = 0
    BY EmptyLaid
  <2>4. Used(buf) <= Space /\ Len(buf) \in Nat
    <3>1. Used(buf) \in Nat /\ Used(buf) <= COMPACTION_SPACE_PRESERVE
      BY UsedIs DEF Typed, StoreInv
    <3> QED
      BY <3>1, SizeFacts DEF Typed
  <2>5. ~garbage
    BY <1>2 DEF StoreInv
  <2> QED
    BY <2>1, <2>2, <2>3, <2>4, <2>5, SizeFacts DEF StoreInv
<1> QED
  BY <1>5, <1>6, <1>7, <1>8

\* report_failure(): a counter is reset.
LEMMA ReportInv ==
    ASSUME Inv, NEW a \in Actors, report_failure(a)
    PROVE  Inv'
<1> USE DEF Inv
<1>1. At(a, "reset") /\ Leave(a)
  BY DEF report_failure
<1>2. /\ todo[a] # <<>> /\ St(a) = "reset"
      /\ (a # Boot => St(Boot) = "idle") /\ (a = Boot => St(Boot) # "idle")
  BY <1>1, AtIs
<1>3. /\ todo' \in [Actors -> Seq(Items)] /\ TodoInv'
      /\ St(a)' \in {"idle", "check", "lock"}
      /\ \A b \in Actors : b # a => St(b)' = St(b) /\ Ty(b)' = Ty(b)
  BY <1>1, <1>2, LeaveIs DEF Typed
<1>4. /\ lock_failures_count' \in 0 .. MaxFailures
      /\ overflow_failures_count' \in 0 .. MaxFailures
  BY SizesAssumption DEF report_failure, Typed
<1>5. Typed'
  BY <1>3, <1>4 DEF Typed, report_failure, store, readctx, time
<1>6. LockInv'
  <2>1. log_event_in_progress' = log_event_in_progress
    BY DEF report_failure
  <2> QED
    BY <1>2, <1>3, <2>1, LockStep DEF Busy
<1>7. StoreInv'
  <2>1. Restoring' <=> Restoring
    BY <1>2, <1>3, RestoringStep
  <2>2. garbage /\ St(Boot) = "compact" => St(Boot)' = "compact"
    BY <1>2, <1>3 DEF Actors
  <2> QED
    BY <2>1, <2>2, StoreQuiet DEF report_failure, store, readctx, time
<1> QED
  BY <1>3, <1>5, <1>6, <1>7

\* The stamp of a new entry is later than all stamps before.
LEMMA NewStampIs ==
    ASSUME Typed PROVE NewStamp \in Nat /\ NewStamp > last_used_timestamp
BY DEF Typed, NewStamp

\* flash_log_add_event_core(): an entry is added, or the failure is counted.
LEMMA WriteInv ==
    ASSUME Inv, NEW a \in Actors, write_entry(a)
    PROVE  Inv'
<1> USE DEF Inv
<1> DEFINE item == todo[a][1]
           e == [at |-> log_write_cursor, stamp |-> NewStamp, size |-> item.size]
<1>1. At(a, "write")
  BY DEF write_entry
<1>2. /\ todo[a] # <<>> /\ St(a) = "write" /\ Ty(a) = todo[a][1].type
      /\ (a # Boot => St(Boot) = "idle") /\ (a = Boot => St(Boot) # "idle")
  BY <1>1, AtIs
<1>3. Ty(a) # "none" /\ item.size \in EntrySizes
  <2>1. 1 \in DOMAIN todo[a] /\ TodoOK(a, todo[a]) /\ todo[a][1].step = "write"
    BY <1>1, <1>2 DEF Typed, TodoInv, At
  <2> QED
    BY <1>2, <2>1 DEF TodoOK
<1>4. ~Restoring /\ \A b \in Actors : b # a => St(b) \notin Busy
  BY <1>2, OnlyRestorer DEF Busy
<1>5. ~garbage
  BY <1>2 DEF StoreInv
<1>6. ASSUME /\ todo' \in [Actors -> Seq(Items)] /\ TodoInv'
             /\ St(a)' \notin Busy
             /\ \A b \in Actors : b # a => St(b)' = St(b) /\ Ty(b)' = Ty(b)
      PROVE  LockInv' /\ ~Restoring'
  <2>1. LockInv'
    BY <1>2, <1>6, LockStep DEF Busy
  <2>2. ~Restoring'
    BY <1>4, <1>6 DEF Restoring, Busy
  <2> QED
    BY <2>1, <2>2
<1>7. CASE /\ Fits(item.size) /\ flash' = Append(flash, e)
           /\ last_used_timestamp' = NewStamp
           /\ log_write_cursor' = log_write_cursor + item.size
           /\ log_event_in_progress' = FALSE
           /\ (GoTo(a, "reset") \/ Leave(a))
           /\ UNCHANGED overflow_failures_count
  <2>1. /\ todo' \in [Actors -> Seq(Items)] /\ TodoInv'
        /\ St(a)' \notin Busy
        /\ \A b \in Actors : b # a => St(b)' = St(b) /\ Ty(b)' = Ty(b)
    <3>1. CASE Leave(a)
      BY <1>2, <3>1, LeaveIs DEF Typed, Busy
    <3>2. CASE GoTo(a, "reset")
      BY <1>2, <1>3, <3>2, GoToIs DEF Typed, Steps, Busy
    <3> QED
      BY <1>7, <3>1, <3>2
  <2>2. NewStamp \in Nat /\ NewStamp > last_used_timestamp
    BY NewStampIs
  <2>3. e \in Entry /\ e.at = log_write_cursor /\ e.stamp = NewStamp /\ e.size = item.size
    BY <1>3, <2>2 DEF Entry, Typed
  <2>4. item.size \in Nat
    BY <1>3, SizeFacts
  <2> HIDE DEF item, e
  <2>5. flash \in Seq(Entry) /\ Laid(flash) /\ log_write_cursor = Used(flash)
    BY <1>4 DEF Typed, StoreInv
  <2>6. \A n \in DOMAIN flash : flash[n].stamp < e.stamp
    <3>1. SUFFICES ASSUME NEW n \in DOMAIN flash PROVE flash[n].stamp < e.stamp
      OBVIOUS
    <3>2. flash[n].stamp \in Nat /\ flash[n].stamp <= last_used_timestamp
      BY <2>5, EntryIs DEF StoreInv
    <3>3. last_used_timestamp \in Nat
      BY DEF Typed
    <3> QED
      BY <2>2, <2>3, <3>2, <3>3
  <2>7. /\ flash' \in Seq(Entry) /\ Laid(flash')
        /\ Used(flash') = log_write_cursor + item.size
        /\ Len(flash') = Len(flash) + 1
        /\ \A n \in DOMAIN flash : flash'[n] = flash[n]
        /\ flash'[Len(flash) + 1] = e
    BY <1>7, <2>3, <2>5, <2>6, AppendLaid
  <2>8. \A n \in DOMAIN flash' : flash'[n].stamp <= last_used_timestamp'
    <3>1. SUFFICES ASSUME NEW n \in DOMAIN flash'
                   PROVE  flash'[n].stamp <= last_used_timestamp'
      OBVIOUS
    <3>2. n \in DOMAIN flash \/ n = Len(flash) + 1
      BY <2>5, <2>7
    <3>3. CASE n \in DOMAIN flash
      <4>1. flash'[n].stamp < NewStamp /\ flash'[n].stamp \in Nat
        BY <2>3, <2>5, <2>6, <2>7, <3>3, EntryIs
      <4> QED
        BY <1>7, <2>2, <4>1
    <3>4. CASE n = Len(flash) + 1
      BY <1>7, <2>2, <2>3, <2>7, <3>4
    <3> QED
      BY <3>2, <3>3, <3>4
  <2>9. log_write_cursor' \in Nat /\ log_write_cursor' <= Space
    BY <1>7, <2>4, SizeFacts DEF Fits, Typed
  <2>10. Typed'
    BY <1>7, <2>1, <2>2, <2>7, <2>9 DEF Typed, write_entry, readctx
  <2>11. LockInv' /\ ~Restoring'
    BY <1>6, <2>1
  <2>12. StoreInv'
    <3>1. /\ buf' = buf /\ buf = <<>> /\ garbage' = FALSE
          /\ read_cursor' = read_cursor /\ read_cursor <= Len(flash)
          /\ read_cursor \in Nat /\ Len(flash) \in Nat
      BY <1>4, <1>5 DEF write_entry, readctx, StoreInv, Typed
    <3>2. read_cursor' <= Len(flash')
      BY <2>7, <3>1
    <3>3. Laid(buf') /\ Used(buf') <= COMPACTION_SPACE_PRESERVE
      BY <3>1 DEF StoreInv
    <3> QED
      BY <1>7, <2>7, <2>8, <2>9, <2>11, <3>1, <3>2, <3>3 DEF StoreInv
  <2> QED
    BY <2>1, <2>10, <2>11, <2>12
<1>8. CASE /\ ~Fits(item.size)
           /\ overflow_failures_count' = Counted(overflow_failures_count)
           /\ ReleaseFull /\ Leave(a)
           /\ UNCHANGED <<flash, last_used_timestamp, log_write_cursor>>
  <2>1. /\ todo' \in [Actors -> Seq(Items)] /\ TodoInv'
        /\ St(a)' \notin Busy /\ St(a)' # "restore"
        /\ \A b \in Actors : b # a => St(b)' = St(b) /\ Ty(b)' = Ty(b)
    BY <1>2, <1>8, LeaveIs DEF Typed, Busy
  <2>2. overflow_failures_count' \in 0 .. MaxFailures
    BY <1>8, SizesAssumption DEF Counted, Typed
  <2>3. Typed'
    BY <1>8, <2>1, <2>2 DEF Typed, write_entry, readctx, ReleaseFull
  <2>4. LockInv' /\ ~Restoring'
    BY <1>6, <2>1
  <2>5. StoreInv'
    BY <1>2, <1>4, <1>5, <1>8, <2>4, StoreQuiet DEF write_entry, readctx
  <2> QED
    BY <2>1, <2>3, <2>4, <2>5
<1> QED
  BY <1>7, <1>8 DEF write_entry

\* flash_log_dequeue_event(): the entries that it may return to a reader.
Found(r) ==
    {n \in Cursor(after[r]) + 1 .. Len(flash) : flash[n].stamp > after[r]}

\* flash_log_dequeue_event(): what is found is an entry after the cursor.
LEMMA DequeueIs ==
    ASSUME Typed, NEW r \in Readers, flash_log_dequeue_event(r)
    PROVE  /\ Cursor(after[r]) \in Nat
           /\ Found(r) = {} => after' = after /\ read_cursor' = Len(flash)
           /\ Found(r) # {} =>
                 /\ Least(Found(r)) \in Found(r)
                 /\ \A k \in Found(r) : Least(Found(r)) <= k
                 /\ Least(Found(r)) \in DOMAIN flash
                 /\ read_cursor' = Least(Found(r))
                 /\ prev_timestamp' = flash[Least(Found(r))].stamp
                 /\ after' = [after EXCEPT ![r] = flash[Least(Found(r))].stamp]
<1>1. /\ Cursor(after[r]) \in Nat /\ Len(flash) \in Nat
      /\ DOMAIN flash = 1 .. Len(flash)
  BY DEF Typed, Cursor
<1>2. Found(r) \subseteq Nat /\ Found(r) \subseteq DOMAIN flash
  BY <1>1 DEF Found
<1>3. Found(r) # {} => /\ Least(Found(r)) \in Found(r)
                       /\ \A k \in Found(r) : Least(Found(r)) <= k
  BY <1>2, LeastIs
<1>4. IF Found(r) = {}
        THEN /\ read_cursor' = Len(flash) /\ after' = after
        ELSE /\ read_cursor' = Least(Found(r))
             /\ prev_timestamp' = flash[Least(Found(r))].stamp
             /\ after' = [after EXCEPT ![r] = flash[Least(Found(r))].stamp]
  BY DEF flash_log_dequeue_event, Found
<1> QED
  BY <1>1, <1>2, <1>3, <1>4

\* flash_log_dequeue_event() moves the read cursor within the log.
LEMMA DequeueInv ==
    ASSUME Inv, NEW r \in Readers, flash_log_dequeue_event(r)
    PROVE  Inv'
<1> USE DEF Inv
<1>0. Len(flash) \in Nat
  BY DEF Typed
<1>1. /\ read_cursor' \in Nat /\ read_cursor' <= Len(flash)
      /\ prev_timestamp' \in Nat /\ after' \in [Readers -> Nat]
  <2>1. CASE Found(r) = {}
    <3>1. prev_timestamp' \in {0, prev_timestamp}
      BY <2>1 DEF flash_log_dequeue_event, Found
    <3> QED
      BY <1>0, <2>1, <3>1, DequeueIs DEF Typed
  <2>2. CASE Found(r) # {}
    <3> DEFINE k == Least(Found(r))
    <3>1. /\ read_cursor' = k /\ k \in DOMAIN flash
          /\ prev_timestamp' = flash[k].stamp
          /\ after' = [after EXCEPT ![r] = flash[k].stamp]
      BY <2>2, DequeueIs
    <3> HIDE DEF k
    <3>2. flash[k].stamp \in Nat
      BY <3>1, EntryIs DEF Typed
    <3> QED
      BY <1>0, <3>1, <3>2 DEF Typed
  <2> QED
    BY <2>1, <2>2
<1>2. /\ UNCHANGED <<flash, garbage, log_write_cursor, log_tstamp_base,
                     last_used_timestamp, uptime, log_event_in_progress,
                     lock_failures_count, overflow_failures_count, todo, buf>>
  BY DEF flash_log_dequeue_event, store, time, counts
<1>3. Typed'
  BY <1>1, <1>2 DEF Typed
<1>4. TodoInv' /\ LockInv'
  BY <1>2 DEF TodoInv, LockInv, St, Ty
<1>5. StoreInv'
  BY <1>1, <1>2 DEF StoreInv, Restoring, St, Laid, Contiguous, Used
<1> QED
  BY <1>3, <1>4, <1>5

\* The steps that change neither the log nor the lists.
LEMMA OtherInv ==
    ASSUME Inv,
           \/ \E r \in Readers : StartOver(r)
           \/ \E stamp \in Times : flash_log_set_tstamp(stamp)
           \/ Tick \/ UNCHANGED vars
    PROVE  Inv'
<1> USE DEF Inv
<1>1. UNCHANGED <<flash, garbage, log_write_cursor, read_cursor, prev_timestamp,
                  last_used_timestamp, log_event_in_progress,
                  lock_failures_count, overflow_failures_count, todo, buf>>
  BY DEF StartOver, flash_log_set_tstamp, Tick, vars, store, readctx, time, counts
<1>2. uptime' \in Nat /\ log_tstamp_base' \in Int /\ after' \in [Readers -> Nat]
  <2>1. CASE \E r \in Readers : StartOver(r)
    BY <2>1 DEF Typed, StartOver, time
  <2>2. ASSUME NEW stamp \in Times, flash_log_set_tstamp(stamp)
        PROVE  uptime' \in Nat /\ log_tstamp_base' \in Int /\ after' \in [Readers -> Nat]
    <3>1. stamp \in Nat
      BY SizesAssumption
    <3> QED
      BY <2>2, <3>1 DEF Typed, flash_log_set_tstamp
  <2>3. CASE Tick \/ UNCHANGED vars
    BY <2>3 DEF Typed, Tick, vars, time
  <2> QED
    BY <2>1, <2>2, <2>3
<1>3. Typed'
  BY <1>1, <1>2 DEF Typed
<1>4. TodoInv' /\ LockInv'
  BY <1>1 DEF TodoInv, LockInv, St, Ty
<1>5. StoreInv'
  BY <1>1 DEF StoreInv, Restoring, St, Laid, Contiguous, Used
<1> QED
  BY <1>3, <1>4, <1>5

\* Every step keeps the invariant.
LEMMA NextInv == Inv /\ [Next]_vars => Inv'
BY AddInv, NextItemInv, TakeLockInv, CompactInv, FailsInv, RestoreInv, WriteInv,
   ReportInv, DequeueInv, OtherInv, PowerLossInv DEF Next, Step

-----------------------------------------------------------------------------
(* Theorems *)

\* Inv holds in every state.
THEOREM InvHolds == Spec => []Inv
BY InitInv, NextInv, PTL DEF Spec

\* The types, for every page, set of tasks and time.
THEOREM TypeCorrect == Spec => []TypeOK
<1>1. Inv => TypeOK
  <2> SUFFICES ASSUME Inv PROVE TypeOK
    OBVIOUS
  <2> USE DEF Inv
  <2>1. flash \in Seq([at : 0 .. Space, stamp : Nat, size : Sizes \cup {MinSize}])
    <3> DEFINE E == [at : 0 .. Space, stamp : Nat, size : Sizes \cup {MinSize}]
    <3>1. ASSUME NEW n \in 1 .. Len(flash) PROVE flash[n] \in E
      <4>1. /\ flash[n] \in Entry /\ Len(flash) \in DOMAIN flash /\ n \in DOMAIN flash
            /\ flash # <<>> /\ Len(flash) \in Nat
        BY DEF Typed
      <4>2. /\ flash[n].at \in Nat /\ flash[n].size \in Nat
            /\ flash[Len(flash)].at \in Nat /\ flash[Len(flash)].size \in Nat
        BY <4>1, EntryIs DEF Typed
      <4>3. n < Len(flash) => flash[n].at + flash[n].size <= flash[Len(flash)].at
        BY <4>1 DEF StoreInv, Laid
      <4>4. flash[Len(flash)].at + flash[Len(flash)].size <= Space
        BY <4>1 DEF StoreInv, Used
      <4>5. n = Len(flash) \/ n < Len(flash)
        BY <4>1
      <4>6. flash[n].at <= Space
        BY <4>2, <4>3, <4>4, <4>5, SizeFacts
      <4> QED
        BY <4>1, <4>2, <4>6, SizeFacts DEF Entry, EntrySizes
    <3>2. flash \in [1 .. Len(flash) -> E] /\ Len(flash) \in Nat
      BY <3>1 DEF Typed
    <3> HIDE DEF E
    <3>3. flash \in Seq(E)
      BY <3>2
    <3> QED
      BY <3>3 DEF E
  <2>2. log_write_cursor \in 0 .. Space
    BY SizeFacts DEF Typed, StoreInv
  <2>3. ~log_event_in_progress /\ todo[Boot] = Idle => read_cursor <= Len(flash)
    <3>1. SUFFICES ASSUME ~log_event_in_progress, todo[Boot] = Idle
                   PROVE  ~Restoring
      BY DEF StoreInv
    <3> QED
      BY <3>1 DEF Restoring, LockInv, Busy, St, Idle
  <2> QED
    BY <2>1, <2>2, <2>3 DEF TypeOK, Typed
<1> QED
  BY <1>1, InvHolds, PTL

\* For every page, every set of tasks and every time that the AP sets: later
\* entries have later stamps.
THEOREM StampsAlwaysIncrease == Spec => []StampsIncrease
<1>1. Inv => StampsIncrease
  BY DEF Inv, StoreInv, Laid, StampsIncrease
<1> QED
  BY <1>1, InvHolds, PTL

\* For every page and every size of entries: an entry is written into erased
\* flash right after the entries before it, wherever power was lost.
THEOREM WritesAreErased == Spec => []WritesErased
<1>1. Inv => WritesErased
  <2> SUFFICES ASSUME Inv PROVE WritesErased
    OBVIOUS
  <2> USE DEF Inv
  <2>1. Contiguous(flash)
    BY DEF StoreInv, Laid
  <2>2. ASSUME NEW a \in Actors, At(a, "write")
        PROVE  log_write_cursor = Used(flash) /\ ~garbage
    <3>1. St(a) = "write" /\ (a # Boot => St(Boot) = "idle")
      BY <2>2, AtIs
    <3>2. ~Restoring
      BY <3>1, OnlyRestorer DEF Busy
    <3> QED
      BY <3>1, <3>2 DEF StoreInv
  <2> QED
    BY <2>1, <2>2 DEF WritesErased
<1> QED
  BY <1>1, InvHolds, PTL

\* For every page and every size of entries: what try_compacting() copies fits
\* into the buffer that it acquired.
THEOREM BufferAlwaysFits == Spec => []BufferFits
<1>1. Inv => BufferFits
  BY DEF Inv, StoreInv, BufferFits
<1> QED
  BY <1>1, InvHolds, PTL

\* The steps that do not retrieve keep what the reader has passed by.
LEMMA ReadInvStep ==
    ASSUME \A r, s \in Readers : r = s, Inv, ReadInv, [Next]_vars
    PROVE  ReadInv'
<1> USE DEF Inv
<1>1. ASSUME NEW r \in Readers, flash_log_dequeue_event(r)
      PROVE  ReadInv'
  <2>1. flash' = flash
    BY <1>1 DEF flash_log_dequeue_event, store
  <2>2. SUFFICES ASSUME after'[r] # 0, prev_timestamp' <= after'[r],
                        NEW n \in DOMAIN flash, n <= read_cursor'
                 PROVE  flash[n].stamp <= after'[r]
    BY <2>1 DEF ReadInv
  <2>3. /\ n \in Nat /\ n >= 1 /\ flash[n].stamp \in Nat /\ after[r] \in Nat
        /\ Len(flash) \in Nat /\ DOMAIN flash = 1 .. Len(flash)
        /\ Cursor(after[r]) \in Nat
    BY EntryIs DEF Typed, Cursor
  <2> DEFINE start == Cursor(after[r])
  <2>4. CASE Found(r) = {}
    <3>1. after' = after
      BY <1>1, <2>4, DequeueIs
    <3>2. CASE n > start
      <4>1. n \in start + 1 .. Len(flash)
        BY <2>3, <3>2
      <4>2. ~(flash[n].stamp > after[r])
        BY <2>4, <4>1 DEF Found
      <4> QED
        BY <2>3, <3>1, <4>2
    <3>3. CASE n <= start
      <4>1. start # 0
        BY <2>3, <3>3
      <4>2. start = read_cursor /\ after[r] # 0 /\ ~(after[r] < prev_timestamp)
        BY <4>1 DEF Cursor
      <4>3. prev_timestamp <= after[r]
        BY <4>2, <2>3 DEF Typed
      <4> QED
        BY <3>1, <3>3, <4>2, <4>3 DEF ReadInv
    <3> QED
      BY <2>3, <3>2, <3>3
  <2>5. CASE Found(r) # {}
    <3> DEFINE k == Least(Found(r))
    <3>1. /\ read_cursor' = k /\ k \in DOMAIN flash
          /\ after' = [after EXCEPT ![r] = flash[k].stamp]
      BY <1>1, <2>5, DequeueIs
    <3>2. after'[r] = flash[k].stamp /\ flash[k].stamp \in Nat
      BY <3>1, EntryIs DEF Typed
    <3> HIDE DEF k
    <3>3. n = k \/ n < k
      BY <2>2, <2>3, <3>1
    <3>4. n < k => flash[n].stamp < flash[k].stamp
      BY <3>1 DEF StoreInv, Laid
    <3> QED
      BY <2>3, <3>2, <3>3, <3>4
  <2> QED
    BY <2>4, <2>5
<1>2. ASSUME NEW r \in Readers, StartOver(r) PROVE ReadInv'
  <2>1. \A s \in Readers : after'[s] = 0
    BY <1>2 DEF StartOver, Typed
  <2> QED
    BY <2>1 DEF ReadInv
<1>3. ASSUME read_cursor' = 0 PROVE ReadInv'
  <2>1. \A n \in DOMAIN flash' : ~(n <= 0)
    <3>1. flash' \in Seq(Entry)
      BY NextInv DEF Typed
    <3> QED
      BY <3>1
  <2> QED
    BY <1>3, <2>1 DEF ReadInv
<1>4. ASSUME NEW a \in Actors, write_entry(a) PROVE ReadInv'
  <2>1. /\ UNCHANGED <<read_cursor, prev_timestamp, after>>
        /\ \/ flash' = flash
           \/ \E e : flash' = Append(flash, e)
    BY <1>4 DEF write_entry, readctx
  <2>2. CASE flash' = flash
    BY <2>1, <2>2 DEF ReadInv
  <2>3. ASSUME NEW e, flash' = Append(flash, e) PROVE ReadInv'
    <3>1. St(a) = "write"
      BY <1>4, AtIs DEF write_entry
    <3>2. ~Restoring
      BY <3>1, OnlyRestorer DEF Busy
    <3>3. read_cursor <= Len(flash) /\ read_cursor \in Nat
      BY <3>2 DEF StoreInv, Typed
    <3>4. \A n \in DOMAIN flash' : n <= read_cursor =>
              n \in DOMAIN flash /\ flash'[n] = flash[n]
      BY <2>3, <3>3 DEF Typed
    <3> QED
      BY <2>1, <3>4 DEF ReadInv
  <2> QED
    BY <2>1, <2>2, <2>3
<1>5. ASSUME NEW a \in Actors, try_compacting(a) PROVE ReadInv'
  BY <1>5 DEF try_compacting, ReadInv
<1>6. ASSUME UNCHANGED <<flash, read_cursor, prev_timestamp, after>> PROVE ReadInv'
  BY <1>6 DEF ReadInv
<1>7. CASE PowerLoss
  BY <1>3, <1>7 DEF PowerLoss, flash_log_init
<1>8. ASSUME NEW a \in Actors, try_compacting_restore(a) PROVE ReadInv'
  BY <1>3, <1>8 DEF try_compacting_restore, Restart
<1>9. ASSUME NEW a \in Actors, Step(a) PROVE ReadInv'
  BY <1>4, <1>5, <1>6, <1>8, <1>9
     DEF Step, flash_log_add_event_next, flash_log_lock, compacting_fails,
         report_failure, store, readctx
<1>10. ASSUME NEW t \in Tasks, NEW size \in Sizes, flash_log_add_event(t, size)
       PROVE  ReadInv'
  BY <1>6, <1>10 DEF flash_log_add_event, store, readctx
<1>11. ASSUME NEW stamp \in Times, flash_log_set_tstamp(stamp) PROVE ReadInv'
  BY <1>6, <1>11 DEF flash_log_set_tstamp, store, readctx
<1>12. CASE Tick \/ UNCHANGED vars
  BY <1>6, <1>12 DEF Tick, vars, store, readctx
<1> QED
  BY <1>1, <1>2, <1>7, <1>9, <1>10, <1>11, <1>12 DEF Next

\* flash_log_dequeue_event() retrieves the first entry after the last one.
LEMMA DequeueGets ==
    ASSUME Inv, ReadInv, NEW r \in Readers, flash_log_dequeue_event(r)
    PROVE  LET later == {e \in Range(flash) : e.stamp > after[r]}
           IN  IF later = {} THEN after'[r] = after[r]
               ELSE \A e \in later : after[r] < after'[r] /\ after'[r] <= e.stamp
<1> USE DEF Inv
<1> DEFINE start == Cursor(after[r])
           later == {e \in Range(flash) : e.stamp > after[r]}
<1>1. /\ after[r] \in Nat /\ start \in Nat
      /\ Len(flash) \in Nat /\ DOMAIN flash = 1 .. Len(flash)
  BY DEF Typed, Cursor
<1>2. ASSUME NEW e \in later
      PROVE  \E n \in Found(r) : flash[n] = e
  <2>1. PICK n \in DOMAIN flash : flash[n] = e
    BY DEF Range
  <2>2. flash[n].stamp > after[r] /\ flash[n].stamp \in Nat
    BY <2>1, EntryIs DEF Typed
  <2>3. n > start
    <3>1. SUFFICES ASSUME n <= start PROVE FALSE
      BY <1>1
    <3>2. start = read_cursor /\ after[r] # 0 /\ ~(after[r] < prev_timestamp)
      BY <1>1, <3>1 DEF Cursor
    <3>3. prev_timestamp <= after[r]
      BY <1>1, <3>2 DEF Typed
    <3>4. flash[n].stamp <= after[r]
      BY <3>1, <3>2, <3>3 DEF ReadInv
    <3> QED
      BY <1>1, <2>2, <3>4
  <2>4. n \in start + 1 .. Len(flash)
    BY <1>1, <2>3
  <2> QED
    BY <2>1, <2>2, <2>4 DEF Found
<1>3. CASE Found(r) = {}
  <2>1. later = {}
    BY <1>2, <1>3
  <2>2. after' = after
    BY <1>3, DequeueIs
  <2> QED
    BY <2>1, <2>2
<1>4. CASE Found(r) # {}
  <2> DEFINE k == Least(Found(r))
  <2>1. /\ k \in Found(r) /\ k \in DOMAIN flash
        /\ \A n \in Found(r) : k <= n
        /\ after' = [after EXCEPT ![r] = flash[k].stamp]
    BY <1>4, DequeueIs
  <2> HIDE DEF k
  <2>2. after'[r] = flash[k].stamp /\ flash[k].stamp \in Nat
    BY <2>1, EntryIs DEF Typed
  <2>3. flash[k].stamp > after[r]
    BY <2>1 DEF Found
  <2>4. flash[k] \in later
    BY <2>1, <2>3 DEF Range
  <2>5. ASSUME NEW e \in later PROVE flash[k].stamp <= e.stamp
    <3>1. PICK n \in Found(r) : flash[n] = e
      BY <1>2
    <3>2. n \in DOMAIN flash /\ n \in Nat /\ k \in Nat
      BY <1>1, <2>1 DEF Found
    <3>3. n = k \/ k < n
      BY <2>1, <3>2
    <3>4. k < n => flash[k].stamp < flash[n].stamp
      BY <2>1, <3>2 DEF StoreInv, Laid
    <3>5. flash[n].stamp \in Nat
      BY <3>2, EntryIs DEF Typed
    <3> QED
      BY <2>2, <3>1, <3>3, <3>4, <3>5
  <2> HIDE DEF later
  <2> QED
    BY <1>1, <2>2, <2>3, <2>4, <2>5 DEF later
<1> QED
  BY <1>3, <1>4

\* A single reader gets the first entry after the one that it retrieved last,
\* for every page and however often the log is compacted in between.  (Two
\* readers share the cursor, and one may pass by what the other has not seen.)
THEOREM ReadersSeeAll ==
    ASSUME \A r, s \in Readers : r = s
    PROVE  Spec => NextEvent
<1>1. Init => ReadInv
  BY DEF Init, ReadInv
<1>2. Inv /\ ReadInv /\ [Next]_vars => ReadInv'
  BY ReadInvStep
<1>3. Inv /\ ReadInv => [\A r \in Readers : flash_log_dequeue_event(r) =>
          LET later == {e \in Range(flash) : e.stamp > after[r]}
          IN  IF later = {} THEN after'[r] = after[r]
              ELSE \A e \in later :
                      after[r] < after'[r] /\ after'[r] <= e.stamp]_vars
  BY DequeueGets
<1> QED
  BY <1>1, <1>2, <1>3, InvHolds, PTL DEF Spec, NextEvent
=============================================================================
