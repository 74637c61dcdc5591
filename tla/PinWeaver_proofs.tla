-------------------------- MODULE PinWeaver_proofs --------------------------
(***************************************************************************)
(* Proofs about PinWeaver: no wrong guess is forgotten, the delay between  *)
(* two guesses is kept, and what the owner has cleared is gone, for every  *)
(* number of leaves, every delay schedule and every length of the log.     *)
(***************************************************************************)
EXTENDS PinWeaver, SequenceTheorems, TLAPS

Types == {"PW_RESET_TREE", "PW_INSERT_LEAF", "PW_REMOVE_LEAF", "PW_TRY_AUTH"}

\* A tree, or the AP's copies: every leaf is at its label.
IsTree(r) ==
    /\ r \in [Labels -> Leaves \cup {None}]
    /\ \A l \in Labels : r[l] # None => r[l].label = l

EntryType ==
    [type : Types, label : Labels, root : [Labels -> Leaves \cup {None}],
     return_code : {0, 1}, timestamp : Timestamps]

LogType == [restart_count : 0 .. MaxRestarts, entries : Seq(EntryType)]

LogTyped ==
    log_var # None =>
        /\ log_var \in LogType
        /\ Len(log_var.entries) \in 1 .. LogEntryCount
        /\ \A x \in 1 .. Len(log_var.entries) : IsTree(log_var.entries[x].root)

TreeTyped ==
    /\ merkle_tree \in [key : 0 .. trees, root : [Labels -> Leaves \cup {None}]]
    /\ IsTree(merkle_tree.root)
    /\ IsTree(ap)

CountersTyped ==
    /\ pw_restart_count \in 0 .. MaxRestarts /\ timer \in 0 .. MaxTimer
    /\ inserts \in 0 .. MaxInserts /\ trees \in 0 .. MaxTrees
    /\ tree_var \in 0 .. trees /\ cleared \in 0 .. trees
    /\ wrong \in [Labels -> 0 .. MaxAttempts]
    /\ since \in [Labels -> 0 .. LongestDelay]

Typed == LogTyped /\ TreeTyped /\ CountersTyped

\* While a tree is loaded, the root and the restart count in RAM are the ones
\* in flash.
RootInv ==
    log_var # None /\ validate_tree =>
        /\ merkle_tree.root = log_var.entries[1].root
        /\ pw_restart_count = log_var.restart_count

----------------------------------------------------------------------------
(* Values.                                                                 *)

\* A missing leaf is not a leaf, and a missing log is not a log.
LEMMA NoneIsNothing == None \notin Leaves /\ None \notin LogType
<1>1. DOMAIN None = {"empty"}
  BY DEF None
<1>2. \A x \in Leaves : "label" \in DOMAIN x
  BY DEF Leaves
<1>3. \A x \in LogType : "entries" \in DOMAIN x
  BY DEF LogType
<1> QED
  BY <1>1, <1>2, <1>3

\* The delays of a schedule are bounded by its last one.
LEMMA Delays ==
    /\ LongestDelay \in Nat
    /\ \A n \in Nat : Delay(n) \in 0 .. LongestDelay
    /\ Delay(0) = 0
<1> USE ScheduleAssumption
<1>1. \A x \in DOMAIN Schedule :
        /\ x \in 1 .. Len(Schedule) /\ Len(Schedule) \in DOMAIN Schedule
        /\ Schedule[x].attempt_count \in Nat \ {0} /\ Schedule[x].time_diff \in Nat
  <2> DEFINE E == [attempt_count : Nat \ {0}, time_diff : Nat]
  <2>1. DOMAIN Schedule = 1 .. Len(Schedule) /\ Len(Schedule) \in Nat
    OBVIOUS
  <2>2. \A x \in DOMAIN Schedule : Schedule[x] \in E
    <3>1. Schedule \in Seq(E)
      OBVIOUS
    <3> HIDE DEF E
    <3> QED
      BY <3>1
  <2>3. \A e \in E : e.attempt_count \in Nat \ {0} /\ e.time_diff \in Nat
    OBVIOUS
  <2> HIDE DEF E
  <2> QED
    BY <2>1, <2>2, <2>3
<1>2. LongestDelay \in Nat
  <2>1. CASE Schedule = <<>>
    BY <2>1 DEF LongestDelay
  <2>2. CASE Schedule # <<>>
    <3>1. Len(Schedule) \in DOMAIN Schedule
      BY <2>2
    <3> QED
      BY <1>1, <2>2, <3>1 DEF LongestDelay, Last
  <2> QED
    BY <2>1, <2>2
<1>3. \A x \in DOMAIN Schedule : Schedule[x].time_diff <= LongestDelay
  <2> SUFFICES ASSUME NEW x \in DOMAIN Schedule
               PROVE  Schedule[x].time_diff <= LongestDelay
    OBVIOUS
  <2>1. LongestDelay = Schedule[Len(Schedule)].time_diff
    BY DEF LongestDelay, Last
  <2>2. x < Len(Schedule) => Schedule[x].time_diff < Schedule[Len(Schedule)].time_diff
    BY <1>1
  <2> QED
    BY <1>1, <2>1, <2>2
<1>4. ASSUME NEW n \in Nat
      PROVE  /\ Delay(n) \in 0 .. LongestDelay
             /\ n = 0 => Delay(n) = 0
  <2> DEFINE applies ==
            {x \in DOMAIN Schedule :
                /\ Schedule[x].attempt_count <= n
                /\ \A y \in DOMAIN Schedule :
                      y > x => n < Schedule[y].attempt_count}
  <2>1. Delay(n) = IF applies = {} THEN 0
                   ELSE Schedule[CHOOSE x \in applies : TRUE].time_diff
    BY DEF Delay
  <2>2. CASE applies = {}
    BY <1>2, <2>1, <2>2
  <2>3. CASE applies # {}
    <3>1. PICK x \in applies : x = CHOOSE z \in applies : TRUE
      BY <2>3
    <3>2. x \in DOMAIN Schedule /\ Schedule[x].attempt_count <= n
      BY <3>1
    <3>3. Delay(n) = Schedule[x].time_diff
      BY <2>1, <2>3, <3>1
    <3>4. n # 0
      BY <1>1, <3>2
    <3> QED
      BY <1>1, <1>2, <1>3, <3>2, <3>3, <3>4
  <2> QED
    BY <2>2, <2>3
<1> QED
  BY <1>2, <1>4

\* The new entry is the first of the log, and the one before it the second.
LEMMA AppendEffect ==
    ASSUME LogTyped, NEW entry \in EntryType, IsTree(entry.root), log_append(entry)
    PROVE  /\ log_var # None /\ log_var' # None /\ LogTyped'
           /\ log_var'.restart_count = log_var.restart_count
           /\ log_var'.entries[1] = entry
           /\ Len(log_var'.entries) > 1 => log_var'.entries[2] = log_var.entries[1]
<1> USE BoundAssumption
<1> DEFINE s == log_var.entries
           m == Min({Len(s), LogEntryCount - 1})
           new == <<entry>> \o SubSeq(s, 1, m)
<1>1. log_var # None /\ log_var \in LogType /\ Len(s) \in 1 .. LogEntryCount
      /\ \A x \in 1 .. Len(s) : IsTree(s[x].root)
  BY DEF log_append, LogTyped
<1>2. log_var' = [log_var EXCEPT !.entries = new]
  BY DEF log_append
<1>3. m \in 0 .. Len(s) /\ m < LogEntryCount
  BY <1>1 DEF Min
<1>4. s \in Seq(EntryType)
  BY <1>1 DEF LogType
<1> HIDE DEF m
<1>5. SubSeq(s, 1, m) \in Seq(EntryType) /\ Len(SubSeq(s, 1, m)) = m
      /\ \A x \in 1 .. m : SubSeq(s, 1, m)[x] = s[x]
  <2>1. \A x \in 1 .. m : s[x] \in EntryType
    BY <1>1, <1>3, <1>4
  <2>2. 1 \in Int /\ m \in Int /\ 0 <= m
    BY <1>3
  <2>3. /\ SubSeq(s, 1, m) \in Seq(EntryType)
        /\ Len(SubSeq(s, 1, m)) = IF 1 <= m THEN m - 1 + 1 ELSE 0
        /\ \A x \in 1 .. m - 1 + 1 : SubSeq(s, 1, m)[x] = s[1 + x - 1]
    BY <2>1, <2>2, SubSeqProperties
  <2>4. m - 1 + 1 = m /\ \A x \in 1 .. m : 1 + x - 1 = x
    BY <2>2
  <2>5. Len(SubSeq(s, 1, m)) = m
    BY <2>2, <2>3, <2>4
  <2>6. \A x \in 1 .. m : SubSeq(s, 1, m)[x] = s[x]
    BY <2>3, <2>4, Zenon
  <2> QED
    BY <2>3, <2>5, <2>6
<1>6. new \in Seq(EntryType) /\ Len(new) = 1 + m /\ new[1] = entry
      /\ \A x \in 2 .. 1 + m : new[x] = s[x - 1]
  BY <1>3, <1>5
<1> HIDE DEF new
<1>7. log_var' \in LogType /\ log_var'.restart_count = log_var.restart_count
      /\ log_var'.entries = new
  BY <1>1, <1>2, <1>6 DEF LogType
<1>8. \A x \in 1 .. Len(new) : IsTree(new[x].root)
  <2> SUFFICES ASSUME NEW x \in 1 .. Len(new) PROVE IsTree(new[x].root)
    OBVIOUS
  <2>1. CASE x = 1
    BY <1>6, <2>1
  <2>2. CASE x # 1
    <3>1. x - 1 \in 1 .. Len(s) /\ new[x] = s[x - 1]
      BY <1>1, <1>3, <1>6, <2>2
    <3> QED
      BY <1>1, <3>1
  <2> QED
    BY <2>1, <2>2
<1>9. log_var' # None
  BY <1>7, NoneIsNothing
<1>10. Len(new) \in 1 .. LogEntryCount
  BY <1>3, <1>6
<1>11. Len(new) > 1 => new[2] = s[1]
  BY <1>3, <1>6
<1> QED
  BY <1>1, <1>6, <1>7, <1>8, <1>9, <1>10, <1>11 DEF LogTyped

\* Update() changes one leaf of the tree, and the log says which.
LEMMA UpdateEffect ==
    ASSUME LogTyped, TreeTyped, NEW type \in Types, NEW label \in Labels,
           NEW leaf \in Leaves \cup {None}, leaf # None => leaf.label = label,
           NEW code \in {0, 1}, NEW ts \in Timestamps,
           Update(type, label, leaf, code, ts)
    PROVE  /\ log_var # None /\ log_var' # None /\ LogTyped'
           /\ log_var'.restart_count = log_var.restart_count
           /\ merkle_tree'.root = [merkle_tree.root EXCEPT ![label] = leaf]
           /\ IsTree(merkle_tree'.root)
           /\ merkle_tree'.key = merkle_tree.key
           /\ merkle_tree' \in [key : 0 .. trees, root : [Labels -> Leaves \cup {None}]]
           /\ log_var'.entries[1] = Entry(type, label, merkle_tree'.root, code, ts)
           /\ Len(log_var'.entries) > 1 => log_var'.entries[2] = log_var.entries[1]
<1> DEFINE root == [merkle_tree.root EXCEPT ![label] = leaf]
<1>1. log_append(Entry(type, label, root, code, ts))
      /\ merkle_tree' = [merkle_tree EXCEPT !.root = root]
  BY DEF Update
<1>2. root \in [Labels -> Leaves \cup {None}] /\ IsTree(root)
  BY DEF TreeTyped, IsTree
<1> HIDE DEF root
<1>3. merkle_tree'.root = root /\ merkle_tree'.key = merkle_tree.key
      /\ merkle_tree' \in [key : 0 .. trees, root : [Labels -> Leaves \cup {None}]]
  BY <1>1, <1>2 DEF TreeTyped
<1>4. Entry(type, label, root, code, ts) \in EntryType
      /\ Entry(type, label, root, code, ts).root = root
  BY <1>2 DEF Entry, EntryType
<1> QED
  BY <1>1, <1>2, <1>3, <1>4, AppendEffect DEF root

----------------------------------------------------------------------------
(* The steps.                                                              *)

Inv == Typed /\ RootInv /\ GuessesCounted

\* A request that is answered: it puts leaf in the place of the one at l.
Answer(l, type, leaf, code, ts) ==
    /\ leaf # None => leaf.label = l /\ leaf.attempt_count = wrong'[l]
    /\ validate_tree
    /\ Update(type, l, leaf, code, ts)
    /\ Stores(l, leaf)
    /\ wrong' \in [Labels -> 0 .. MaxAttempts]
    /\ \A m \in Labels \ {l} : wrong'[m] = wrong[m]
    /\ since' \in [Labels -> 0 .. LongestDelay]
    /\ inserts' \in 0 .. MaxInserts
    /\ UNCHANGED <<tree_var, pw_restart_count, timer, trees, cleared>>

Answered(l) ==
    \E type \in Types, leaf \in Leaves \cup {None}, code \in {0, 1}, ts \in Timestamps :
        Answer(l, type, leaf, code, ts)

\* A leaf that a request proves to be in the tree is the one in flash.
LEMMA ValidIsStored ==
    ASSUME Inv, NEW l \in Labels, ValidLeaf(ap[l]), log_var # None
    PROVE  /\ ap[l] \in Leaves /\ ap[l] # None /\ ap[l].label = l
           /\ ap[l] = merkle_tree.root[l] /\ ap[l] = log_var.entries[1].root[l]
           /\ ap[l].attempt_count = wrong[l]
           /\ ap[l].key = merkle_tree.key /\ validate_tree
<1>1. ap[l] \in Leaves /\ ap[l] # None /\ ap[l].label = l
  BY DEF ValidLeaf, Inv, Typed, TreeTyped, IsTree
<1>2. ap[l] = merkle_tree.root[l] /\ validate_tree /\ ap[l].key = merkle_tree.key
  BY <1>1 DEF ValidLeaf, authenticate_path
<1>3. ap[l] = log_var.entries[1].root[l]
  BY <1>2 DEF Inv, RootInv
<1> QED
  BY <1>1, <1>2, <1>3 DEF Inv, GuessesCounted

\* The time stamps and the leaves that the requests make have their types.
LEMMA NewTimes == Typed => NoTime \in Timestamps /\ update_timestamp \in Timestamps
BY BoundAssumption DEF Typed, CountersTyped, NoTime, update_timestamp, Timestamps

LeafWith(leaf, n, ts) == [leaf EXCEPT !.attempt_count = n, !.timestamp = ts]

\* A leaf with another count and time is a leaf at the same label.
LEMMA NewLeaves ==
    ASSUME NEW leaf \in Leaves, NEW n \in 0 .. MaxAttempts, NEW ts \in Timestamps
    PROVE  /\ LeafWith(leaf, n, ts) \in Leaves
           /\ LeafWith(leaf, n, ts).label = leaf.label
           /\ LeafWith(leaf, n, ts).attempt_count = n
           /\ LeafWith(leaf, n, ts).timestamp = ts
           /\ LeafWith(leaf, n, ts).key = leaf.key
BY DEF Leaves, LeafWith

\* pw_handle_insert_leaf()
LEMMA InsertAnswers ==
    ASSUME Inv, NEW l \in Labels, pw_handle_insert_leaf(l)
    PROVE  /\ Answered(l) /\ UNCHANGED since /\ wrong'[l] = 0 /\ validate_tree
           /\ \E leaf \in Leaves : leaf.label = l
                 /\ Update("PW_INSERT_LEAF", l, leaf, 0, NoTime)
<1> USE BoundAssumption
<1> DEFINE leaf == [label |-> l, key |-> merkle_tree.key, iv |-> inserts + 1,
                    attempt_count |-> 0, timestamp |-> NoTime]
<1>1. merkle_tree.key \in 1 .. MaxTrees
  BY DEF pw_handle_insert_leaf, validate_tree, Inv, Typed, TreeTyped, CountersTyped
<1>2. inserts + 1 \in 1 .. MaxInserts
  BY DEF pw_handle_insert_leaf, Inv, Typed, CountersTyped
<1>3. NoTime \in Timestamps
  BY NewTimes DEF Inv
<1>4. leaf \in Leaves /\ leaf.label = l /\ leaf.attempt_count = 0
  BY <1>1, <1>2, <1>3 DEF Leaves
<1>5. wrong' = [wrong EXCEPT ![l] = 0] /\ UNCHANGED since
  BY DEF pw_handle_insert_leaf
<1>6. wrong'[l] = 0 /\ wrong' \in [Labels -> 0 .. MaxAttempts]
      /\ \A m \in Labels \ {l} : wrong'[m] = wrong[m]
  BY <1>5 DEF Inv, Typed, CountersTyped
<1>7. Answer(l, "PW_INSERT_LEAF", leaf, 0, NoTime)
  BY <1>2, <1>4, <1>5, <1>6
     DEF pw_handle_insert_leaf, Answer, Inv, Typed, CountersTyped
<1>8. "PW_INSERT_LEAF" \in Types /\ 0 \in {0, 1}
  BY DEF Types
<1> HIDE DEF leaf
<1>9. Answered(l)
  BY <1>3, <1>4, <1>7, <1>8 DEF Answered
<1> QED
  BY <1>4, <1>5, <1>6, <1>7, <1>9 DEF Answer

\* pw_handle_remove_leaf()
LEMMA RemoveAnswers ==
    ASSUME Inv, NEW l \in Labels, pw_handle_remove_leaf(l)
    PROVE  Answered(l) /\ UNCHANGED <<since, wrong>>
<1>1. UNCHANGED hist /\ UNCHANGED <<tree_var, pw_restart_count, timer>>
      /\ validate_tree /\ Update("PW_REMOVE_LEAF", l, None, 0, NoTime)
      /\ Stores(l, None)
  BY DEF pw_handle_remove_leaf
<1>2. Answer(l, "PW_REMOVE_LEAF", None, 0, NoTime)
  BY <1>1 DEF Answer, hist, Inv, Typed, CountersTyped
<1>3. "PW_REMOVE_LEAF" \in Types /\ 0 \in {0, 1} /\ NoTime \in Timestamps
  BY NewTimes DEF Types, Inv
<1> QED
  BY <1>1, <1>2, <1>3 DEF Answered, hist

\* pw_handle_reset_auth()
LEMMA ResetAnswers ==
    ASSUME Inv, NEW l \in Labels, pw_handle_reset_auth(l)
    PROVE  /\ Answered(l) /\ UNCHANGED since /\ wrong'[l] = 0
           /\ log_var # None /\ ValidLeaf(ap[l])
           /\ Update("PW_TRY_AUTH", l, LeafWith(ap[l], 0, ap[l].timestamp), 0,
                     ap[l].timestamp)
<1> DEFINE leaf == ap[l]
           new == LeafWith(leaf, 0, leaf.timestamp)
<1>1. ValidLeaf(leaf) /\ Update("PW_TRY_AUTH", l, new, 0, leaf.timestamp)
      /\ Stores(l, new) /\ wrong' = [wrong EXCEPT ![l] = 0] /\ UNCHANGED since
      /\ UNCHANGED <<tree_var, pw_restart_count, timer, inserts, trees, cleared>>
  BY DEF pw_handle_reset_auth, ResetTime, LeafWith
<1>2. log_var # None
  BY <1>1 DEF Update, log_append
<1>3. leaf \in Leaves /\ leaf.label = l /\ validate_tree
  BY <1>1, <1>2, ValidIsStored
<1>4. leaf.timestamp \in Timestamps /\ 0 \in 0 .. MaxAttempts
  BY <1>3, BoundAssumption DEF Leaves
<1>5. new \in Leaves /\ new.label = l /\ new.attempt_count = 0
  BY <1>3, <1>4, NewLeaves
<1> HIDE DEF new, leaf
<1>6. wrong'[l] = 0 /\ wrong' \in [Labels -> 0 .. MaxAttempts]
      /\ \A m \in Labels \ {l} : wrong'[m] = wrong[m]
  BY <1>1, <1>4 DEF Inv, Typed, CountersTyped
<1>7. Answer(l, "PW_TRY_AUTH", new, 0, leaf.timestamp)
  BY <1>1, <1>3, <1>5, <1>6 DEF Answer, Inv, Typed, CountersTyped
<1>8. "PW_TRY_AUTH" \in Types /\ 0 \in {0, 1}
  BY DEF Types
<1>9. Answered(l)
  BY <1>4, <1>5, <1>7, <1>8 DEF Answered
<1> QED
  BY <1>1, <1>2, <1>6, <1>9 DEF new, leaf

\* pw_handle_try_auth()
LEMMA TryAnswers ==
    ASSUME Inv, NEW l \in Labels, NEW right \in BOOLEAN, pw_handle_try_auth(l, right)
    PROVE  /\ Answered(l) /\ since' = [since EXCEPT ![l] = 0]
           /\ log_var # None /\ ValidLeaf(ap[l]) /\ test_rate_limit(ap[l])
           /\ Update("PW_TRY_AUTH", l,
                     LeafWith(ap[l], NewAttempts(ap[l], right), update_timestamp),
                     IF right THEN 0 ELSE 1, update_timestamp)
<1> DEFINE leaf == ap[l]
           n == NewAttempts(leaf, right)
           new == LeafWith(leaf, n, update_timestamp)
           code == IF right THEN 0 ELSE 1
<1>1. /\ ValidLeaf(leaf) /\ (wrong[l] < MaxAttempts \/ right) /\ test_rate_limit(leaf)
      /\ Update("PW_TRY_AUTH", l, new, code, new.timestamp) /\ Stores(l, new)
      /\ wrong' = [wrong EXCEPT ![l] = IF right THEN 0 ELSE @ + 1]
      /\ since' = [since EXCEPT ![l] = 0]
      /\ UNCHANGED <<tree_var, pw_restart_count, timer, inserts, trees, cleared>>
  BY DEF pw_handle_try_auth, LeafWith
<1>2. log_var # None
  BY <1>1 DEF Update, log_append
<1>3. leaf \in Leaves /\ leaf.label = l /\ validate_tree
      /\ leaf.attempt_count = wrong[l]
  BY <1>1, <1>2, ValidIsStored
<1>4. wrong[l] \in 0 .. MaxAttempts /\ MaxAttempts \in Nat
  BY BoundAssumption DEF Inv, Typed, CountersTyped
<1>5. n \in 0 .. MaxAttempts /\ n = IF right THEN 0 ELSE wrong[l] + 1
  BY <1>1, <1>3, <1>4 DEF NewAttempts
<1>6. update_timestamp \in Timestamps
  BY NewTimes DEF Inv
<1> HIDE DEF leaf, n
<1>7. new \in Leaves /\ new.label = l /\ new.attempt_count = n
      /\ new.timestamp = update_timestamp
  BY <1>3, <1>5, <1>6, NewLeaves
<1> HIDE DEF new
<1>8. wrong'[l] = n /\ wrong' \in [Labels -> 0 .. MaxAttempts]
      /\ \A m \in Labels \ {l} : wrong'[m] = wrong[m]
  BY <1>1, <1>5 DEF Inv, Typed, CountersTyped
<1>9. since' \in [Labels -> 0 .. LongestDelay]
  BY <1>1, Delays DEF Inv, Typed, CountersTyped
<1>10. Answer(l, "PW_TRY_AUTH", new, code, update_timestamp)
  BY <1>1, <1>3, <1>7, <1>8, <1>9 DEF Answer, Inv, Typed, CountersTyped
<1>11. "PW_TRY_AUTH" \in Types /\ code \in {0, 1}
  BY DEF Types
<1>12. Answered(l)
  BY <1>6, <1>7, <1>10, <1>11 DEF Answered
<1> QED
  BY <1>1, <1>2, <1>7, <1>12 DEF new, leaf, n

TryLeaf(l, right) ==
    LET new == LeafWith(ap[l], NewAttempts(ap[l], right), update_timestamp)
    IN  /\ new \in Leaves /\ new.label = l /\ new.timestamp = update_timestamp

\* The leaf that a guess leaves has the time of the guess.
LEMMA TryIsLeaf ==
    ASSUME Inv, NEW l \in Labels, NEW right \in BOOLEAN, pw_handle_try_auth(l, right)
    PROVE  TryLeaf(l, right)
<1>1. log_var # None /\ ValidLeaf(ap[l]) /\ (wrong[l] < MaxAttempts \/ right)
  BY TryAnswers DEF pw_handle_try_auth
<1>2. ap[l] \in Leaves /\ ap[l].label = l /\ ap[l].attempt_count = wrong[l]
  BY <1>1, ValidIsStored
<1>3. wrong[l] \in 0 .. MaxAttempts /\ MaxAttempts \in Nat
  BY BoundAssumption DEF Inv, Typed, CountersTyped
<1>4. NewAttempts(ap[l], right) \in 0 .. MaxAttempts
  BY <1>1, <1>2, <1>3 DEF NewAttempts
<1>5. update_timestamp \in Timestamps
  BY NewTimes DEF Inv
<1> QED
  BY <1>2, <1>4, <1>5, NewLeaves DEF TryLeaf

\* An answer keeps the invariant: the log names the new leaf, and the AP has
\* the old one or the new one.
LEMMA AnswerKeeps ==
    ASSUME Inv, NEW l \in Labels, Answered(l)
    PROVE  /\ Inv' /\ log_var # None /\ log_var' # None
           /\ log_var'.restart_count = log_var.restart_count
           /\ merkle_tree'.key = merkle_tree.key /\ validate_tree
           /\ \A m \in Labels \ {l} :
                 log_var'.entries[1].root[m] = log_var.entries[1].root[m]
           /\ UNCHANGED <<tree_var, pw_restart_count, timer, trees, cleared>>
<1>1. PICK type \in Types, leaf \in Leaves \cup {None}, code \in {0, 1},
           ts \in Timestamps : Answer(l, type, leaf, code, ts)
  BY DEF Answered
<1>2. /\ log_var # None /\ log_var' # None /\ LogTyped'
      /\ log_var'.restart_count = log_var.restart_count
      /\ merkle_tree'.root = [merkle_tree.root EXCEPT ![l] = leaf]
      /\ IsTree(merkle_tree'.root)
      /\ merkle_tree'.key = merkle_tree.key
      /\ merkle_tree' \in [key : 0 .. trees, root : [Labels -> Leaves \cup {None}]]
      /\ log_var'.entries[1] = Entry(type, l, merkle_tree'.root, code, ts)
  <2>1. (leaf # None => leaf.label = l) /\ Update(type, l, leaf, code, ts)
    BY <1>1 DEF Answer
  <2>2. LogTyped /\ TreeTyped
    BY DEF Inv, Typed
  <2> QED
    BY <2>1, <2>2, UpdateEffect
<1>3. log_var'.entries[1].root = merkle_tree'.root
  BY <1>2 DEF Entry
<1>4. UNCHANGED <<tree_var, pw_restart_count, timer, trees, cleared>>
      /\ validate_tree
  BY <1>1 DEF Answer
<1>5. IsTree(ap')
  BY <1>1 DEF Answer, Stores, IsTree, Inv, Typed, TreeTyped
<1>6. CountersTyped'
  BY <1>1 DEF Answer, Inv, Typed, CountersTyped
<1>7. RootInv'
  BY <1>2, <1>3, <1>4 DEF RootInv, Inv
<1>8. merkle_tree.root = log_var.entries[1].root
      /\ merkle_tree.root \in [Labels -> Leaves \cup {None}]
  BY <1>2, <1>4 DEF RootInv, Inv, Typed, TreeTyped
<1>9. \A m \in Labels \ {l} :
        log_var'.entries[1].root[m] = log_var.entries[1].root[m]
  BY <1>2, <1>3, <1>8
<1>10. log_var'.entries[1].root[l] = leaf
  BY <1>2, <1>3, <1>8
<1>11. GuessesCounted'
  <2> SUFFICES ASSUME NEW m \in Labels, log_var'.entries[1].root[m] # None
               PROVE  log_var'.entries[1].root[m].attempt_count = wrong'[m]
    BY DEF GuessesCounted
  <2>1. CASE m = l
    BY <1>1, <1>10, <2>1 DEF Answer
  <2>2. CASE m # l
    BY <1>1, <1>2, <1>9, <2>2 DEF Answer, Inv, GuessesCounted
  <2> QED
    BY <2>1, <2>2
<1>12. TreeTyped'
  BY <1>2, <1>4, <1>5 DEF TreeTyped
<1> QED
  BY <1>2, <1>4, <1>6, <1>7, <1>9, <1>11, <1>12 DEF Inv, Typed

\* An empty tree is a tree, and the log of a new one has its type.
LEMMA NewTree ==
    /\ NoTree.key = 0 /\ IsTree(NoTree.root)
    /\ \A n \in Nat : \A k \in 0 .. n :
          /\ [NoTree EXCEPT !.key = k] \in
                [key : 0 .. n, root : [Labels -> Leaves \cup {None}]]
          /\ [NoTree EXCEPT !.key = k].key = k
          /\ [NoTree EXCEPT !.key = k].root = NoTree.root
    /\ \A l \in Labels : NoTree.root[l] = None
    /\ NewLog(NoTree.root) \in LogType /\ NewLog(NoTree.root) # None
    /\ NewLog(NoTree.root).restart_count = 0
    /\ Len(NewLog(NoTree.root).entries) = 1
    /\ NewLog(NoTree.root).entries[1].root = NoTree.root
<1> USE BoundAssumption
<1> DEFINE r == NoTree.root
           c == CHOOSE l \in Labels : TRUE
           e == Entry("PW_RESET_TREE", c, r, 0, NoTime)
<1>1. NoTree.key = 0 /\ r = [l \in Labels |-> None]
      /\ NoTree = [key |-> 0, root |-> r]
  BY DEF NoTree
<1>2. IsTree(r) /\ r \in [Labels -> Leaves \cup {None}]
  BY <1>1 DEF IsTree
<1>3. \A n \in Nat : \A k \in 0 .. n :
          /\ [NoTree EXCEPT !.key = k] \in
                [key : 0 .. n, root : [Labels -> Leaves \cup {None}]]
          /\ [NoTree EXCEPT !.key = k].key = k
          /\ [NoTree EXCEPT !.key = k].root = NoTree.root
  <2> HIDE DEF r
  <2> QED
    BY <1>1, <1>2 DEF r
<1>4. c \in Labels
  OBVIOUS
<1>5. NoTime \in Timestamps
  BY DEF NoTime, Timestamps
<1> HIDE DEF r, c
<1>6. e \in EntryType /\ e.root = r
  BY <1>2, <1>4, <1>5 DEF Entry, EntryType, Types
<1>7. NewLog(r) = [restart_count |-> 0, entries |-> <<e>>]
  BY DEF NewLog, c
<1> HIDE DEF e
<1>8. <<e>> \in Seq(EntryType) /\ Len(<<e>>) = 1 /\ <<e>>[1] = e
  BY <1>6
<1>9. NewLog(r) \in LogType /\ NewLog(r).restart_count = 0
      /\ NewLog(r).entries = <<e>>
  BY <1>7, <1>8 DEF LogType
<1> QED
  BY <1>1, <1>2, <1>3, <1>6, <1>8, <1>9, NoneIsNothing DEF r

\* pw_handle_reset_tree(), to its end or not
LEMMA TreeStep ==
    ASSUME Inv, pw_handle_reset_tree \/ reset_tree_fails
    PROVE  Inv'
<1> USE BoundAssumption
<1>1. trees' = trees + 1 /\ tree_var' = trees' /\ trees' \in 1 .. MaxTrees
      /\ trees \in Nat
  BY DEF pw_handle_reset_tree, reset_tree_fails, Inv, Typed, CountersTyped
<1>2. CASE pw_handle_reset_tree
  <2>1. /\ log_var' = NewLog(NoTree.root)
        /\ merkle_tree' = [NoTree EXCEPT !.key = trees'] /\ pw_restart_count' = 0
        /\ UNCHANGED <<timer, ap, inserts, cleared, wrong, since>>
    BY <1>2 DEF pw_handle_reset_tree
  <2>2. log_var' # None /\ LogTyped' /\ log_var'.entries[1].root = NoTree.root
        /\ log_var'.restart_count = 0
    <3>1. \A x \in 1 .. Len(log_var'.entries) : IsTree(log_var'.entries[x].root)
      BY <2>1, NewTree
    <3> QED
      BY <2>1, <3>1, NewTree DEF LogTyped
  <2>3. trees' \in 0 .. trees' /\ trees' \in Nat
    BY <1>1
  <2>4. merkle_tree' \in [key : 0 .. trees', root : [Labels -> Leaves \cup {None}]]
        /\ merkle_tree'.root = NoTree.root /\ merkle_tree'.key = trees'
    BY <2>1, <2>3, NewTree
  <2>5. TreeTyped'
    BY <2>1, <2>4, NewTree DEF TreeTyped, Inv, Typed
  <2>6. CountersTyped'
    BY <1>1, <2>1 DEF Inv, Typed, CountersTyped
  <2>7. GuessesCounted'
    BY <2>2, NewTree DEF GuessesCounted
  <2> QED
    BY <2>1, <2>2, <2>4, <2>5, <2>6, <2>7 DEF Inv, Typed, RootInv
<1>3. CASE reset_tree_fails
  <2>1. UNCHANGED <<log_var, merkle_tree, pw_restart_count, timer, ap, inserts,
                    cleared, wrong, since>>
    BY <1>3 DEF reset_tree_fails
  <2>2. TreeTyped'
    BY <1>1, <2>1 DEF TreeTyped, Inv, Typed
  <2>3. CountersTyped'
    BY <1>1, <2>1 DEF Inv, Typed, CountersTyped
  <2> QED
    BY <2>1, <2>2, <2>3 DEF Inv, Typed, LogTyped, RootInv, validate_tree, GuessesCounted
<1> QED
  BY <1>2, <1>3

\* pinweaver_init()
LEMMA InitStep == ASSUME Inv, pinweaver_init PROVE Inv'
<1> USE BoundAssumption
<1>1. UNCHANGED <<tree_var, timer, ap, hist>> /\ tree_var # 0
  BY DEF pinweaver_init
<1>2. UNCHANGED <<trees, wrong, since, inserts, cleared>>
  BY <1>1 DEF hist
<1>3. CASE log_var # None
  <2>1. log_var \in LogType /\ Len(log_var.entries) \in 1 .. LogEntryCount
        /\ \A x \in 1 .. Len(log_var.entries) : IsTree(log_var.entries[x].root)
    BY <1>3 DEF Inv, Typed, LogTyped
  <2>2. /\ Counted => log_var.restart_count < MaxRestarts
        /\ log_var' = IF Counted THEN [log_var EXCEPT !.restart_count = @ + 1]
                      ELSE log_var
        /\ merkle_tree' = [key |-> tree_var, root |-> log_var.entries[1].root]
        /\ pw_restart_count' = log_var'.restart_count
    BY <1>3 DEF pinweaver_init
  <2>3. log_var' \in LogType /\ log_var'.entries = log_var.entries
    <3>1. CASE Counted
      <4>1. log_var.restart_count + 1 \in 0 .. MaxRestarts
        BY <2>1, <2>2, <3>1 DEF LogType
      <4>2. log_var' = [log_var EXCEPT !.restart_count = log_var.restart_count + 1]
        BY <2>2, <3>1
      <4> QED
        BY <2>1, <4>1, <4>2 DEF LogType
    <3> QED
      BY <2>1, <2>2, <3>1
  <2>4. log_var' # None /\ log_var'.restart_count \in 0 .. MaxRestarts
    BY <2>3, NoneIsNothing DEF LogType
  <2>5. LogTyped'
    BY <2>1, <2>3 DEF LogTyped
  <2>6. IsTree(log_var.entries[1].root) /\ 1 \in 1 .. Len(log_var.entries)
    BY <2>1
  <2>7. TreeTyped'
    BY <1>1, <1>2, <2>2, <2>6 DEF TreeTyped, IsTree, Inv, Typed, CountersTyped
  <2>8. CountersTyped'
    BY <1>1, <1>2, <2>2, <2>4 DEF Inv, Typed, CountersTyped
  <2>9. RootInv'
    BY <2>2, <2>3 DEF RootInv
  <2>10. GuessesCounted'
    BY <1>2, <1>3, <2>3 DEF GuessesCounted, Inv
  <2> QED
    BY <2>5, <2>7, <2>8, <2>9, <2>10 DEF Inv, Typed
<1>4. CASE log_var = None
  <2>1. merkle_tree' = [merkle_tree EXCEPT !.key = tree_var]
        /\ UNCHANGED <<log_var, pw_restart_count>>
    BY <1>4 DEF pinweaver_init
  <2>2. TreeTyped'
    BY <1>1, <1>2, <2>1 DEF TreeTyped, Inv, Typed, CountersTyped
  <2>3. CountersTyped'
    BY <1>1, <1>2, <2>1 DEF Inv, Typed, CountersTyped
  <2> QED
    BY <1>4, <2>1, <2>2, <2>3 DEF Inv, Typed, LogTyped, RootInv, GuessesCounted
<1> QED
  BY <1>3, <1>4

\* The invariant is inductive.
LEMMA InvStep == Inv /\ [Next]_vars => Inv'
<1> SUFFICES ASSUME Inv, [Next]_vars PROVE Inv'
  OBVIOUS
<1> USE BoundAssumption
<1>1. CASE pw_handle_reset_tree \/ reset_tree_fails
  BY <1>1, TreeStep
<1>2. CASE pinweaver_init
  BY <1>2, InitStep
<1>3. ASSUME NEW l \in Labels,
             \/ pw_handle_insert_leaf(l) \/ pw_handle_remove_leaf(l)
             \/ pw_handle_reset_auth(l)
             \/ \E right \in BOOLEAN : pw_handle_try_auth(l, right)
      PROVE  Inv'
  <2>1. Answered(l)
    BY <1>3, InsertAnswers, RemoveAnswers, ResetAnswers, TryAnswers
  <2> QED
    BY <2>1, AnswerKeeps
<1>4. CASE OwnerClear
  <2>1. log_var' = None /\ tree_var' = 0 /\ cleared' = trees
        /\ UNCHANGED <<merkle_tree, pw_restart_count, timer, ap, inserts, trees,
                       wrong, since>>
    BY <1>4 DEF OwnerClear, OwnerClearLog
  <2>2. TreeTyped'
    BY <2>1 DEF TreeTyped, Inv, Typed
  <2>3. CountersTyped'
    BY <2>1 DEF CountersTyped, Inv, Typed
  <2> QED
    BY <2>1, <2>2, <2>3 DEF Inv, Typed, LogTyped, RootInv, GuessesCounted
<1>5. CASE ChipReset
  <2>1. /\ UNCHANGED <<tree_var, cleared>> \/ (tree_var' = 0 /\ cleared' = trees)
        /\ merkle_tree' = NoTree /\ pw_restart_count' = 0 /\ timer' = 0
        /\ UNCHANGED <<log_var, ap, inserts, trees, wrong, since>>
    BY <1>5 DEF ChipReset
  <2>2. TreeTyped'
    <3>1. NoTree = [NoTree EXCEPT !.key = 0] /\ trees \in Nat /\ 0 \in 0 .. trees
      BY DEF NoTree, Inv, Typed, CountersTyped
    <3>2. NoTree \in [key : 0 .. trees, root : [Labels -> Leaves \cup {None}]]
      BY <3>1, NewTree
    <3> QED
      BY <2>1, <3>2, NewTree DEF TreeTyped, Inv, Typed
  <2>3. CountersTyped'
    BY <2>1 DEF CountersTyped, Inv, Typed
  <2> QED
    BY <2>1, <2>2, <2>3, NewTree
       DEF Inv, Typed, LogTyped, RootInv, validate_tree, GuessesCounted
<1>6. CASE Tick
  <2>1. timer < MaxTimer /\ timer' = timer + 1
        /\ since' = [l \in Labels |-> IF since[l] < LongestDelay THEN since[l] + 1
                                      ELSE since[l]]
        /\ UNCHANGED <<nv, merkle_tree, pw_restart_count, ap, inserts, trees, cleared,
                       wrong>>
    BY <1>6 DEF Tick
  <2>2. CountersTyped'
    BY <2>1, Delays DEF CountersTyped, Inv, Typed, nv
  <2> QED
    BY <2>1, <2>2
       DEF Inv, Typed, LogTyped, TreeTyped, RootInv, validate_tree, GuessesCounted, nv
<1>7. ASSUME NEW l \in Labels, pw_handle_log_replay(l) PROVE Inv'
  <2>1. PICK x \in DOMAIN log_var.entries :
          /\ Replays(ap[l], x)
          /\ ap' = [ap EXCEPT ![l] = Replayed(@, log_var.entries[x])]
    BY <1>7 DEF pw_handle_log_replay
  <2>2. log_var # None /\ UNCHANGED <<nv, merkle_tree, pw_restart_count, timer, hist>>
    BY <1>7 DEF pw_handle_log_replay
  <2>3. log_var \in LogType /\ x \in 1 .. Len(log_var.entries)
        /\ log_var.entries[x] \in EntryType /\ IsTree(log_var.entries[x].root)
    BY <2>2 DEF Inv, Typed, LogTyped, LogType
  <2> DEFINE e == log_var.entries[x]
  <2>4. Replayed(ap[l], e) = e.root[e.label] /\ ap[l] # None /\ ap[l].label = e.label
    BY <2>1 DEF Replays
  <2>5. ap[l].label = l /\ IsTree(ap)
    BY <2>4 DEF Inv, Typed, TreeTyped, IsTree
  <2>6. e.root[l] \in Leaves \cup {None} /\ (e.root[l] # None => e.root[l].label = l)
    BY <2>3 DEF IsTree
  <2>7. ap' = [ap EXCEPT ![l] = e.root[l]]
    BY <2>1, <2>4, <2>5
  <2>8. IsTree(ap')
    BY <2>5, <2>6, <2>7 DEF IsTree
  <2> QED
    BY <2>2, <2>8
       DEF Inv, Typed, LogTyped, TreeTyped, CountersTyped, RootInv, validate_tree,
           GuessesCounted, nv, hist
<1>8. CASE UNCHANGED vars
  BY <1>8 DEF Inv, Typed, LogTyped, TreeTyped, CountersTyped, RootInv, validate_tree,
     GuessesCounted, vars, nv, hist
<1> QED
  BY <1>1, <1>2, <1>3, <1>4, <1>5, <1>6, <1>7, <1>8 DEF Next

\* The invariant holds at first.
LEMMA InvInit == Init => Inv
<1> SUFFICES ASSUME Init PROVE Inv
  OBVIOUS
<1> USE BoundAssumption DEF Init
<1>1. NoTree = [NoTree EXCEPT !.key = 0] /\ ap = NoTree.root
  BY DEF NoTree
<1>2. merkle_tree \in [key : 0 .. trees, root : [Labels -> Leaves \cup {None}]]
  BY <1>1, NewTree
<1>3. TreeTyped
  BY <1>1, <1>2, NewTree DEF TreeTyped
<1>4. CountersTyped
  BY Delays DEF CountersTyped
<1> QED
  BY <1>3, <1>4 DEF Inv, Typed, LogTyped, RootInv, GuessesCounted

\* Everything has its type, and no wrong guess is forgotten, whatever the chip,
\* the AP and its old copies do, for every number of labels and every log.
THEOREM GuessesAreCounted == Spec => [](TypeOK /\ GuessesCounted)
<1>1. Inv => TypeOK
  <2> SUFFICES ASSUME Inv PROVE TypeOK
    OBVIOUS
  <2>1. ASSUME log_var # None
        PROVE  /\ log_var.restart_count \in 0 .. MaxRestarts
               /\ Len(log_var.entries) \in 1 .. LogEntryCount
               /\ \A e \in Range(log_var.entries) :
                     \A l \in Labels : e.root[l] \in Leaves \cup {None}
    <3>1. log_var \in LogType /\ Len(log_var.entries) \in 1 .. LogEntryCount
      BY <2>1 DEF Inv, Typed, LogTyped
    <3>2. log_var.entries \in Seq(EntryType) /\ log_var.restart_count \in 0 .. MaxRestarts
      BY <3>1 DEF LogType
    <3>3. \A e \in Range(log_var.entries) : e \in EntryType
      BY <3>2 DEF Range
    <3> QED
      BY <3>1, <3>2, <3>3 DEF EntryType
  <2>2. \A l \in Labels : {merkle_tree.root[l], ap[l]} \subseteq Leaves \cup {None}
    BY DEF Inv, Typed, TreeTyped, IsTree
  <2> QED
    BY <2>1, <2>2 DEF TypeOK, Inv, Typed, TreeTyped, CountersTyped
<1>2. Inv => GuessesCounted
  BY DEF Inv
<1> QED
  BY <1>1, <1>2, InvInit, InvStep, PTL DEF Spec

----------------------------------------------------------------------------
(* Clearing the owner.                                                     *)

\* Only pw_handle_try_auth() answers a guess.
LEMMA GuessIsTry ==
    ASSUME Inv, [Next]_vars, NEW l \in Labels, Guess(l)
    PROVE  \E right \in BOOLEAN : pw_handle_try_auth(l, right)
<1>1. /\ wrong[l] \in Nat /\ since[l] \in Nat /\ since \in [Labels -> Nat]
      /\ wrong \in [Labels -> Nat]
  BY Delays, BoundAssumption DEF Inv, Typed, CountersTyped
<1>2. ASSUME UNCHANGED <<wrong, since>> PROVE FALSE
  BY <1>1, <1>2 DEF Guess
<1>3. ASSUME NEW m \in Labels, pw_handle_insert_leaf(m) \/ pw_handle_reset_auth(m)
      PROVE  FALSE
  <2>1. wrong' = [wrong EXCEPT ![m] = 0] /\ since' = since
    BY <1>3 DEF pw_handle_insert_leaf, pw_handle_reset_auth
  <2> QED
    BY <1>1, <2>1 DEF Guess
<1>4. ASSUME NEW m \in Labels, NEW right \in BOOLEAN, pw_handle_try_auth(m, right),
             m # l
      PROVE  FALSE
  <2>1. wrong'[l] = wrong[l] /\ since'[l] = since[l]
    BY <1>1, <1>4 DEF pw_handle_try_auth
  <2> QED
    BY <1>1, <2>1 DEF Guess
<1>5. ASSUME Tick PROVE FALSE
  <2>1. wrong'[l] = wrong[l]
    BY <1>5 DEF Tick
  <2>2. since'[l] \in {since[l], since[l] + 1}
    BY <1>5 DEF Tick
  <2> QED
    BY <1>1, <2>1, <2>2 DEF Guess
<1> QED
  BY <1>2, <1>3, <1>4, <1>5
     DEF Next, pw_handle_reset_tree, reset_tree_fails, pinweaver_init, OwnerClear,
         ChipReset, pw_handle_remove_leaf, pw_handle_log_replay, vars, hist

\* A tree in use is younger than the last clearing of the owner: the key that
\* one leaves in flash, and the one in RAM while there is a log, are.
KeyInv ==
    /\ tree_var # 0 => tree_var > cleared
    /\ log_var # None /\ validate_tree => merkle_tree.key > cleared

\* Only a new tree or its loading makes a key usable.
LEMMA KeyStep == Inv /\ KeyInv /\ [Next]_vars => KeyInv'
<1> SUFFICES ASSUME Inv, KeyInv, [Next]_vars PROVE KeyInv'
  OBVIOUS
<1>1. trees \in Nat /\ cleared \in 0 .. trees
  BY BoundAssumption DEF Inv, Typed, CountersTyped
<1>2. CASE pw_handle_reset_tree
  <2>1. merkle_tree'.key = trees' /\ trees' = trees + 1 /\ tree_var' = trees'
        /\ cleared' = cleared
    BY <1>2 DEF pw_handle_reset_tree, NoTree
  <2> QED
    BY <1>1, <2>1 DEF KeyInv
<1>3. CASE reset_tree_fails
  BY <1>1, <1>3 DEF reset_tree_fails, KeyInv, validate_tree
<1>4. CASE pinweaver_init
  <2>1. cleared' = cleared /\ tree_var' = tree_var /\ tree_var # 0
    BY <1>4 DEF pinweaver_init, hist
  <2>2. log_var' # None => merkle_tree'.key = tree_var
    BY <1>4 DEF pinweaver_init
  <2> QED
    BY <2>1, <2>2 DEF KeyInv
<1>5. CASE OwnerClear
  BY <1>5 DEF OwnerClear, OwnerClearLog, KeyInv
<1>6. CASE ChipReset
  BY <1>6 DEF ChipReset, NoTree, KeyInv, validate_tree
<1>7. ASSUME NEW l \in Labels, Answered(l) PROVE KeyInv'
  BY <1>7, AnswerKeeps DEF KeyInv, validate_tree
<1>8. ASSUME UNCHANGED <<tree_var, log_var, merkle_tree, cleared>> PROVE KeyInv'
  BY <1>8 DEF KeyInv, validate_tree
<1> QED
  BY <1>2, <1>3, <1>4, <1>5, <1>6, <1>7, <1>8, InsertAnswers, RemoveAnswers,
     ResetAnswers, TryAnswers
     DEF Next, pw_handle_log_replay, Tick, vars, nv, hist

\* For every number of trees and labels: nobody can guess at a leaf from before
\* the owner was cleared, also when that was cut short.
THEOREM ClearedLeavesAreGone == Spec => ClearedIsGone
<1>1. Init => KeyInv
  BY DEF Init, KeyInv
<1>2. Inv /\ KeyInv /\ [Next]_vars
        => [\A l \in Labels : Guess(l) => ap[l].key > cleared]_vars
  <2> SUFFICES ASSUME Inv, KeyInv, [Next]_vars, NEW l \in Labels, Guess(l)
               PROVE  ap[l].key > cleared
    OBVIOUS
  <2>1. PICK right \in BOOLEAN : pw_handle_try_auth(l, right)
    BY GuessIsTry
  <2>2. log_var # None /\ ValidLeaf(ap[l])
    BY <2>1, TryAnswers
  <2>3. ap[l].key = merkle_tree.key /\ validate_tree
    BY <2>2, ValidIsStored
  <2> QED
    BY <2>2, <2>3 DEF KeyInv
<1> QED
  BY <1>1, <1>2, InvInit, InvStep, KeyStep, PTL DEF Spec, ClearedIsGone

----------------------------------------------------------------------------
(* The delay.                                                              *)

LeafOf(l) == log_var.entries[1].root[l]

\* How much of the time since the guess that made the leaf of l is known: all of
\* it up to the longest delay, all since the chip was reset, or all since the
\* time stamp, which is of this count of restarts or close to the reset.
Waited(l) ==
    \/ since[l] = LongestDelay
    \/ since[l] >= timer
    \/ /\ LeafOf(l).timestamp.timer_value <= timer
       /\ since[l] >= timer - LeafOf(l).timestamp.timer_value
       /\ \/ LeafOf(l).timestamp.boot_count = log_var.restart_count
          \/ LeafOf(l).timestamp.timer_value < RestartThreshold

SinceInv ==
    \A l \in Labels :
        log_var # None /\ LeafOf(l) # None /\ LeafOf(l).attempt_count > 0 => Waited(l)

\* An answer changes what is known of one leaf.
LEMMA SinceAnswer ==
    ASSUME Inv, SinceInv, NEW l \in Labels, Answered(l),
           \A m \in Labels \ {l} : since'[m] = since[m],
           LeafOf(l)' # None /\ LeafOf(l)'.attempt_count > 0 => Waited(l)'
    PROVE  SinceInv'
<1>1. /\ log_var # None /\ log_var' # None
      /\ log_var'.restart_count = log_var.restart_count /\ timer' = timer
      /\ \A m \in Labels \ {l} : LeafOf(m)' = LeafOf(m)
  BY AnswerKeeps DEF LeafOf
<1>2. ASSUME NEW m \in Labels \ {l}, LeafOf(m)' # None, LeafOf(m)'.attempt_count > 0
      PROVE  Waited(m)'
  <2>1. Waited(m) /\ LeafOf(m)' = LeafOf(m) /\ since'[m] = since[m]
    BY <1>1, <1>2 DEF SinceInv
  <2> QED
    BY <1>1, <2>1 DEF Waited
<1> QED
  BY <1>1, <1>2 DEF SinceInv

\* The leaf of an answer is the one in flash.
LEMMA AnswerLeaf ==
    ASSUME Inv, NEW type \in Types, NEW l \in Labels,
           NEW leaf \in Leaves \cup {None}, leaf # None => leaf.label = l,
           NEW code \in {0, 1}, NEW ts \in Timestamps,
           Update(type, l, leaf, code, ts)
    PROVE  LeafOf(l)' = leaf
<1>1. /\ log_var'.entries[1] = Entry(type, l, merkle_tree'.root, code, ts)
      /\ merkle_tree'.root = [merkle_tree.root EXCEPT ![l] = leaf]
  BY UpdateEffect DEF Inv, Typed
<1>2. merkle_tree.root \in [Labels -> Leaves \cup {None}]
  BY DEF Inv, Typed, TreeTyped
<1> QED
  BY <1>1, <1>2 DEF Entry, LeafOf

\* Time goes on for all of them; a restart that is counted comes shortly after
\* the reset of the chip.
LEMMA SinceStep == Inv /\ SinceInv /\ [Next]_vars => SinceInv'
<1> SUFFICES ASSUME Inv, SinceInv, [Next]_vars PROVE SinceInv'
  OBVIOUS
<1>1. /\ timer \in Nat /\ since \in [Labels -> 0 .. LongestDelay]
      /\ LongestDelay \in Nat /\ RestartThreshold \in Nat
  BY Delays, BoundAssumption DEF Inv, Typed, CountersTyped
<1>2. ASSUME NEW l \in Labels, log_var # None, LeafOf(l) # None
      PROVE  LeafOf(l).timestamp \in Timestamps
  <2>1. 1 \in 1 .. Len(log_var.entries) /\ IsTree(log_var.entries[1].root)
    BY <1>2, BoundAssumption DEF Inv, Typed, LogTyped
  <2>2. LeafOf(l) \in Leaves
    BY <1>2, <2>1 DEF IsTree, LeafOf
  <2> QED
    BY <2>2 DEF Leaves
<1>3. \A ts \in Timestamps : ts.timer_value \in Nat
  BY BoundAssumption DEF Timestamps
<1>4. CASE pw_handle_reset_tree
  BY <1>4, NewTree DEF pw_handle_reset_tree, SinceInv, LeafOf
<1>5. CASE OwnerClear
  BY <1>5 DEF OwnerClear, OwnerClearLog, SinceInv
<1>6. CASE ChipReset
  <2>1. timer' = 0 /\ since' = since
    BY <1>6 DEF ChipReset
  <2>2. \A l \in Labels : since'[l] >= timer'
    BY <1>1, <2>1
  <2> QED
    BY <2>2 DEF SinceInv, Waited
<1>7. CASE Tick
  <2> SUFFICES ASSUME NEW l \in Labels, log_var' # None, LeafOf(l)' # None,
                      LeafOf(l)'.attempt_count > 0
               PROVE  Waited(l)'
    BY DEF SinceInv
  <2>1. /\ timer' = timer + 1 /\ log_var' = log_var /\ LeafOf(l)' = LeafOf(l)
        /\ since'[l] = IF since[l] < LongestDelay THEN since[l] + 1 ELSE since[l]
    BY <1>7 DEF Tick, nv, LeafOf
  <2>2. Waited(l) /\ LeafOf(l).timestamp.timer_value \in Nat
    BY <1>2, <1>3, <2>1 DEF SinceInv
  <2>3. since[l] \in Nat /\ since[l] <= LongestDelay
    BY <1>1
  <2>4. CASE since[l] >= LongestDelay
    BY <1>1, <2>1, <2>3, <2>4 DEF Waited
  <2>5. CASE since[l] < LongestDelay
    BY <1>1, <2>1, <2>2, <2>3, <2>5 DEF Waited
  <2> QED
    BY <1>1, <2>3, <2>4, <2>5
<1>8. CASE pinweaver_init
  <2> SUFFICES ASSUME NEW l \in Labels, log_var' # None, LeafOf(l)' # None,
                      LeafOf(l)'.attempt_count > 0
               PROVE  Waited(l)'
    BY DEF SinceInv
  <2>1. log_var # None /\ timer' = timer /\ since' = since
    BY <1>8 DEF pinweaver_init, hist
  <2>2. log_var' = IF Counted THEN [log_var EXCEPT !.restart_count = @ + 1]
                   ELSE log_var
    BY <1>8, <2>1 DEF pinweaver_init
  <2>3. log_var \in LogType
    BY <2>1 DEF Inv, Typed, LogTyped
  <2>4. log_var'.entries = log_var.entries
    BY <2>2, <2>3 DEF LogType
  <2>5. LeafOf(l)' = LeafOf(l)
    BY <2>4 DEF LeafOf
  <2>6. Waited(l) /\ LeafOf(l).timestamp.timer_value \in Nat
    BY <1>2, <1>3, <2>1, <2>5 DEF SinceInv
  <2>7. CASE Counted
    BY <1>1, <2>1, <2>5, <2>6, <2>7 DEF Waited, Counted
  <2>8. CASE ~Counted
    BY <2>1, <2>2, <2>5, <2>6, <2>8 DEF Waited
  <2> QED
    BY <2>7, <2>8
<1>9. ASSUME NEW l \in Labels, pw_handle_insert_leaf(l) \/ pw_handle_reset_auth(l)
      PROVE  SinceInv'
  <2>1. Answered(l) /\ since' = since /\ wrong'[l] = 0
    BY <1>9, InsertAnswers, ResetAnswers
  <2>2. log_var' # None /\ GuessesCounted'
    BY <2>1, AnswerKeeps DEF Inv
  <2>3. LeafOf(l)' # None => LeafOf(l)'.attempt_count = 0
    BY <2>1, <2>2 DEF GuessesCounted, LeafOf
  <2> QED
    BY <2>1, <2>3, SinceAnswer
<1>10. ASSUME NEW l \in Labels, pw_handle_remove_leaf(l) PROVE SinceInv'
  <2>1. Answered(l) /\ since' = since
    BY <1>10, RemoveAnswers
  <2>2. Update("PW_REMOVE_LEAF", l, None, 0, NoTime)
    BY <1>10 DEF pw_handle_remove_leaf
  <2>3. "PW_REMOVE_LEAF" \in Types /\ NoTime \in Timestamps
    BY NewTimes DEF Types, Inv
  <2>4. LeafOf(l)' = None
    BY <2>2, <2>3, AnswerLeaf
  <2> QED
    BY <2>1, <2>4, SinceAnswer
<1>11. ASSUME NEW l \in Labels, NEW right \in BOOLEAN, pw_handle_try_auth(l, right)
       PROVE  SinceInv'
  <2> DEFINE new == LeafWith(ap[l], NewAttempts(ap[l], right), update_timestamp)
             code == IF right THEN 0 ELSE 1
  <2>1. /\ Answered(l) /\ since' = [since EXCEPT ![l] = 0] /\ log_var # None
        /\ ValidLeaf(ap[l]) /\ Update("PW_TRY_AUTH", l, new, code, update_timestamp)
    BY <1>11, TryAnswers
  <2>2. TryLeaf(l, right)
    BY <1>11, TryIsLeaf
  <2>3. "PW_TRY_AUTH" \in Types /\ update_timestamp \in Timestamps /\ code \in {0, 1}
    BY NewTimes DEF Types, Inv
  <2> HIDE DEF code
  <2>4. LeafOf(l)' = new
    BY <2>1, <2>2, <2>3, AnswerLeaf DEF TryLeaf
  <2>5. LeafOf(l)'.timestamp = [boot_count |-> pw_restart_count, timer_value |-> timer]
    BY <2>2, <2>4 DEF TryLeaf, update_timestamp
  <2>6. pw_restart_count = log_var.restart_count
    BY <2>1 DEF Inv, RootInv, ValidLeaf
  <2>7. log_var'.restart_count = log_var.restart_count /\ timer' = timer
    BY <2>1, AnswerKeeps
  <2>8. since'[l] = 0 /\ \A m \in Labels \ {l} : since'[m] = since[m]
    BY <1>1, <2>1
  <2>9. Waited(l)'
    BY <1>1, <2>5, <2>6, <2>7, <2>8 DEF Waited
  <2> QED
    BY <2>1, <2>8, <2>9, SinceAnswer
<1>12. ASSUME UNCHANGED <<log_var, timer, since>> PROVE SinceInv'
  BY <1>12 DEF SinceInv, Waited, LeafOf
<1> QED
  BY <1>4, <1>5, <1>6, <1>7, <1>8, <1>9, <1>10, <1>11, <1>12
     DEF Next, reset_tree_fails, pw_handle_log_replay, vars, nv, hist

\* For every delay schedule, every number of labels and every time: between two
\* guesses the delay of the schedule passes, less RESTART_TIMER_THRESHOLD.
THEOREM DelaysAreEnforced == Spec => DelayEnforced
<1>1. Init => SinceInv
  BY DEF Init, SinceInv
<1>2. Inv /\ SinceInv /\ [Next]_vars
        => [\A l \in Labels :
              Guess(l) => since[l] + RestartThreshold > Delay(wrong[l])]_vars
  <2> SUFFICES ASSUME Inv, SinceInv, [Next]_vars, NEW l \in Labels, Guess(l)
               PROVE  since[l] + RestartThreshold > Delay(wrong[l])
    OBVIOUS
  <2>1. PICK right \in BOOLEAN : pw_handle_try_auth(l, right)
    BY GuessIsTry
  <2>2. log_var # None /\ ValidLeaf(ap[l]) /\ test_rate_limit(ap[l])
    BY <2>1, TryAnswers
  <2>3. ap[l] \in Leaves /\ ap[l] # None /\ ap[l] = LeafOf(l)
        /\ ap[l].attempt_count = wrong[l] /\ validate_tree
    BY <2>2, ValidIsStored DEF LeafOf
  <2>4. pw_restart_count = log_var.restart_count
    BY <2>2, <2>3 DEF Inv, RootInv
  <2>5. /\ since[l] \in 0 .. LongestDelay /\ LongestDelay \in Nat /\ timer \in Nat
        /\ RestartThreshold \in Nat \ {0} /\ wrong[l] \in Nat
    BY Delays, BoundAssumption DEF Inv, Typed, CountersTyped
  <2>6. Delay(wrong[l]) \in 0 .. LongestDelay /\ Delay(0) = 0
    BY <2>5, Delays
  <2>7. ap[l].timestamp.timer_value \in Nat
    BY <2>3, BoundAssumption DEF Leaves, Timestamps
  <2>8. CASE Delay(wrong[l]) = 0
    BY <2>5, <2>8
  <2>9. CASE Delay(wrong[l]) # 0
    <3>1. Waited(l)
      BY <2>2, <2>3, <2>5, <2>6, <2>9 DEF SinceInv
    <3>2. timer >= Delay(wrong[l])
                     + IF ap[l].timestamp.boot_count = pw_restart_count
                         THEN ap[l].timestamp.timer_value ELSE 0
      BY <2>2, <2>3, <2>9 DEF test_rate_limit, ReadyTime
    <3> QED
      BY <2>3, <2>4, <2>5, <2>6, <2>7, <3>1, <3>2 DEF Waited
  <2> QED
    BY <2>8, <2>9
<1> QED
  BY <1>1, <1>2, InvInit, InvStep, SinceStep, PTL DEF Spec, DelayEnforced

----------------------------------------------------------------------------
(* Replaying a lost answer.                                                *)

\* The last answer to a guess or a reset, applied to the leaf before it, gives
\* the leaf that is in the tree since.
ReplayInv ==
    log_var # None /\ Len(log_var.entries) > 1 =>
        LET e == log_var.entries[1]
            before == log_var.entries[2].root[e.label]
        IN  e.type = "PW_TRY_AUTH" /\ before # None =>
                before.label = e.label /\ Replayed(before, e) = e.root[e.label]

\* An answer with which an old leaf can be brought up to date.
LEMMA ReplayAnswer ==
    ASSUME Inv, NEW type \in Types, NEW l \in Labels,
           NEW leaf \in Leaves \cup {None}, leaf # None => leaf.label = l,
           NEW code \in {0, 1}, NEW ts \in Timestamps,
           Update(type, l, leaf, code, ts), validate_tree,
           type = "PW_TRY_AUTH" =>
             /\ merkle_tree.root[l] # None
             /\ leaf = LeafWith(merkle_tree.root[l],
                                IF code = 0 THEN 0
                                ELSE merkle_tree.root[l].attempt_count + 1, ts)
    PROVE  ReplayInv'
<1> DEFINE e == Entry(type, l, merkle_tree'.root, code, ts)
<1>1. /\ log_var # None /\ log_var'.entries[1] = e
      /\ merkle_tree'.root = [merkle_tree.root EXCEPT ![l] = leaf]
      /\ Len(log_var'.entries) > 1 => log_var'.entries[2] = log_var.entries[1]
  BY UpdateEffect DEF Inv, Typed
<1>2. merkle_tree.root \in [Labels -> Leaves \cup {None}] /\ IsTree(merkle_tree.root)
  BY DEF Inv, Typed, TreeTyped
<1>3. merkle_tree.root = log_var.entries[1].root
  BY <1>1 DEF Inv, RootInv
<1>4. e.type = type /\ e.label = l /\ e.root = merkle_tree'.root
      /\ e.return_code = code /\ e.timestamp = ts
  BY DEF Entry
<1> HIDE DEF e
<1>5. e.root[l] = leaf
  BY <1>1, <1>2, <1>4
<1>6. ASSUME type = "PW_TRY_AUTH"
      PROVE  /\ merkle_tree.root[l].label = l
             /\ Replayed(merkle_tree.root[l], e) = leaf
  <2>1. merkle_tree.root[l] \in Leaves /\ merkle_tree.root[l].label = l
    BY <1>2, <1>6 DEF IsTree
  <2>2. Replayed(merkle_tree.root[l], e) = leaf
    BY <1>4, <1>6, <2>1 DEF Replayed, LeafWith, Leaves
  <2> QED
    BY <2>1, <2>2
<1> QED
  BY <1>1, <1>3, <1>4, <1>5, <1>6 DEF ReplayInv

\* Other steps leave the entries as they are, or only one of them.
LEMMA ReplayStep == Inv /\ ReplayInv /\ [Next]_vars => ReplayInv'
<1> SUFFICES ASSUME Inv, ReplayInv, [Next]_vars PROVE ReplayInv'
  OBVIOUS
<1>0. Types = {"PW_RESET_TREE", "PW_INSERT_LEAF", "PW_REMOVE_LEAF", "PW_TRY_AUTH"}
      /\ NoTime \in Timestamps /\ update_timestamp \in Timestamps
  BY NewTimes DEF Types, Inv
<1>1. ASSUME NEW l \in Labels, pw_handle_insert_leaf(l) PROVE ReplayInv'
  <2>1. PICK leaf \in Leaves :
          leaf.label = l /\ Update("PW_INSERT_LEAF", l, leaf, 0, NoTime)
    BY <1>1, InsertAnswers
  <2>2. validate_tree
    BY <1>1, InsertAnswers
  <2> QED
    BY <1>0, <2>1, <2>2, ReplayAnswer
<1>2. ASSUME NEW l \in Labels, pw_handle_remove_leaf(l) PROVE ReplayInv'
  <2>1. Update("PW_REMOVE_LEAF", l, None, 0, NoTime) /\ validate_tree
    BY <1>2 DEF pw_handle_remove_leaf
  <2> QED
    BY <1>0, <2>1, ReplayAnswer
<1>3. ASSUME NEW l \in Labels, pw_handle_reset_auth(l) PROVE ReplayInv'
  <2>1. /\ log_var # None /\ ValidLeaf(ap[l])
        /\ Update("PW_TRY_AUTH", l, LeafWith(ap[l], 0, ap[l].timestamp), 0,
                  ap[l].timestamp)
    BY <1>3, ResetAnswers
  <2>2. ap[l] \in Leaves /\ ap[l] # None /\ ap[l].label = l
        /\ ap[l] = merkle_tree.root[l] /\ validate_tree
    BY <2>1, ValidIsStored
  <2>3. ap[l].timestamp \in Timestamps /\ 0 \in 0 .. MaxAttempts
    BY <2>2, BoundAssumption DEF Leaves
  <2>4. LeafWith(ap[l], 0, ap[l].timestamp) \in Leaves
        /\ LeafWith(ap[l], 0, ap[l].timestamp).label = l
    BY <2>2, <2>3, NewLeaves
  <2> QED
    BY <1>0, <2>1, <2>2, <2>3, <2>4, ReplayAnswer
<1>4. ASSUME NEW l \in Labels, NEW right \in BOOLEAN, pw_handle_try_auth(l, right)
      PROVE  ReplayInv'
  <2> DEFINE new == LeafWith(ap[l], NewAttempts(ap[l], right), update_timestamp)
             code == IF right THEN 0 ELSE 1
  <2>1. /\ log_var # None /\ ValidLeaf(ap[l])
        /\ Update("PW_TRY_AUTH", l, new, code, update_timestamp)
    BY <1>4, TryAnswers
  <2>2. ap[l] # None /\ ap[l] = merkle_tree.root[l] /\ validate_tree
    BY <2>1, ValidIsStored
  <2>3. new \in Leaves /\ new.label = l
    BY <1>4, TryIsLeaf DEF TryLeaf
  <2>4. code \in {0, 1}
        /\ NewAttempts(ap[l], right) = IF code = 0 THEN 0 ELSE ap[l].attempt_count + 1
    BY DEF NewAttempts
  <2>5. new = LeafWith(ap[l], IF code = 0 THEN 0 ELSE ap[l].attempt_count + 1,
                       update_timestamp)
    BY <2>4
  <2> HIDE DEF new, code
  <2> QED
    BY <1>0, <2>1, <2>2, <2>3, <2>4, <2>5, ReplayAnswer
<1>5. CASE pw_handle_reset_tree
  BY <1>5, NewTree DEF pw_handle_reset_tree, ReplayInv
<1>6. CASE OwnerClear
  BY <1>6 DEF OwnerClear, OwnerClearLog, ReplayInv
<1>7. CASE pinweaver_init
  <2>1. CASE log_var = None
    BY <1>7, <2>1 DEF pinweaver_init, ReplayInv
  <2>2. CASE log_var # None
    <3>1. log_var' = IF Counted THEN [log_var EXCEPT !.restart_count = @ + 1]
                     ELSE log_var
      BY <1>7, <2>2 DEF pinweaver_init
    <3>2. log_var'.entries = log_var.entries
      BY <2>2, <3>1 DEF Inv, Typed, LogTyped, LogType
    <3> QED
      BY <2>2, <3>2 DEF ReplayInv
  <2> QED
    BY <2>1, <2>2
<1>8. ASSUME UNCHANGED log_var PROVE ReplayInv'
  BY <1>8 DEF ReplayInv
<1> QED
  BY <1>1, <1>2, <1>3, <1>4, <1>5, <1>6, <1>7, <1>8
     DEF Next, reset_tree_fails, ChipReset, Tick, pw_handle_log_replay, vars, nv

\* With the two entries that the log of the code has, an AP that missed the last
\* answer and has the leaf from before it can replay it, for every number of
\* labels and guesses.  (A longer log may hold the same root twice, and
\* find_relevant_entry() then takes the younger entry.)
THEOREM LostAnswersReplay ==
    ASSUME LogEntryCount = 2
    PROVE  Spec => []CanCatchUp
<1>1. Init => ReplayInv
  BY DEF Init, ReplayInv
<1>2. Inv /\ ReplayInv => CanCatchUp
  <2> SUFFICES ASSUME Inv, ReplayInv, log_var # None,
                      NEW x \in 1 .. Len(log_var.entries) - 1,
                      log_var.entries[x].type = "PW_TRY_AUTH",
                      log_var.entries[x + 1].root[log_var.entries[x].label] # None,
                      log_var.entries[x + 1].root[log_var.entries[x].label].key
                        = merkle_tree.key
               PROVE  Replays(log_var.entries[x + 1].root[log_var.entries[x].label], x)
    BY DEF CanCatchUp
  <2>1. Len(log_var.entries) \in 1 .. 2
    BY DEF Inv, Typed, LogTyped
  <2>2. x = 1 /\ x + 1 = 2 /\ Len(log_var.entries) > 1
    BY <2>1
  <2> QED
    BY <2>2 DEF ReplayInv, Replays, IsRelevant
<1> QED
  BY <1>1, <1>2, InvInit, InvStep, ReplayStep, PTL DEF Spec

=============================================================================
