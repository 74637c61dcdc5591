----------------------------- MODULE PinWeaver ------------------------------
(***************************************************************************)
(* The secrets that PinWeaver (common/pinweaver_cr50.c) guards with a PIN. *)
(* The AP keeps the leaves; Cr50 keeps the root of the hash tree over them *)
(* and a log of the last changes, both in flash, and a copy of the root in *)
(* RAM.                                                                    *)
(*                                                                         *)
(* Hashes have no collisions and MACs are not forged: the root of a tree   *)
(* is the function from its labels to its leaves, and the HMAC of a leaf   *)
(* is the leaf.  A request whose path or MAC does not verify changes       *)
(* nothing.  The AP stores the leaf of a response, or it does not: what it *)
(* sends later may be as old as it can be.                                 *)
(*                                                                         *)
(* A handler runs to its end on the TPM task.  A reset of the chip inside  *)
(* of one differs from one before or after it only where the handler saves *)
(* twice.                                                                  *)
(***************************************************************************)
EXTENDS Integers, Sequences, SequencesExt, FiniteSetsExt

CONSTANTS
    Labels,
    Schedule,       \* delay_schedule of every leaf: attempt_count and time_diff
    LogEntryCount,  \* PW_LOG_ENTRY_COUNT
    BlockAttempts,  \* PW_BLOCK_ATTEMPTS
    RestartThreshold,   \* RESTART_TIMER_THRESHOLD
    MaxTimer,       \* bound: time since the chip was reset
    MaxRestarts,    \* bound: restart_count
    MaxInserts,     \* bound: leaves ever inserted
    MaxTrees,       \* bound: trees ever created
    MaxAttempts     \* bound: wrong guesses in a row

\* validate_delay_schedule(): both columns increase.
ASSUME ScheduleAssumption ==
    /\ Schedule \in Seq([attempt_count : Nat \ {0}, time_diff : Nat])
    /\ \A x, y \in DOMAIN Schedule :
          x < y => /\ Schedule[x].attempt_count < Schedule[y].attempt_count
                   /\ Schedule[x].time_diff < Schedule[y].time_diff

ASSUME BoundAssumption ==
    /\ Labels # {}
    /\ LogEntryCount \in Nat \ {0} /\ RestartThreshold \in Nat \ {0}
    /\ BlockAttempts \in Nat
    /\ {MaxTimer, MaxRestarts, MaxInserts, MaxTrees, MaxAttempts} \subseteq Nat

VARIABLES
    tree_var,       \* PW_TREE_VAR in flash: the key derivation nonce
    log_var,        \* PW_LOG_VAR0 in flash: restart_count and entries
    merkle_tree,    \* pw_merkle_tree: key and root
    pw_restart_count,
    timer,          \* time since the chip was reset
    ap,             \* the AP's copy of each leaf
    inserts, trees, \* history: leaves and trees so far
    cleared,        \* history: trees before the owner was last cleared
    wrong,          \* history: wrong guesses since the last right one or reset
    since           \* history: time since the last guess, up to the longest delay

nv == <<tree_var, log_var>>
hist == <<inserts, trees, cleared, wrong, since>>
vars == <<nv, merkle_tree, pw_restart_count, timer, ap, hist>>

None == [empty |-> TRUE]

NoTree == [key |-> 0, root |-> [l \in Labels |-> None]]

LongestDelay == IF Schedule = <<>> THEN 0 ELSE Last(Schedule).time_diff

Init ==
    /\ tree_var = 0
    /\ log_var = None
    /\ merkle_tree = NoTree
    /\ pw_restart_count = 0
    /\ timer = 0
    /\ ap = [l \in Labels |-> None]
    /\ inserts = 0 /\ trees = 0 /\ cleared = 0
    /\ wrong = [l \in Labels |-> 0]
    /\ since = [l \in Labels |-> 0]

-----------------------------------------------------------------------------
(* Checks *)

validate_tree == merkle_tree.key # 0

\* authenticate_path(), with the sibling hashes of the present tree.
authenticate_path(label, hmac) == merkle_tree.root[label] = hmac

\* validate_request_with_wrapped_leaf()
ValidLeaf_mac(leaf) ==
    /\ validate_tree
    /\ leaf # None
    /\ leaf.key = merkle_tree.key

ValidLeaf(leaf) ==
    /\ validate_tree
    /\ leaf # None
    /\ authenticate_path(leaf.label, leaf)
    /\ leaf.key = merkle_tree.key

update_timestamp == [boot_count |-> pw_restart_count, timer_value |-> timer]

\* test_rate_limit(): the delay of the entry that applies after that many
\* attempts, the last one whose threshold is reached.
Delay(attempts) ==
    LET applies ==
            {x \in DOMAIN Schedule :
                /\ Schedule[x].attempt_count <= attempts
                /\ \A y \in DOMAIN Schedule :
                      y > x => attempts < Schedule[y].attempt_count}
    IN  IF applies = {} THEN 0 ELSE Schedule[CHOOSE x \in applies : TRUE].time_diff

ReadyTime_boot(leaf) == Delay(leaf.attempt_count)

ReadyTime(leaf) ==
    Delay(leaf.attempt_count)
      + IF leaf.timestamp.boot_count = pw_restart_count
          THEN leaf.timestamp.timer_value ELSE 0

test_rate_limit(leaf) ==
    \/ Delay(leaf.attempt_count) = 0
    \/ Delay(leaf.attempt_count) # BlockAttempts /\ timer >= ReadyTime(leaf)

-----------------------------------------------------------------------------
(* The log *)

\* log_roll_for_append() and store_log_data()
log_append(entry) ==
    /\ log_var # None
    /\ log_var' = [log_var EXCEPT
                     !.entries = <<entry>> \o SubSeq(@, 1, Min({Len(@), LogEntryCount - 1}))]

\* find_relevant_entry()
IsRelevant(x, root) ==
    /\ log_var.entries[x].root = root
    /\ \A y \in 1 .. x - 1 : log_var.entries[y].root # root

Entry(type, label, root, code, timestamp) ==
    [type |-> type, label |-> label, root |-> root, return_code |-> code,
     timestamp |-> timestamp]

NoTime == [boot_count |-> 0, timer_value |-> 0]

\* The root after leaf took the place of the one at its label; flash first.
Update(type, label, leaf, code, timestamp) ==
    LET root == [merkle_tree.root EXCEPT ![label] = leaf]
    IN  /\ log_append(Entry(type, label, root, code, timestamp))
        /\ merkle_tree' = [merkle_tree EXCEPT !.root = root]

\* The AP stores the leaf of a response, or loses it.
Stores(label, leaf) == ap' \in {ap, [ap EXCEPT ![label] = leaf]}

-----------------------------------------------------------------------------
(* Requests *)

NewLog(root) ==
    [restart_count |-> 0,
     entries |-> <<Entry("PW_RESET_TREE", CHOOSE l \in Labels : TRUE, root, 0, NoTime)>>]

\* pw_handle_reset_tree(), store_merkle_tree()
pw_handle_reset_tree ==
    /\ trees < MaxTrees
    /\ trees' = trees + 1
    /\ tree_var' = trees'
    /\ log_var' = NewLog(NoTree.root)
    /\ merkle_tree' = [NoTree EXCEPT !.key = trees']
    /\ pw_restart_count' = 0
    /\ UNCHANGED <<timer, ap, inserts, cleared, wrong, since>>

\* The log could not be stored after the tree was.
reset_tree_fails ==
    /\ trees < MaxTrees
    /\ trees' = trees + 1
    /\ tree_var' = trees'
    /\ UNCHANGED <<log_var, merkle_tree, pw_restart_count, timer, ap, inserts,
                   cleared, wrong, since>>

\* pw_handle_insert_leaf()
pw_handle_insert_leaf(label) ==
    LET leaf == [label |-> label, key |-> merkle_tree.key, iv |-> inserts + 1,
                 attempt_count |-> 0, timestamp |-> NoTime]
    IN  /\ inserts < MaxInserts
        /\ validate_tree
        /\ authenticate_path(label, None)
        /\ Update("PW_INSERT_LEAF", label, leaf, 0, NoTime)
        /\ Stores(label, leaf)
        /\ inserts' = inserts + 1
        /\ wrong' = [wrong EXCEPT ![label] = 0]
        /\ UNCHANGED <<tree_var, pw_restart_count, timer, trees, cleared, since>>

\* pw_handle_remove_leaf(): the HMAC is that of the AP's copy, or one that
\* the log has.
pw_handle_remove_leaf(label) ==
    /\ validate_tree
    /\ log_var # None
    /\ \E hmac \in {ap[label]} \cup {e.root[label] : e \in Range(log_var.entries)} :
          authenticate_path(label, hmac)
    /\ Update("PW_REMOVE_LEAF", label, None, 0, NoTime)
    /\ Stores(label, None)
    /\ UNCHANGED <<tree_var, pw_restart_count, timer, hist>>

\* pw_handle_try_auth(), for a guess that is evaluated.
NewAttempts(leaf, right) == IF right THEN 0 ELSE leaf.attempt_count + 1

pw_handle_try_auth(label, right) ==
    LET leaf == ap[label]
        new == [leaf EXCEPT !.attempt_count = NewAttempts(leaf, right),
                            !.timestamp = update_timestamp]
    IN  /\ ValidLeaf(leaf)
        /\ wrong[label] < MaxAttempts \/ right
        /\ test_rate_limit(leaf)
        /\ Update("PW_TRY_AUTH", label, new, IF right THEN 0 ELSE 1, new.timestamp)
        /\ Stores(label, new)
        /\ wrong' = [wrong EXCEPT ![label] = IF right THEN 0 ELSE @ + 1]
        /\ since' = [since EXCEPT ![label] = 0]
        /\ UNCHANGED <<tree_var, pw_restart_count, timer, inserts, trees, cleared>>

\* pw_handle_reset_auth(), with the reset secret.
ResetTime_now(leaf) == update_timestamp

ResetTime(leaf) == leaf.timestamp

pw_handle_reset_auth(label) ==
    LET leaf == ap[label]
        new == [leaf EXCEPT !.attempt_count = 0, !.timestamp = ResetTime(leaf)]
    IN  /\ ValidLeaf(leaf)
        /\ Update("PW_TRY_AUTH", label, new, 0, leaf.timestamp)
        /\ Stores(label, new)
        /\ wrong' = [wrong EXCEPT ![label] = 0]
        /\ UNCHANGED <<tree_var, pw_restart_count, timer, inserts, trees, cleared,
                       since>>

\* pw_handle_log_replay(): the leaf that the request's leaf becomes.
Replayed(leaf, e) ==
    [leaf EXCEPT !.attempt_count = IF e.return_code = 0 THEN 0 ELSE @ + 1,
                 !.timestamp = e.timestamp]

Replays(leaf, x) ==
    LET e == log_var.entries[x]
    IN  /\ IsRelevant(x, e.root)
        /\ e.type = "PW_TRY_AUTH"
        /\ leaf # None
        /\ leaf.key = merkle_tree.key
        /\ leaf.label = e.label
        /\ Replayed(leaf, e) = e.root[e.label]

pw_handle_log_replay(label) ==
    /\ validate_tree
    /\ log_var # None
    /\ \E x \in DOMAIN log_var.entries :
          /\ Replays(ap[label], x)
          /\ ap' = [ap EXCEPT ![label] = Replayed(@, log_var.entries[x])]
    /\ UNCHANGED <<nv, merkle_tree, pw_restart_count, timer, hist>>

-----------------------------------------------------------------------------
(* The platform *)

\* pinweaver_init(), at a TPM2_Startup.
Counted == timer < RestartThreshold

pinweaver_init ==
    /\ tree_var # 0
    /\ \/ /\ log_var # None
          /\ Counted => log_var.restart_count < MaxRestarts
          /\ log_var' = IF Counted THEN [log_var EXCEPT !.restart_count = @ + 1]
                        ELSE log_var
          /\ merkle_tree' = [key |-> tree_var, root |-> log_var.entries[1].root]
          /\ pw_restart_count' = log_var'.restart_count
       \/ /\ log_var = None
          /\ merkle_tree' = [merkle_tree EXCEPT !.key = tree_var]
          /\ UNCHANGED <<log_var, pw_restart_count>>
    /\ UNCHANGED <<tree_var, timer, ap, hist>>

\* _plat__OwnerClearCallback(): both variables, or only the first before a reset
\* of the chip.
OwnerClear_tree == UNCHANGED log_var

OwnerClearLog == log_var' = None

OwnerClear ==
    /\ tree_var' = 0
    /\ OwnerClearLog
    /\ cleared' = trees
    /\ UNCHANGED <<merkle_tree, pw_restart_count, timer, ap, inserts, trees, wrong,
                   since>>

\* A power loss, a reboot, or a wake-up from deep sleep: RAM is lost.
ChipReset ==
    /\ \/ UNCHANGED <<tree_var, cleared>>
       \/ tree_var' = 0 /\ cleared' = trees
    /\ merkle_tree' = NoTree
    /\ pw_restart_count' = 0
    /\ timer' = 0
    /\ UNCHANGED <<log_var, ap, inserts, trees, wrong, since>>

Tick ==
    /\ timer < MaxTimer
    /\ timer' = timer + 1
    /\ since' = [l \in Labels |-> IF since[l] < LongestDelay THEN since[l] + 1
                                  ELSE since[l]]
    /\ UNCHANGED <<nv, merkle_tree, pw_restart_count, ap, inserts, trees, cleared,
                   wrong>>

Next ==
    \/ pw_handle_reset_tree \/ reset_tree_fails
    \/ pinweaver_init \/ OwnerClear \/ ChipReset \/ Tick
    \/ \E l \in Labels :
          \/ pw_handle_insert_leaf(l)
          \/ pw_handle_remove_leaf(l)
          \/ pw_handle_reset_auth(l)
          \/ pw_handle_log_replay(l)
          \/ \E right \in BOOLEAN : pw_handle_try_auth(l, right)

Spec == Init /\ [][Next]_vars

-----------------------------------------------------------------------------
(* Properties *)

Timestamps == [boot_count : 0 .. MaxRestarts, timer_value : 0 .. MaxTimer]

Leaves ==
    [label : Labels, key : 1 .. MaxTrees, iv : 1 .. MaxInserts,
     attempt_count : 0 .. MaxAttempts, timestamp : Timestamps]

\* Every variable has its type; the log keeps at most its PW_LOG_ENTRY_COUNT entries.
TypeOK ==
    /\ tree_var \in 0 .. trees
    /\ log_var # None =>
          /\ log_var.restart_count \in 0 .. MaxRestarts
          /\ Len(log_var.entries) \in 1 .. LogEntryCount
          /\ \A e \in Range(log_var.entries) :
                \A l \in Labels : e.root[l] \in Leaves \cup {None}
    /\ merkle_tree.key \in 0 .. trees
    /\ \A l \in Labels : {merkle_tree.root[l], ap[l]} \subseteq Leaves \cup {None}
    /\ pw_restart_count \in 0 .. MaxRestarts
    /\ timer \in 0 .. MaxTimer
    /\ inserts \in 0 .. MaxInserts /\ trees \in 0 .. MaxTrees
    /\ cleared \in 0 .. trees
    /\ wrong \in [Labels -> 0 .. MaxAttempts]
    /\ since \in [Labels -> 0 .. LongestDelay]

\* A wrong guess is never forgotten: neither a reset of the chip after the
\* answer, nor a copy of the leaf from before the guess, nor a replay of the log
\* gives it back (pw_handle_try_auth(), load_merkle_tree()).
GuessesCounted ==
    log_var # None =>
        \A l \in Labels :
            LET leaf == log_var.entries[1].root[l]
            IN  leaf # None => leaf.attempt_count = wrong[l]

\* The answer to one more guess at the leaf of l.
Guess(l) == wrong'[l] = wrong[l] + 1 \/ since'[l] < since[l]

\* The delay of the schedule passes between two guesses, whatever resets of the
\* chip and the TPM there are in between; a TPM2_Startup shortly after the first
\* one can take RESTART_TIMER_THRESHOLD off it, no more (test_rate_limit(),
\* load_merkle_tree()).
DelayEnforced ==
    [][\A l \in Labels :
          Guess(l) => since[l] + RestartThreshold > Delay(wrong[l])]_vars

\* Nobody can guess at a leaf from before the owner was cleared, also when the
\* deletion of the two variables was cut short, or the creation of the next tree
\* was (_plat__OwnerClearCallback(), store_merkle_tree()).
ClearedIsGone ==
    [][\A l \in Labels : Guess(l) => ap[l].key > cleared]_vars

\* An AP that missed the answer to a guess, and has the leaf from before it, gets
\* the present leaf by a replay, as long as both are in the log
\* (pw_handle_log_replay()).
CanCatchUp ==
    log_var # None =>
        \A x \in 1 .. Len(log_var.entries) - 1 :
            LET e == log_var.entries[x]
                before == log_var.entries[x + 1].root[e.label]
            IN  /\ e.type = "PW_TRY_AUTH"
                /\ before # None /\ before.key = merkle_tree.key
                => Replays(before, x)
=============================================================================
