------------------------------- MODULE Upgrade -------------------------------
(***************************************************************************)
(* Firmware update: the transfer over USB (chip/g/usb_upgrade.c) or over   *)
(* the TPM (an extension command), the programming of the sections that    *)
(* do not run (chip/g/upgrade_fw.c), the command that turns an update on   *)
(* (chip/g/upgrade.c), the loader (chip/g/loader) and the counter that     *)
(* makes it fall back to the older image (chip/g/system.c).                *)
(*                                                                         *)
(* There are two copies of RO, the loader, and two of RW, the firmware.  A *)
(* section is a few blocks, the first with the header; a block has the     *)
(* version it came with.  Packets may be lost; the host sends a block      *)
(* again, or gives up.  Power is lost between any two steps.  The boot ROM *)
(* and the host are modelled from how the code uses them.                  *)
(***************************************************************************)
EXTENDS Integers, Sequences, FiniteSets

CONSTANTS
    Versions,       \* versions of the firmware, 1 is the one to start with
    Broken,         \* versions of RW that reset before the AP is served
    RwOnly,         \* versions that are released without an RO
    KeyOf,          \* the key a version of RW is signed with and RO accepts
    NumBlocks,      \* blocks of a section
    Chunks,         \* USB packets of a block, after the one with its header
    RW_BOOT_MAX_RETRY_COUNT,
    EarlyUpdates,   \* are there updates before the AP booted?
    MaxSessions,    \* bound: what hosts start
    MaxResets       \* bound: power losses and sleeps

ASSUME UpgradeAssumption ==
    /\ Versions \subseteq Nat \ {0} /\ 1 \in Versions \ Broken
    /\ \E m \in Versions : \A v \in Versions : v <= m
    /\ KeyOf \in [Versions -> Nat]
    /\ {NumBlocks, Chunks, RW_BOOT_MAX_RETRY_COUNT} \subseteq Nat \ {0}
    /\ EarlyUpdates \in BOOLEAN

VARIABLES
    images,                 \* the flash: for RO and RW, for A and B
    run,                    \* which RO and which RW run
    retry,                  \* LONG_LIFE_SCRATCH0
    rollback_detected_at_boot, hard_reset, header_corrupted,
    served,                 \* has the AP booted since the last reset?
    valid_sections,         \* have they been set?
    prev_offsets, clock,    \* rate limit of chunk_came_too_soon()
    rx, data_was_transferred, quiet,    \* upgrade_out_handler()
    restoring,              \* how far turn_update_on() is
    host, sessions, resets

flags == <<rollback_detected_at_boot, hard_reset, header_corrupted, served>>
limit == <<prev_offsets, clock>>
usb == <<rx, data_was_transferred, quiet>>
vars == <<images, run, retry, flags, valid_sections, limit, usb, restoring, host,
          sessions, resets>>

Kinds == {"RO", "RW"}
Slots == {"A", "B"}
Other(slot) == IF slot = "A" THEN "B" ELSE "A"

Blocks == 1 .. NumBlocks
ERASED == 0
JUNK == -1

\* off is TOP_IMAGE_SIZE_BIT of the header, magic says that its field is intact.
Image(v, off) == [blocks |-> [b \in Blocks |-> v], off |-> off, magic |-> TRUE]
ErasedImage == Image(ERASED, TRUE)

\* a_is_newer_than_b(), is_newer_than(): the version in a header; an erased one
\* is all ones.
Version(i) ==
    IF i.blocks[1] = ERASED THEN 1 + CHOOSE m \in Versions : \A v \in Versions : v <= m
    ELSE i.blocks[1]

Running(k) == images[k][run[k]]

NoBlock == [kind |-> "none", b |-> 0, ver |-> 0]
RxIdle == [state |-> "idle", block |-> NoBlock, pieces |-> <<>>, left |-> 0]
HostIdle ==
    [phase |-> "idle", via |-> "usb", ver |-> 0, kinds |-> {}, queue |-> <<>>, sent |-> 0]

Works == run["RW"] # "none" /\ Version(Running("RW")) \notin Broken

-----------------------------------------------------------------------------
(* The loader *)

\* What the boot ROM and tryLaunch() check of an image: the magic, the size, and
\* with the signature that all of it is there.
Sound(i) ==
    /\ i.magic /\ ~i.off
    /\ i.blocks[1] # ERASED
    /\ \A b \in Blocks : i.blocks[b] = i.blocks[1]

\* The boot ROM takes the newer RO.
RoChosen(img) ==
    LET sound == {s \in Slots : Sound(img["RO"][s])}
    IN  IF sound = Slots
          THEN IF Version(img["RO"]["A"]) >= Version(img["RO"]["B"]) THEN "A" ELSE "B"
          ELSE CHOOSE s \in sound : TRUE

tryLaunch(img, slot) ==
    LET i == img["RW"][slot]
    IN  Sound(i) /\ KeyOf[Version(i)] = KeyOf[Version(img["RO"][RoChosen(img)])]

\* main() of the loader: the newer image first, or the other one if that is asked
\* for.
loader_main(img, alternate) ==
    LET newer == IF Version(img["RW"]["A"]) >= Version(img["RW"]["B"]) THEN "A" ELSE "B"
        first == IF alternate THEN Other(newer) ELSE newer
    IN  IF tryLaunch(img, first) THEN first
        ELSE IF tryLaunch(img, Other(first)) THEN Other(first) ELSE "none"

TooMany(count) == count > RW_BOOT_MAX_RETRY_COUNT

\* The loader in the field counts its starts in LONG_LIFE_SCRATCH0 and asks for the
\* older image when they are too many.  The loader in this repository does not:
\* this is what system.c relies on.
RwChosen(img, count) == loader_main(img, TooMany(count))

system_decrement_retry_counter(n) == IF n = 0 THEN 0 ELSE n - 1

BootCount_always(n, hibernate) == system_decrement_retry_counter(n)

\* board_init() takes a wake-up from deep sleep off the count again.
BootCount(n, hibernate) == IF hibernate THEN system_decrement_retry_counter(n) ELSE n

\* Counts over the limit are not told apart.
Capped(n) == IF TooMany(n) THEN RW_BOOT_MAX_RETRY_COUNT + 1 ELSE n

\* A reset: the loader, check_reset_cause(), and the rest of the RAM.  A host whose
\* transfer was complete will still turn the update on.
Reset(count, hard, hibernate) ==
    /\ run' = [RO |-> RoChosen(images), RW |-> RwChosen(images, count + 1)]
    /\ retry' = Capped(BootCount(count + 1, hibernate))
    /\ rollback_detected_at_boot' = TooMany(count + 1)
    /\ hard_reset' = hard
    /\ header_corrupted' = FALSE /\ served' = FALSE
    /\ valid_sections' = FALSE
    /\ prev_offsets' = [k \in Kinds |-> 0] /\ clock' = "boot"
    /\ rx' = RxIdle /\ data_was_transferred' = FALSE /\ quiet' = FALSE
    /\ restoring' = "no"
    /\ host' = IF host.phase = "on" /\ restoring = "no" THEN host ELSE HostIdle
    /\ UNCHANGED <<images, sessions>>

Init ==
    /\ images \in {[k \in Kinds |-> [s \in Slots |-> IF s = "A" THEN Image(1, FALSE) ELSE b]] :
                      b \in {Image(1, FALSE), ErasedImage}}
    /\ run = [k \in Kinds |-> "A"]
    /\ retry = 1
    /\ rollback_detected_at_boot = FALSE /\ hard_reset = FALSE
    /\ header_corrupted = FALSE /\ served = FALSE
    /\ valid_sections = FALSE
    /\ prev_offsets = [k \in Kinds |-> 0] /\ clock = "boot"
    /\ rx = RxIdle /\ data_was_transferred = FALSE /\ quiet = FALSE
    /\ restoring = "no"
    /\ host = HostIdle
    /\ sessions = 0 /\ resets = 0

\* The image that runs resets on its own, by system_reset() or by the watchdog.
Crash ==
    /\ run["RW"] # "none" /\ ~Works
    /\ \E hard \in BOOLEAN : Reset(retry, hard, FALSE)
    /\ UNCHANGED resets

PowerLoss ==
    /\ resets < MaxResets
    /\ resets' = resets + 1
    /\ Reset(0, FALSE, FALSE)

DeepSleep ==
    /\ Works /\ restoring = "no" /\ resets < MaxResets
    /\ resets' = resets + 1
    /\ Reset(retry, FALSE, TRUE)

-----------------------------------------------------------------------------
(* The AP boots *)

system_clear_retry_counter_not == retry

system_clear_retry_counter == 0

\* system_process_retry_counter(), when the AP reads a PCR.
system_process_retry_counter ==
    LET other == Other(run["RW"])
        newer == Version(images["RW"][other]) > Version(Running("RW"))
        corrupt == rollback_detected_at_boot /\ newer /\ ~header_corrupted
    IN  /\ Works
        /\ retry' = system_clear_retry_counter
        /\ served' = TRUE
        /\ images' = IF corrupt THEN [images EXCEPT !["RW"][other].magic = FALSE]
                                ELSE images
        /\ header_corrupted' = (header_corrupted \/ corrupt)
        /\ UNCHANGED <<run, rollback_detected_at_boot, hard_reset, valid_sections,
                       limit, usb, restoring, host, sessions, resets>>

\* An update that was not turned on is disabled already.
Disablable(i) == i.magic /\ ~i.off

\* The AP firmware disables the image that does not run, unless that is an update
\* that was not turned on.  It does not do so in the second before the reboot
\* that turn_update_on() asked for.
vc_invalidate_inactive_rw ==
    /\ Works /\ served /\ restoring = "no"
    /\ Disablable(images["RW"][Other(run["RW"])])
    /\ images' = [images EXCEPT !["RW"][Other(run["RW"])].magic = FALSE]
    /\ UNCHANGED <<run, retry, flags, valid_sections, limit, usb, restoring, host,
                   sessions, resets>>

-----------------------------------------------------------------------------
(* Programming *)

\* chunk_came_too_soon(): clock is "boot" before the first write within
\* BACKOFF_TIME of the start, "recent" within BACKOFF_TIME of a write.
chunk_came_too_soon(k, b) ==
    \/ clock = "boot" /\ hard_reset
    \/ clock = "recent" /\ b <= prev_offsets[k]

BackoffOver ==
    /\ clock # "free"
    /\ clock' = "free"
    /\ UNCHANGED <<images, run, retry, flags, valid_sections, prev_offsets, usb,
                   restoring, host, sessions, resets>>

\* fw_upgrade_command_handler(), up to contents_allowed(): the sections must be
\* known, the digest must match, and a header must not be older.
intact_always(k, b, v, intact) ==
    valid_sections /\ (b = 1 => v >= Version(Running(k)))

contents_allowed(k, b, v, intact) ==
    valid_sections /\ intact /\ (b = 1 => v >= Version(Running(k)))

\* check_update_chunk(): the first block has the section erased.
check_update_chunk(i, b) == IF b = 1 THEN ErasedImage ELSE i

\* flash_physical_write(): bits can only be cleared.
Merged(old, v) == IF old \in {ERASED, v} THEN v ELSE JUNK

\* A block some of which was lost is not what was sent.
Content(v, intact) == IF intact THEN v ELSE JUNK

Programmed(k, b, v, intact) ==
    /\ contents_allowed(k, b, v, intact)
    /\ ~chunk_came_too_soon(k, b)

\* fw_upgrade_command_handler(): the header is written with TOP_IMAGE_SIZE_BIT.
fw_upgrade_command_handler(k, b, v, intact) ==
    LET slot == Other(run[k])
        checked == check_update_chunk(images[k][slot], b)
        written == [checked EXCEPT !.blocks[b] = Merged(@, Content(v, intact))]
    IN  \/ /\ ~contents_allowed(k, b, v, intact)
           /\ UNCHANGED <<images, limit>>
        \/ /\ contents_allowed(k, b, v, intact) /\ chunk_came_too_soon(k, b)
           /\ images' = [images EXCEPT ![k][slot] = checked]
           /\ UNCHANGED limit
        \/ /\ Programmed(k, b, v, intact)
           /\ images' = [images EXCEPT ![k][slot] = written]
           /\ prev_offsets' =
                 [prev_offsets EXCEPT !["RO"] = IF clock = "free" THEN 0 ELSE @,
                                      ![k] = b]
           /\ clock' = "recent"

\* Its response: also what was read back must be what was sent.
Success(k, b, v, intact) ==
    LET old == check_update_chunk(images[k][Other(run[k])], b)
    IN  /\ Programmed(k, b, v, intact)
        /\ Merged(old.blocks[b], Content(v, intact)) = Content(v, intact)

-----------------------------------------------------------------------------
(* The host *)

\* What a host sends: RW and then RO, or an RW for the RO that runs; a new
\* version, or an old one that will be rejected.
Releases ==
    LET new == Versions \ {Version(Running("RW"))}
        rw == {v \in new \cap RwOnly : KeyOf[v] = KeyOf[Version(Running("RO"))]}
        both == {v \in new \ RwOnly : v # Version(Running("RO"))}
        Part(k, v) == [b \in Blocks |-> [kind |-> k, b |-> b, ver |-> v]]
    IN  {[ver |-> v, kinds |-> {"RW"}, queue |-> Part("RW", v)] : v \in rw}
        \cup {[ver |-> v, kinds |-> Kinds, queue |-> Part("RW", v) \o Part("RO", v)] :
                  v \in both}

HostOpens ==
    /\ Works /\ host.phase = "idle" /\ restoring = "no"
    /\ served \/ EarlyUpdates
    /\ sessions < MaxSessions
    /\ sessions' = sessions + 1
    /\ \E r \in Releases, via \in {"usb", "ap"} :
          /\ via = "ap" => served
          /\ host' = [phase |-> "start", via |-> via, ver |-> r.ver,
                      kinds |-> r.kinds, queue |-> r.queue, sent |-> 0]
    /\ UNCHANGED <<images, run, retry, flags, valid_sections, limit, usb, restoring,
                   resets>>

HostGivesUp ==
    /\ host.phase \in {"start", "block", "chunks"}
    /\ host' = HostIdle
    /\ UNCHANGED <<images, run, retry, flags, valid_sections, limit, usb, restoring,
                   sessions, resets>>

\* The response to a block reaches the host.
Replied(ok) ==
    host' = IF ~ok THEN HostIdle
            ELSE [host EXCEPT !.queue = Tail(@), !.sent = 0,
                              !.phase = IF host.via = "ap" /\ Len(host.queue) = 1
                                          THEN "on" ELSE "block"]

-----------------------------------------------------------------------------
(* Transfer in extension commands of the TPM *)

ap_start ==
    /\ Works /\ host.phase = "start" /\ host.via = "ap"
    /\ valid_sections' = TRUE
    /\ host' = [host EXCEPT !.phase = "block"]
    /\ UNCHANGED <<images, run, retry, flags, limit, usb, restoring, sessions, resets>>

ap_block ==
    LET q == Head(host.queue)
    IN  /\ Works /\ host.phase = "block" /\ host.via = "ap"
        /\ fw_upgrade_command_handler(q.kind, q.b, q.ver, TRUE)
        /\ Replied(Success(q.kind, q.b, q.ver, TRUE))
        /\ UNCHANGED <<run, retry, flags, valid_sections, usb, restoring, sessions,
                       resets>>

-----------------------------------------------------------------------------
(* Transfer over USB: upgrade_out_handler() *)

\* The state a packet finds: after 5 s of silence the handler starts over.
Rx == IF quiet THEN RxIdle ELSE rx

Silence ==
    /\ ~quiet /\ rx.state # "idle"
    /\ quiet' = TRUE
    /\ UNCHANGED <<images, run, retry, flags, valid_sections, limit, rx,
                   data_was_transferred, restoring, host, sessions, resets>>

Via(phase) == Works /\ host.phase = phase /\ host.via = "usb"

GoOn(phase, sent) == host' = [host EXCEPT !.phase = phase, !.sent = sent]

InBlock(q) == [state |-> "inside", block |-> q, pieces |-> <<>>, left |-> Chunks]

\* A packet of the size of a frame header, inside of a block: the block is
\* restarted; a start PDU is taken for one of a block without data, and another
\* one after it overflows that block.
restart_block(q) ==
    IF Rx.left = 0 THEN RxIdle
    ELSE IF q = NoBlock THEN [InBlock(q) EXCEPT !.left = 0] ELSE InBlock(q)

\* The start of a transfer.
usb_start ==
    /\ Via("start")
    /\ \/ /\ Rx.state = "idle"
          /\ valid_sections' = TRUE
          /\ rx' = [RxIdle EXCEPT !.state = "outside"]
          /\ data_was_transferred' = FALSE
          /\ GoOn("block", 0)
       \/ /\ Rx.state = "outside"
          /\ rx' = Rx /\ host' = HostIdle
          /\ UNCHANGED <<valid_sections, data_was_transferred>>
       \/ /\ Rx.state = "inside"
          /\ rx' = restart_block(NoBlock) /\ host' = HostIdle
          /\ UNCHANGED <<valid_sections, data_was_transferred>>
    /\ quiet' = FALSE
    /\ UNCHANGED <<images, run, retry, flags, limit, restoring, sessions, resets>>

\* The header of a block; there may be no memory for the block.
usb_header ==
    /\ Via("block") /\ host.queue # <<>>
    /\ \/ Rx.state = "idle" /\ rx' = Rx /\ host' = HostIdle
       \/ /\ Rx.state = "outside"
          /\ \/ rx' = InBlock(Head(host.queue)) /\ GoOn("chunks", 0)
             \/ rx' = Rx /\ host' = HostIdle
       \/ /\ Rx.state = "inside"
          /\ rx' = restart_block(Head(host.queue))
          /\ GoOn("chunks", 0)
    /\ quiet' = FALSE
    /\ UNCHANGED <<images, run, retry, flags, valid_sections, limit,
                   data_was_transferred, restoring, sessions, resets>>

\* A packet with data; the last one has the block programmed.
Intact(r) == r.pieces = [n \in 1 .. Chunks |-> n]

usb_chunk ==
    LET next == [Rx EXCEPT !.pieces = Append(@, host.sent + 1), !.left = @ - 1]
        q == next.block
    IN  /\ Via("chunks") /\ host.sent < Chunks
        /\ \/ /\ Rx.state # "inside"
              /\ rx' = Rx /\ host' = HostIdle
              /\ UNCHANGED <<images, limit, data_was_transferred>>
           \/ /\ Rx.state = "inside" /\ Rx.left > 1
              /\ rx' = next
              /\ GoOn("chunks", host.sent + 1)
              /\ UNCHANGED <<images, limit, data_was_transferred>>
           \/ /\ Rx.state = "inside" /\ Rx.left = 1
              /\ fw_upgrade_command_handler(q.kind, q.b, q.ver, Intact(next))
              /\ data_was_transferred' = TRUE
              /\ rx' = [RxIdle EXCEPT !.state = "outside"]
              /\ Replied(Success(q.kind, q.b, q.ver, Intact(next)))
        /\ quiet' = FALSE
        /\ UNCHANGED <<run, retry, flags, valid_sections, restoring, sessions, resets>>

\* UPGRADE_DONE
usb_done ==
    /\ Via("block") /\ host.queue = <<>>
    /\ \/ /\ Rx.state = "outside"
          /\ retry' = IF data_was_transferred THEN system_clear_retry_counter ELSE retry
          /\ data_was_transferred' = FALSE
          /\ rx' = RxIdle
          /\ GoOn("on", 0)
       \/ /\ Rx.state # "outside"
          /\ rx' = Rx /\ host' = HostIdle
          /\ UNCHANGED <<retry, data_was_transferred>>
    /\ quiet' = FALSE
    /\ UNCHANGED <<images, run, flags, valid_sections, limit, restoring, sessions,
                   resets>>

PacketLost ==
    /\ host.via = "usb"
    /\ \/ host.phase = "block" /\ host.queue # <<>> /\ GoOn("chunks", 0)
       \/ host.phase = "chunks" /\ host.sent < Chunks /\ GoOn("chunks", host.sent + 1)
    /\ UNCHANGED <<images, run, retry, flags, valid_sections, limit, usb, restoring,
                   sessions, resets>>

\* No response came: the host sends the block again.
HostRestartsBlock ==
    /\ host.phase = "chunks" /\ host.sent = Chunks
    /\ GoOn("block", 0)
    /\ UNCHANGED <<images, run, retry, flags, valid_sections, limit, usb, restoring,
                   sessions, resets>>

-----------------------------------------------------------------------------
(* Turning the update on *)

\* header_restored(): an erased header, whose size is not sensible, stays.
Restorable(i) == i.off /\ i.blocks[1] # ERASED

header_restored(i) == [i EXCEPT !.off = @ /\ ~Restorable(i)]

headers_restored_ro_first == <<"RO", "RW">>

\* headers_restored(): RW first, so that a loader with a new key never is alone.
headers_restored == <<"RW", "RO">>

Restore(k) ==
    images' = [images EXCEPT ![k][Other(run[k])] = header_restored(@)]

\* There is no reboot if nothing is restored.
turn_update_on ==
    /\ Works /\ host.phase = "on" /\ restoring = "no"
    /\ \E k \in Kinds : Restorable(images[k][Other(run[k])])
    /\ Restore(headers_restored[1])
    /\ restoring' = "second"
    /\ UNCHANGED <<run, retry, flags, valid_sections, limit, usb, host, sessions,
                   resets>>

turn_update_on_second ==
    /\ restoring = "second"
    /\ Restore(headers_restored[2])
    /\ restoring' = "reboot"
    /\ UNCHANGED <<run, retry, flags, valid_sections, limit, usb, host, sessions,
                   resets>>

\* deferred_reboot(): the counter is decremented, since the host asked for it.
deferred_reboot ==
    /\ restoring = "reboot"
    /\ Reset(system_decrement_retry_counter(retry), TRUE, FALSE)
    /\ UNCHANGED resets

Next ==
    \/ Crash \/ PowerLoss \/ DeepSleep
    \/ system_process_retry_counter \/ vc_invalidate_inactive_rw
    \/ BackoffOver \/ Silence
    \/ HostOpens \/ HostGivesUp \/ HostRestartsBlock \/ PacketLost
    \/ ap_start \/ ap_block
    \/ usb_start \/ usb_header \/ usb_chunk \/ usb_done
    \/ turn_update_on \/ turn_update_on_second \/ deferred_reboot

\* An image that does not work does reset.
Spec == Init /\ [][Next]_vars /\ WF_vars(Crash)

-----------------------------------------------------------------------------
(* Properties *)

ImageType == [blocks : [Blocks -> Versions \cup {ERASED, JUNK}], off : BOOLEAN, magic : BOOLEAN]

\* The types; the counter is at most one over its limit.
TypeOK ==
    /\ images \in [Kinds -> [Slots -> ImageType]]
    /\ run["RO"] \in Slots /\ run["RW"] \in Slots \cup {"none"}
    /\ retry \in 0 .. RW_BOOT_MAX_RETRY_COUNT + 1
    /\ prev_offsets \in [Kinds -> 0 .. NumBlocks]
    /\ clock \in {"boot", "recent", "free"}
    /\ rx.state \in {"idle", "outside", "inside"} /\ rx.left \in 0 .. Chunks
    /\ restoring \in {"no", "second", "reboot"}
    /\ host.phase \in {"idle", "start", "block", "chunks", "on"}
    /\ host.sent \in 0 .. Chunks

\* Wherever power is lost, the RO that the boot ROM then takes finds an RW that it
\* accepts, although RO and RW are replaced one after the other and a new RO may
\* have a new key (upgrade.c: "the currently running RO is still guaranteed to
\* boot and start the currently running RW").
AlwaysLaunchable ==
    /\ \E s \in Slots : Sound(images["RO"][s])
    /\ \E s \in Slots : tryLaunch(images, s)

\* When every block of a release was answered with success, all of it is in
\* flash, in one version, whatever packets were lost on the way, whichever
\* attempts were given up before and whatever was rejected by the rate limit.
AckedIsComplete ==
    host.phase = "on" /\ restoring = "no" =>
        \A k \in host.kinds :
            \A b \in Blocks : images[k][Other(run[k])].blocks[b] = host.ver

\* The reboot that turn_update_on() asks for starts the version that was sent:
\* it has not been disabled on the way, and the counter does not make the loader
\* prefer the older one.
UpdateTakesEffect ==
    [][deferred_reboot =>
          /\ run'["RW"] # "none"
          /\ Version(images["RW"][run'["RW"]]) = host.ver]_vars

\* A new image that resets again and again before the AP is served makes way for
\* the one before it (system.c: "the currently running RW image is not well").
FallsBack ==
    (run["RW"] # "none" /\ ~Works) ~> Works
=============================================================================
