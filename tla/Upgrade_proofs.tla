---------------------------- MODULE Upgrade_proofs ----------------------------
(***************************************************************************)
(* Firmware update, for any number of blocks, packets, versions, hosts and *)
(* resets.  Inv, which needs no assumption, says that the blocks a host    *)
(* has had acknowledged are in the copy that does not run, which is turned *)
(* off; it proves AckedIsComplete.  Safe adds what the retry counter and   *)
(* the keys do; with the release discipline of the last part it proves     *)
(* that the device always starts and that an update takes effect.          *)
(***************************************************************************)
EXTENDS Upgrade, SequenceTheorems, TLAPS

\* The types, of all that TypeOK is about and of what the host and the handler keep.
BlockType == [kind : Kinds, b : Blocks, ver : Versions]

HostType ==
    [phase : {"idle", "start", "block", "chunks", "on"}, via : {"usb", "ap"},
     ver : Versions \cup {0}, kinds : SUBSET Kinds, queue : Seq(BlockType),
     sent : 0 .. Chunks]

RxType ==
    [state : {"idle", "outside", "inside"}, block : BlockType \cup {NoBlock},
     pieces : Seq(Nat), left : 0 .. Chunks]

\* The first block of a section is always erased before it is written.
ImagesTyped ==
    /\ images \in [Kinds -> [Slots -> ImageType]]
    /\ \A k \in Kinds, s \in Slots : images[k][s].blocks[1] # JUNK

RunTyped == run["RO"] \in Slots /\ run["RW"] \in Slots \cup {"none"}

FlagsTyped ==
    /\ retry \in 0 .. RW_BOOT_MAX_RETRY_COUNT + 1
    /\ rollback_detected_at_boot \in BOOLEAN /\ header_corrupted \in BOOLEAN
    /\ served \in BOOLEAN /\ quiet \in BOOLEAN
    /\ prev_offsets \in [Kinds -> 0 .. NumBlocks]
    /\ clock \in {"boot", "recent", "free"}
    /\ restoring \in {"no", "second", "reboot"}

Typed ==
    ImagesTyped /\ RunTyped /\ FlagsTyped /\ host \in HostType /\ rx \in RxType

\* The copy that does not run.
Inactive(k) == images[k][Other(run[k])]

\* What runs is sound and has one key, and until turn_update_on() is done a reset
\* takes the same RO again.
RunInv ==
    /\ Sound(Running("RO"))
    /\ run["RW"] # "none" =>
          /\ Sound(Running("RW"))
          /\ KeyOf[Version(Running("RW"))] = KeyOf[Version(Running("RO"))]
    /\ restoring # "reboot" => RoChosen(images) = run["RO"]

\* The transfer as one sequence of blocks, RW and then RO: how many there are, how
\* many are left and done, which one is the n-th, and how many of a kind are done.
Total == IF "RO" \in host.kinds THEN NumBlocks + NumBlocks ELSE NumBlocks
Left == Len(host.queue)
Done == Total - Left
Entry(n) ==
    IF n <= NumBlocks THEN [kind |-> "RW", b |-> n, ver |-> host.ver]
    ELSE [kind |-> "RO", b |-> n - NumBlocks, ver |-> host.ver]
DoneOf(k) ==
    IF k = "RW" THEN IF Done <= NumBlocks THEN Done ELSE NumBlocks
    ELSE IF Done <= NumBlocks THEN 0 ELSE Done - NumBlocks

\* The queue of the host is the rest of that sequence.
QueueInv ==
    host.phase # "idle" =>
        /\ run["RW"] # "none"
        /\ host.ver \in Versions
        /\ "RW" \in host.kinds
        /\ Left <= Total
        /\ \A i \in 1 .. Left : host.queue[i] = Entry(Done + i)
        /\ host.phase = "start" => Done = 0
        /\ host.phase = "on" => host.queue = <<>>
        /\ host.phase = "chunks" => host.queue # <<>>
        /\ host.phase = "block" /\ host.via = "ap" => host.queue # <<>>

\* Is a header that was programmed still the one of an update that is off?
Off(k) == restoring = "no" \/ (restoring = "second" /\ k = "RO")

\* What is done is in flash.
AckInv ==
    host.phase # "idle" =>
        \A k \in host.kinds :
            /\ \A b \in 1 .. DoneOf(k) : Inactive(k).blocks[b] = host.ver
            /\ DoneOf(k) > 0 => Inactive(k).off = Off(k)

\* The block that is received is the one that the host sends.
RxInv ==
    host.phase \in {"block", "chunks"} /\ host.via = "usb" /\ Rx.state = "inside" =>
        Rx.block = Head(host.queue)

SessInv ==
    /\ restoring # "no" => host.phase = "on"
    /\ QueueInv /\ AckInv /\ RxInv

\* Before the AP is served, what runs is what the counter asks for; a counter that
\* is too high makes an image that works run only beside a newer one; and once the
\* AP is served after that, the newer one is already damaged.
BootInv ==
    /\ restoring = "no" /\ ~served => run["RW"] = RwChosen(images, retry)
    /\ Works /\ ~served => retry \in {0, 1, RW_BOOT_MAX_RETRY_COUNT + 1}
    /\ served => Works /\ retry = 0
    /\ rollback_detected_at_boot /\ ~served => retry = RW_BOOT_MAX_RETRY_COUNT + 1
    /\ rollback_detected_at_boot /\ served => header_corrupted
    /\ retry > 1 /\ Works => Version(Inactive("RW")) > Version(Running("RW"))

\* The update is sent to an image that works, is newer than what runs, and is not
\* damaged; an RW alone has the key of the RO that runs.
UpdateInv ==
    host.phase # "idle" =>
        /\ host.phase # "on" => served
        /\ host.phase = "on" => Works /\ retry <= 1
        /\ Version(Running("RW")) # host.ver
        /\ "RO" \in host.kinds => Version(Running("RO")) # host.ver
        /\ "RO" \notin host.kinds =>
              host.ver \in RwOnly /\ KeyOf[host.ver] = KeyOf[Version(Running("RO"))]
        /\ \A k \in host.kinds :
              DoneOf(k) > 0 => Inactive(k).magic /\ host.ver >= Version(Running(k))

-----------------------------------------------------------------------------
(* Operators *)

\* The version of a header is a number, and of a sound image one of the versions.
LEMMA VersionFacts ==
    ASSUME NEW i \in ImageType, i.blocks[1] # JUNK
    PROVE  /\ Version(i) \in Nat \ {0}
           /\ i.blocks[1] # ERASED => Version(i) = i.blocks[1] /\ Version(i) \in Versions
<1> 1 \in Blocks
  BY UpgradeAssumption DEF Blocks
<1>1. i.blocks[1] \in Versions \cup {ERASED}
  BY DEF ImageType
<1>2. PICK m \in Versions : \A v \in Versions : v <= m
  BY UpgradeAssumption
<1> DEFINE newest == CHOOSE x \in Versions : \A v \in Versions : v <= x
<1>3. newest \in Versions
  BY <1>2
<1>4. Versions \subseteq Nat \ {0}
  BY UpgradeAssumption
<1>5. Version(i) = IF i.blocks[1] = ERASED THEN 1 + newest ELSE i.blocks[1]
  BY DEF Version
<1> HIDE DEF newest
<1>6. CASE i.blocks[1] = ERASED
  BY <1>3, <1>4, <1>5, <1>6
<1>7. CASE i.blocks[1] # ERASED
  <2>1. Version(i) = i.blocks[1] /\ i.blocks[1] \in Versions
    BY <1>1, <1>5, <1>7
  <2> QED BY <2>1, <1>4
<1> QED
  BY <1>6, <1>7

\* The boot ROM takes a sound RO if there is one, and the other one only if that is
\* sound too and not older.
LEMMA RoFacts ==
    ASSUME NEW img, NEW s \in Slots, Sound(img["RO"][s])
    PROVE  /\ RoChosen(img) \in Slots
           /\ Sound(img["RO"][RoChosen(img)])
           /\ ~Sound(img["RO"][Other(s)]) => RoChosen(img) = s
<1> DEFINE sound == {t \in Slots : Sound(img["RO"][t])}
<1>1. s \in sound /\ sound \subseteq Slots
  OBVIOUS
<1>2. CASE sound = Slots
  <2>1. RoChosen(img) \in Slots
    BY <1>2 DEF RoChosen, Slots
  <2>2. Other(s) \in Slots
    BY DEF Other, Slots
  <2> QED BY <1>2, <2>1, <2>2
<1>3. CASE sound # Slots
  <2>1. RoChosen(img) = CHOOSE t \in sound : TRUE
    BY <1>3 DEF RoChosen
  <2>2. RoChosen(img) \in sound
    BY <2>1, <1>1
  <2>3. sound = {s}
    BY <1>1, <1>3 DEF Slots
  <2> HIDE DEF sound
  <2>4. RoChosen(img) = s
    BY <2>2, <2>3
  <2> QED BY <2>4
<1> QED BY <1>2, <1>3

\* When the boot ROM prefers the other of two sound ROs, that one is not older.
LEMMA RoNewer ==
    ASSUME NEW img, NEW s \in Slots, Sound(img["RO"][s]), RoChosen(img) # s,
           Version(img["RO"]["A"]) \in Nat, Version(img["RO"]["B"]) \in Nat
    PROVE  RoChosen(img) = Other(s) /\ Version(img["RO"][Other(s)]) >= Version(img["RO"][s])
<1> DEFINE sound == {t \in Slots : Sound(img["RO"][t])}
<1>1. RoChosen(img) \in Slots /\ Sound(img["RO"][Other(s)])
  BY RoFacts
<1>2. sound = Slots
  BY <1>1 DEF Slots, Other
<1>3. RoChosen(img) =
        IF Version(img["RO"]["A"]) >= Version(img["RO"]["B"]) THEN "A" ELSE "B"
  BY <1>2 DEF RoChosen
<1>4. CASE s = "A"
  BY <1>3, <1>4 DEF Other, Slots
<1>5. CASE s = "B"
  BY <1>3, <1>5 DEF Other, Slots
<1> QED BY <1>4, <1>5 DEF Slots

\* Of two ROs of which the other one is sound and newer, the boot ROM takes that.
LEMMA RoTaken ==
    ASSUME NEW img, NEW s \in Slots, Sound(img["RO"][s]), Sound(img["RO"][Other(s)]),
           Version(img["RO"]["A"]) \in Nat, Version(img["RO"]["B"]) \in Nat,
           Version(img["RO"][Other(s)]) > Version(img["RO"][s])
    PROVE  RoChosen(img) = Other(s)
<1> DEFINE sound == {t \in Slots : Sound(img["RO"][t])}
<1>2. sound = Slots
  BY DEF Slots, Other
<1>3. RoChosen(img) =
        IF Version(img["RO"]["A"]) >= Version(img["RO"]["B"]) THEN "A" ELSE "B"
  BY <1>2 DEF RoChosen
<1>4. CASE s = "A"
  BY <1>3, <1>4 DEF Other, Slots
<1>5. CASE s = "B"
  BY <1>3, <1>5 DEF Other, Slots
<1> QED BY <1>4, <1>5 DEF Slots

\* The loader starts an RW that it accepts, if there is one.
LEMMA LoaderFacts ==
    ASSUME NEW img, NEW alternate
    PROVE  /\ loader_main(img, alternate) \in Slots \cup {"none"}
           /\ loader_main(img, alternate) # "none" =>
                  tryLaunch(img, loader_main(img, alternate))
           /\ \A s \in Slots : tryLaunch(img, s) => loader_main(img, alternate) # "none"
           /\ \A s \in Slots : tryLaunch(img, s) /\ ~tryLaunch(img, Other(s)) =>
                  loader_main(img, alternate) = s
<1> DEFINE newer == IF Version(img["RW"]["A"]) >= Version(img["RW"]["B"]) THEN "A" ELSE "B"
           first == IF alternate THEN Other(newer) ELSE newer
<1>1. loader_main(img, alternate) =
        IF tryLaunch(img, first) THEN first
        ELSE IF tryLaunch(img, Other(first)) THEN Other(first) ELSE "none"
  BY DEF loader_main
<1>2. first \in Slots
  BY DEF Slots, Other
<1> HIDE DEF first
<1> QED BY <1>1, <1>2 DEF Slots, Other

-----------------------------------------------------------------------------
(* What a step does to the flash *)

\* Only one copy that does not run is written; i is what is there afterwards.
Written(k, i) ==
    /\ i \in ImageType /\ i.blocks[1] # JUNK
    /\ images' = [images EXCEPT ![k][Other(run[k])] = i]

\* Such a step leaves what runs, and the other copy of the other kind, as it is.
LEMMA WrittenFacts ==
    ASSUME Typed, NEW k \in Kinds, run[k] \in Slots, NEW i, Written(k, i),
           UNCHANGED run
    PROVE  /\ ImagesTyped'
           /\ Running("RO")' = Running("RO")
           /\ run["RW"] # "none" => Running("RW")' = Running("RW")
           /\ \A j \in Kinds : Inactive(j)' = IF j = k THEN i ELSE Inactive(j)
           /\ k = "RW" => images'["RO"] = images["RO"]
<1> USE DEF Typed, RunTyped, ImagesTyped, Written
<1>0. Other(run[k]) \in Slots
  BY DEF Other, Slots
<1>1. images' \in [Kinds -> [Slots -> ImageType]]
  BY <1>0
<1>2. \A j \in Kinds, s \in Slots :
         images'[j][s] = IF j = k /\ s = Other(run[k]) THEN i ELSE images[j][s]
  BY <1>0
<1>3. ImagesTyped'
  BY <1>1, <1>2
<1>4. \A j \in Kinds : Other(run[j]) \in Slots
  BY DEF Other, Slots
<1>5. \A j \in Kinds : run[j] \in Slots => images'[j][run[j]] = images[j][run[j]]
  BY <1>2 DEF Other, Slots
<1>6. \A j \in Kinds : images'[j][Other(run[j])] = IF j = k THEN i ELSE images[j][Other(run[j])]
  BY <1>2, <1>4
<1>7. k = "RW" => images'["RO"] = images["RO"]
  BY <1>0 DEF Kinds
<1> QED
  BY <1>3, <1>5, <1>6, <1>7 DEF Running, Inactive, Kinds, Slots

\* RunInv survives if a written RO is not sound, or is as it was.
LEMMA WrittenRun ==
    ASSUME Typed, RunInv, NEW k \in Kinds, run[k] \in Slots, NEW i, Written(k, i),
           UNCHANGED run,
           k = "RO" => restoring' = "reboot" \/ ~Sound(i) \/ i = Inactive("RO"),
           restoring' # "reboot" => restoring # "reboot"
    PROVE  RunInv'
<1> USE DEF RunInv
<1>1. /\ Running("RO")' = Running("RO")
      /\ run["RW"] # "none" => Running("RW")' = Running("RW")
      /\ \A j \in Kinds : Inactive(j)' = IF j = k THEN i ELSE Inactive(j)
      /\ k = "RW" => images'["RO"] = images["RO"]
  BY WrittenFacts
<1>2. Sound(Running("RO"))'
  BY <1>1
<1>3. (run["RW"] # "none" =>
          /\ Sound(Running("RW"))
          /\ KeyOf[Version(Running("RW"))] = KeyOf[Version(Running("RO"))])'
  BY <1>1
<1>4. ASSUME restoring' # "reboot" PROVE RoChosen(images') = run["RO"]
  <2>1. RoChosen(images) = run["RO"]
    BY <1>4
  <2>2. CASE k = "RW"
    BY <1>1, <2>1, <2>2 DEF RoChosen
  <2>3. CASE k = "RO" /\ ~Sound(i)
    <3>1. ~Sound(images'["RO"][Other(run["RO"])])
      BY <2>3, <1>1 DEF Inactive
    <3>2. Sound(images'["RO"][run["RO"]]) /\ run["RO"] \in Slots
      BY <1>2 DEF Running, Typed, RunTyped
    <3> QED BY <3>1, <3>2, RoFacts
  <2>4. CASE k = "RO" /\ i = Inactive("RO")
    <3>1. images' = images
      <4>1. run["RO"] \in Slots /\ Other(run["RO"]) \in Slots
        BY DEF Typed, RunTyped, Other, Slots
      <4> QED BY <2>4, <4>1 DEF Written, Inactive, Typed, ImagesTyped, Kinds
    <3> QED BY <3>1, <2>1
  <2> QED BY <1>4, <2>2, <2>3, <2>4 DEF Kinds
<1> QED BY <1>2, <1>3, <1>4

\* The handler of a block: what it leaves in the copy that does not run.
LEMMA Handler ==
    ASSUME Typed, NEW k \in Kinds, run[k] \in Slots, NEW b \in Blocks,
           NEW v \in Versions, NEW intact \in BOOLEAN,
           fw_upgrade_command_handler(k, b, v, intact)
    PROVE  /\ \E i : /\ Written(k, i)
                     /\ b = 1 => i = Inactive(k) \/ i.off
                     /\ b # 1 => i.off = Inactive(k).off
                     /\ Success(k, b, v, intact) =>
                           /\ i.blocks[b] = v
                           /\ b = 1 => i.magic /\ i.off /\ v >= Version(Running(k))
                           /\ b # 1 => /\ i.magic = Inactive(k).magic
                                       /\ \A c \in Blocks : c # b =>
                                              i.blocks[c] = Inactive(k).blocks[c]
           /\ prev_offsets' \in [Kinds -> 0 .. NumBlocks]
           /\ clock' \in {"boot", "recent", "free"}
<1> DEFINE old == Inactive(k)
           checked == check_update_chunk(old, b)
           new == Merged(checked.blocks[b], Content(v, intact))
           written == [checked EXCEPT !.blocks[b] = new]
<1>0. /\ Other(run[k]) \in Slots /\ 1 \in Blocks
      /\ Versions \subseteq Nat \ {0} /\ NumBlocks \in Nat
      /\ Blocks = 1 .. NumBlocks
  BY UpgradeAssumption DEF Other, Slots, Blocks
<1>1. old \in ImageType /\ old.blocks[1] # JUNK
  BY <1>0 DEF Typed, ImagesTyped, Inactive
<1>2. /\ ErasedImage \in ImageType /\ ErasedImage.off = TRUE /\ ErasedImage.magic = TRUE
      /\ \A c \in Blocks : ErasedImage.blocks[c] = ERASED
  BY DEF ErasedImage, Image, ImageType
<1>3. checked = IF b = 1 THEN ErasedImage ELSE old
  BY DEF check_update_chunk
<1>4. checked \in ImageType /\ checked.blocks[1] # JUNK
  BY <1>0, <1>1, <1>2, <1>3 DEF ERASED, JUNK
<1>5. Content(v, intact) \in Versions \cup {JUNK}
  BY DEF Content
<1>6. new \in Versions \cup {ERASED, JUNK}
  BY <1>5 DEF Merged
<1>7. ASSUME intact PROVE b = 1 => new = v
  BY <1>0, <1>2, <1>3, <1>7 DEF Merged, Content
<1> HIDE DEF new, checked, old
<1>8. /\ written \in ImageType /\ written.off = checked.off
      /\ written.magic = checked.magic /\ written.blocks[b] = new
      /\ \A c \in Blocks : c # b => written.blocks[c] = checked.blocks[c]
  BY <1>4, <1>6 DEF ImageType
<1>9. ASSUME intact PROVE written.blocks[1] # JUNK
  BY <1>0, <1>4, <1>7, <1>8, <1>9 DEF JUNK
<1> HIDE DEF written
<1>10. /\ prev_offsets \in [Kinds -> 0 .. NumBlocks]
       /\ clock \in {"boot", "recent", "free"}
  BY DEF Typed, FlagsTyped
<1>11. Success(k, b, v, intact) =>
          Programmed(k, b, v, intact) /\ new = Content(v, intact)
  BY DEF Success, new, checked, old, Inactive
<1>12. Programmed(k, b, v, intact) => contents_allowed(k, b, v, intact)
  BY DEF Programmed
<1>13. contents_allowed(k, b, v, intact) => intact /\ (b = 1 => v >= Version(Running(k)))
  BY DEF contents_allowed
<1>14. CASE ~contents_allowed(k, b, v, intact) /\ UNCHANGED <<images, limit>>
  <2>1. Written(k, old)
    BY <1>0, <1>1, <1>14 DEF Written, old, Inactive, Typed, ImagesTyped
  <2> QED
    BY <2>1, <1>10, <1>11, <1>12, <1>14 DEF old, limit
<1>15. CASE /\ contents_allowed(k, b, v, intact) /\ chunk_came_too_soon(k, b)
            /\ images' = [images EXCEPT ![k][Other(run[k])] = checked]
            /\ UNCHANGED limit
  <2>1. Written(k, checked)
    BY <1>4, <1>15 DEF Written
  <2>2. ~Success(k, b, v, intact)
    BY <1>11, <1>15 DEF Programmed
  <2>3. b = 1 => checked.off
    BY <1>2, <1>3
  <2>4. b # 1 => checked.off = Inactive(k).off
    BY <1>3 DEF old
  <2> QED
    BY <2>1, <2>2, <2>3, <2>4, <1>10, <1>15 DEF limit
<1>16. CASE /\ Programmed(k, b, v, intact)
            /\ images' = [images EXCEPT ![k][Other(run[k])] = written]
            /\ prev_offsets' =
                 [prev_offsets EXCEPT !["RO"] = IF clock = "free" THEN 0 ELSE @,
                                      ![k] = b]
            /\ clock' = "recent"
  <2>1. intact
    BY <1>12, <1>13, <1>16
  <2>2. Written(k, written)
    BY <1>8, <1>9, <1>16, <2>1 DEF Written
  <2>3. Success(k, b, v, intact) => new = v
    BY <1>11, <2>1 DEF Content
  <2>4. b = 1 => written.off /\ written.magic /\ v >= Version(Running(k))
    BY <1>2, <1>3, <1>8, <1>12, <1>13, <1>16
  <2>5. b # 1 => /\ written.off = Inactive(k).off /\ written.magic = Inactive(k).magic
                 /\ \A c \in Blocks : c # b =>
                        written.blocks[c] = Inactive(k).blocks[c]
    BY <1>3, <1>8 DEF old
  <2>6. prev_offsets' \in [Kinds -> 0 .. NumBlocks]
    BY <1>0, <1>10, <1>16 DEF Kinds
  <2> QED
    BY <2>2, <2>3, <2>4, <2>5, <2>6, <1>8, <1>16
<1>17. images[k][Other(run[k])] = old
  BY DEF old, Inactive
<1> QED
  BY <1>14, <1>15, <1>16, <1>17 DEF fw_upgrade_command_handler, checked, written, new

-----------------------------------------------------------------------------
(* The queue of the host *)

\* The parameters are positive numbers.
LEMMA Sizes ==
    /\ NumBlocks \in Nat /\ NumBlocks > 0 /\ Chunks \in Nat /\ Chunks > 0
    /\ RW_BOOT_MAX_RETRY_COUNT \in Nat /\ RW_BOOT_MAX_RETRY_COUNT > 0
    /\ Blocks = 1 .. NumBlocks /\ 1 \in Blocks
BY UpgradeAssumption DEF Blocks

\* How far a kind is lies between none and all of its blocks.
LEMMA DoneTypes ==
    ASSUME Typed, QueueInv, host.phase # "idle"
    PROVE  /\ Left \in Nat /\ Done \in Nat /\ Done <= NumBlocks + NumBlocks
           /\ Total \in Nat /\ Done = Total - Left
           /\ \A k \in Kinds : DoneOf(k) \in 0 .. NumBlocks
           /\ host.queue = <<>> => \A k \in host.kinds : DoneOf(k) = NumBlocks
<1>1. Left \in Nat
  BY DEF Typed, HostType, Left
<1>2. Total \in Nat /\ Total <= NumBlocks + NumBlocks /\ Left <= Total
  BY Sizes DEF Total, QueueInv
<1>3. Done \in Nat /\ Done <= NumBlocks + NumBlocks
  BY <1>1, <1>2, Sizes DEF Done
<1>4. \A k \in Kinds : DoneOf(k) \in 0 .. NumBlocks
  BY <1>3, Sizes DEF DoneOf
<1>5. ASSUME host.queue = <<>>, NEW k \in host.kinds PROVE DoneOf(k) = NumBlocks
  <2>1. Done = Total
    BY <1>2, <1>5 DEF Done, Left
  <2>2. k \in Kinds
    BY DEF Typed, HostType
  <2>3. CASE k = "RW"
    BY <2>1, <2>3, Sizes DEF DoneOf, Total
  <2>4. CASE k = "RO"
    BY <2>1, <2>4, Sizes DEF DoneOf, Total
  <2> QED BY <2>2, <2>3, <2>4 DEF Kinds
<1> QED BY <1>1, <1>2, <1>3, <1>4, <1>5 DEF Done

\* The block to send next is the first one of its kind that is not done.
LEMMA HeadFacts ==
    ASSUME Typed, QueueInv, host.phase # "idle", host.queue # <<>>, NEW q,
           q = Head(host.queue)
    PROVE  /\ q \in BlockType /\ q.kind \in Kinds /\ q.kind \in host.kinds
           /\ q.b \in Blocks /\ q.ver \in Versions /\ run[q.kind] \in Slots
           /\ q.ver = host.ver /\ q.b = DoneOf(q.kind) + 1
           /\ Done + 1 \in Nat /\ q = Entry(Done + 1)
<1>1. Left \in Nat /\ Left > 0 /\ q = host.queue[1] /\ q \in BlockType
  BY DEF Typed, HostType, Left
<1>2. q = Entry(Done + 1)
  BY <1>1 DEF QueueInv
<1>3. /\ Done \in Nat /\ Total \in Nat /\ Done = Total - Left
      /\ host.queue = <<>> \/ Done < Total
  BY <1>1, DoneTypes
<1>4. CASE Done + 1 <= NumBlocks
  <2>1. q = [kind |-> "RW", b |-> Done + 1, ver |-> host.ver]
    BY <1>2, <1>4 DEF Entry
  <2>2. DoneOf("RW") = Done
    BY <1>3, <1>4, Sizes DEF DoneOf
  <2> QED BY <1>1, <1>2, <1>3, <2>1, <2>2 DEF QueueInv, BlockType, Typed, RunTyped
<1>5. CASE ~(Done + 1 <= NumBlocks)
  <2>1. q = [kind |-> "RO", b |-> Done + 1 - NumBlocks, ver |-> host.ver]
    BY <1>2, <1>3, <1>5, Sizes DEF Entry
  <2>2. DoneOf("RO") = Done - NumBlocks
    BY <1>3, <1>5, Sizes DEF DoneOf
  <2>3. "RO" \in host.kinds
    BY <1>3, <1>5, Sizes DEF Total
  <2>4. Done + 1 - NumBlocks = DoneOf("RO") + 1
    BY <2>2, <1>3, Sizes
  <2> QED BY <1>1, <1>2, <1>3, <2>1, <2>3, <2>4 DEF QueueInv, BlockType, Typed, RunTyped
<1> QED BY <1>4, <1>5

\* Once it is sent, it is done, and the queue goes on after it.
LEMMA Popped ==
    ASSUME Typed, QueueInv, host.phase # "idle", host.queue # <<>>, NEW q,
           q = Head(host.queue), host'.queue = Tail(host.queue),
           host'.kinds = host.kinds, host'.ver = host.ver
    PROVE  /\ Total' = Total /\ Left' = Left - 1
           /\ Left' <= Total'
           /\ \A i \in 1 .. Left' : host'.queue[i] = Entry(Done + i)'
           /\ \A k \in Kinds : DoneOf(k)' = IF k = q.kind THEN q.b ELSE DoneOf(k)
<1>1. /\ host.queue \in Seq(BlockType) /\ Left \in Nat /\ Left > 0
      /\ \A i \in 1 .. Left : host.queue[i] = Entry(Done + i)
      /\ Left <= Total
  BY DEF Typed, HostType, QueueInv, Left
<1>2. /\ Left' = Left - 1
      /\ \A i \in 1 .. Left' : host'.queue[i] = host.queue[i + 1]
  BY <1>1 DEF Left
<1>3. Total' = Total
  BY DEF Total
<1>4. /\ Done \in Nat /\ Total \in Nat /\ Done = Total - Left
      /\ Done <= NumBlocks + NumBlocks
  BY DoneTypes
<1>5. Done' = Done + 1
  BY <1>1, <1>2, <1>3, <1>4 DEF Done
<1>6. ASSUME NEW i \in 1 .. Left'
      PROVE  host'.queue[i] = Entry(Done + i)'
  <2>1. i + 1 \in 1 .. Left /\ Done + (i + 1) = Done' + i
    BY <1>1, <1>2, <1>4, <1>5
  <2>2. host'.queue[i] = Entry(Done + (i + 1))
    BY <1>1, <1>2, <2>1
  <2> QED BY <2>1, <2>2 DEF Entry
<1>7. q = Entry(Done + 1)
  BY <1>1, HeadFacts
<1>8. ASSUME NEW k \in Kinds PROVE DoneOf(k)' = IF k = q.kind THEN q.b ELSE DoneOf(k)
  <2>1. CASE Done + 1 <= NumBlocks
    <3>1. q.kind = "RW" /\ q.b = Done + 1
      BY <2>1, <1>7 DEF Entry
    <3> QED BY <2>1, <3>1, <1>4, <1>5, Sizes DEF DoneOf, Kinds
  <2>2. CASE ~(Done + 1 <= NumBlocks)
    <3>1. q.kind = "RO" /\ q.b = Done + 1 - NumBlocks
      BY <2>2, <1>4, <1>7, Sizes DEF Entry
    <3> QED BY <2>2, <3>1, <1>4, <1>5, Sizes DEF DoneOf, Kinds
  <2> QED BY <2>1, <2>2
<1>9. Left' <= Total'
  BY <1>1, <1>2, <1>3, <1>4
<1> QED BY <1>2, <1>3, <1>6, <1>8, <1>9

\* What a host sends: the blocks of RW in order and then those of RO, if any.
LEMMA ReleaseFacts ==
    ASSUME NEW r \in Releases
    PROVE  /\ r.ver \in Versions /\ "RW" \in r.kinds /\ r.kinds \subseteq Kinds
           /\ r.queue \in Seq(BlockType)
           /\ Len(r.queue) = IF "RO" \in r.kinds THEN NumBlocks + NumBlocks ELSE NumBlocks
           /\ \A i \in 1 .. Len(r.queue) :
                 r.queue[i] = IF i <= NumBlocks
                                THEN [kind |-> "RW", b |-> i, ver |-> r.ver]
                                ELSE [kind |-> "RO", b |-> i - NumBlocks, ver |-> r.ver]
           /\ r.ver # Version(Running("RW"))
           /\ "RO" \in r.kinds => r.ver # Version(Running("RO"))
           /\ "RO" \notin r.kinds =>
                 r.ver \in RwOnly /\ KeyOf[r.ver] = KeyOf[Version(Running("RO"))]
<1> DEFINE Part(k, v) == [b \in Blocks |-> [kind |-> k, b |-> b, ver |-> v]]
<1>1. ASSUME NEW k \in Kinds, NEW v \in Versions
      PROVE  /\ Part(k, v) \in Seq(BlockType) /\ Len(Part(k, v)) = NumBlocks
             /\ \A b \in Blocks : Part(k, v)[b] = [kind |-> k, b |-> b, ver |-> v]
  <2>1. \A b \in Blocks : [kind |-> k, b |-> b, ver |-> v] \in BlockType
    BY DEF BlockType
  <2>2. Part(k, v) \in [1 .. NumBlocks -> BlockType]
    BY <2>1, Sizes
  <2> HIDE DEF Part
  <2>3. Part(k, v) \in Seq(BlockType) /\ Len(Part(k, v)) = NumBlocks
    BY <2>2, Sizes
  <2> QED BY <2>3 DEF Part
<1>2. CASE \E v \in Versions : /\ r = [ver |-> v, kinds |-> {"RW"}, queue |-> Part("RW", v)]
                               /\ v # Version(Running("RW")) /\ v \in RwOnly
                               /\ KeyOf[v] = KeyOf[Version(Running("RO"))]
  <2>1. PICK v \in Versions :
                /\ r = [ver |-> v, kinds |-> {"RW"}, queue |-> Part("RW", v)]
                /\ v # Version(Running("RW")) /\ v \in RwOnly
                /\ KeyOf[v] = KeyOf[Version(Running("RO"))]
    BY <1>2
  <2>2. /\ Part("RW", v) \in Seq(BlockType) /\ Len(Part("RW", v)) = NumBlocks
        /\ \A b \in Blocks : Part("RW", v)[b] = [kind |-> "RW", b |-> b, ver |-> v]
    BY <1>1 DEF Kinds
  <2> HIDE DEF Part
  <2>3. r.ver = v /\ r.kinds = {"RW"} /\ r.queue = Part("RW", v)
    BY <2>1
  <2> QED BY <2>1, <2>2, <2>3, Sizes DEF Kinds
<1>3. CASE \E v \in Versions :
              /\ r = [ver |-> v, kinds |-> Kinds, queue |-> Part("RW", v) \o Part("RO", v)]
              /\ v # Version(Running("RW")) /\ v # Version(Running("RO"))
  <2>1. PICK v \in Versions :
              /\ r = [ver |-> v, kinds |-> Kinds, queue |-> Part("RW", v) \o Part("RO", v)]
              /\ v # Version(Running("RW")) /\ v # Version(Running("RO"))
    BY <1>3
  <2>2. \A k \in Kinds :
          /\ Part(k, v) \in Seq(BlockType) /\ Len(Part(k, v)) = NumBlocks
          /\ \A b \in Blocks : Part(k, v)[b] = [kind |-> k, b |-> b, ver |-> v]
    BY <1>1
  <2> HIDE DEF Part
  <2>3. r.ver = v /\ r.kinds = Kinds /\ r.queue = Part("RW", v) \o Part("RO", v)
    BY <2>1
  <2> DEFINE a == Part("RW", v)  c == Part("RO", v)
  <2>4. /\ a \in Seq(BlockType) /\ Len(a) = NumBlocks
        /\ c \in Seq(BlockType) /\ Len(c) = NumBlocks
    BY <2>2 DEF Kinds
  <2>5. /\ a \o c \in Seq(BlockType) /\ Len(a \o c) = NumBlocks + NumBlocks
        /\ \A i \in 1 .. NumBlocks + NumBlocks :
              (a \o c)[i] = IF i <= NumBlocks THEN a[i] ELSE c[i - NumBlocks]
    <3> HIDE DEF a, c
    <3> QED BY <2>4, Sizes
  <2>6. ASSUME NEW i \in 1 .. NumBlocks + NumBlocks
        PROVE  (a \o c)[i] = IF i <= NumBlocks
                                THEN [kind |-> "RW", b |-> i, ver |-> v]
                                ELSE [kind |-> "RO", b |-> i - NumBlocks, ver |-> v]
    <3>1. CASE i <= NumBlocks
      <4>1. i \in Blocks /\ (a \o c)[i] = a[i]
        BY <2>5, <3>1, Sizes
      <4> QED BY <4>1, <3>1, <2>2 DEF Kinds
    <3>2. CASE ~(i <= NumBlocks)
      <4>1. i - NumBlocks \in Blocks /\ (a \o c)[i] = c[i - NumBlocks]
        BY <2>5, <3>2, Sizes
      <4> QED BY <4>1, <3>2, <2>2 DEF Kinds
    <3> QED BY <3>1, <3>2
  <2>7. r.queue = a \o c
    BY <2>3
  <2> HIDE DEF a, c
  <2> QED BY <2>1, <2>3, <2>5, <2>6, <2>7 DEF Kinds
<1> QED BY <1>2, <1>3 DEF Releases

-----------------------------------------------------------------------------
(* The invariant *)

Inv == Typed /\ RunInv /\ SessInv

\* It holds at the start.
LEMMA InitInv == Init => Inv
<1> SUFFICES ASSUME Init PROVE Inv
  OBVIOUS
<1>0. 1 \in Versions /\ Versions \subseteq Nat \ {0}
  BY UpgradeAssumption
<1>1. PICK b \in {Image(1, FALSE), ErasedImage} :
         images = [k \in Kinds |-> [s \in Slots |-> IF s = "A" THEN Image(1, FALSE) ELSE b]]
  BY DEF Init
<1> DEFINE one == Image(1, FALSE)
<1>2. /\ one \in ImageType /\ ErasedImage \in ImageType
      /\ one.off = FALSE /\ one.magic = TRUE
      /\ ErasedImage.blocks[1] = ERASED
      /\ \A c \in Blocks : one.blocks[c] = 1
  BY <1>0, Sizes DEF ErasedImage, Image, ImageType
<1>3. b \in {one, ErasedImage} /\ \A k \in Kinds : images[k]["A"] = one /\ images[k]["B"] = b
  BY <1>1 DEF Slots
<1>4. images \in [Kinds -> [Slots -> ImageType]]
  BY <1>1, <1>2
<1> HIDE DEF one
<1>5. ImagesTyped
  <2>1. one.blocks[1] # JUNK /\ b.blocks[1] # JUNK
    BY <1>2, <1>3, Sizes DEF ERASED, JUNK
  <2> QED BY <1>3, <1>4, <2>1 DEF ImagesTyped, Slots
<1>6. run["RO"] = "A" /\ run["RW"] = "A"
  BY DEF Init, Kinds
<1>7. RunTyped /\ FlagsTyped
  <2>1. RunTyped
    BY <1>6 DEF RunTyped, Slots
  <2>2. retry \in 0 .. RW_BOOT_MAX_RETRY_COUNT + 1
    BY Sizes DEF Init
  <2>3. prev_offsets \in [Kinds -> 0 .. NumBlocks]
    BY Sizes DEF Init
  <2> QED BY <2>1, <2>2, <2>3 DEF FlagsTyped, Init
<1>8. host \in HostType
  BY Sizes DEF Init, HostIdle, HostType
<1>9. rx \in RxType
  BY Sizes DEF Init, RxIdle, RxType
<1>10. Sound(one)
  <2>1. \A c \in Blocks : one.blocks[c] = one.blocks[1]
    BY <1>2, Sizes
  <2> QED BY <1>2, <2>1, Sizes DEF Sound, ERASED
<1>11. Running("RO") = one /\ Running("RW") = one
  BY <1>3, <1>6 DEF Running, Kinds
<1>12. RoChosen(images) = "A"
  <2>1. Sound(images["RO"]["A"])
    BY <1>3, <1>10 DEF Kinds
  <2>2. CASE b = one
    <3>1. Version(one) \in Nat
      <4>1. one.blocks[1] # JUNK
        BY <1>2, Sizes DEF JUNK
      <4> QED BY <1>2, <4>1, VersionFacts
    <3>2. images["RO"]["A"] = one /\ images["RO"]["B"] = one
      BY <2>2, <1>3 DEF Kinds
    <3>3. {s \in Slots : Sound(images["RO"][s])} = Slots
      BY <3>2, <1>10 DEF Slots
    <3>4. Version(images["RO"]["A"]) >= Version(images["RO"]["B"])
      BY <3>1, <3>2
    <3> QED BY <3>3, <3>4 DEF RoChosen
  <2>3. CASE b = ErasedImage
    <3>1. ~Sound(images["RO"][Other("A")])
      BY <2>3, <1>2, <1>3 DEF Sound, Other, Kinds
    <3> QED BY <2>1, <3>1, RoFacts DEF Slots
  <2> QED BY <1>3, <2>2, <2>3
<1>13. RunInv
  BY <1>6, <1>10, <1>11, <1>12 DEF RunInv
<1>14. host.phase = "idle" /\ restoring = "no"
  BY DEF Init, HostIdle
<1>15. SessInv
  BY <1>14 DEF SessInv, QueueInv, AckInv, RxInv
<1> QED
  BY <1>5, <1>7, <1>8, <1>9, <1>13, <1>15 DEF Inv, Typed

\* A step that leaves the flash, what runs and turn_update_on() alone.
LEMMA SameFlash ==
    ASSUME Inv, UNCHANGED <<images, run, restoring>>
    PROVE  ImagesTyped' /\ RunTyped' /\ RunInv' /\ \A k \in Kinds : Inactive(k)' = Inactive(k)
<1>1. ImagesTyped' /\ RunTyped'
  BY DEF Inv, Typed, ImagesTyped, RunTyped
<1>2. RunInv'
  BY DEF Inv, RunInv, Running
<1>3. \A k \in Kinds : Inactive(k)' = Inactive(k)
  BY DEF Inactive
<1> QED BY <1>1, <1>2, <1>3

\* A host that is not there asks for nothing.
LEMMA NoHost ==
    ASSUME host'.phase = "idle", restoring' = "no"
    PROVE  SessInv'
BY DEF SessInv, QueueInv, AckInv, RxInv

\* The host goes on with the same blocks.
LEMMA SameBlocks ==
    ASSUME Inv, host.phase # "idle", host'.phase \in {"block", "chunks"},
           host'.kinds = host.kinds, host'.ver = host.ver, host'.queue = host.queue,
           host.queue = <<>> => host'.phase = "block" /\ host'.via = "usb",
           UNCHANGED <<run, restoring>>,
           \A k \in host.kinds : Inactive(k)' = Inactive(k)
    PROVE  QueueInv' /\ AckInv'
<1>1. Total' = Total /\ Left' = Left
  BY DEF Total, Left
<1>2. Done' = Done
  BY <1>1 DEF Done
<1>3. \A k : DoneOf(k)' = DoneOf(k)
  BY <1>2 DEF DoneOf
<1>4. \A i : Entry(Done + i)' = Entry(Done + i)
  BY <1>2 DEF Entry
<1>5. QueueInv'
  BY <1>1, <1>4 DEF Inv, SessInv, QueueInv
<1>6. \A k : Off(k)' = Off(k)
  BY DEF Off
<1>7. AckInv'
  BY <1>3, <1>6 DEF Inv, SessInv, AckInv
<1> QED BY <1>5, <1>7

\* Only these parts of the state matter to the session.
LEMMA SameSession ==
    ASSUME Inv, UNCHANGED <<run, host, restoring, rx, quiet>>,
           \A k \in Kinds : Inactive(k)'.blocks = Inactive(k).blocks /\ Inactive(k)'.off = Inactive(k).off
    PROVE  SessInv'
<1>1. QueueInv'
  BY DEF Inv, SessInv, QueueInv, Total, Left, Done, Entry
<1>2. \A k : DoneOf(k)' = DoneOf(k) /\ Off(k)' = Off(k)
  BY DEF DoneOf, Done, Total, Left, Off
<1>3. host.kinds \subseteq Kinds
  BY DEF Inv, Typed, HostType
<1>4. AckInv'
  BY <1>2, <1>3 DEF Inv, SessInv, AckInv
<1>5. RxInv' /\ (restoring # "no" => host.phase = "on")'
  BY DEF Inv, SessInv, RxInv, Rx
<1> QED BY <1>1, <1>4, <1>5 DEF SessInv

\* A reset keeps it: what was complete but not turned on is not started.
LEMMA ResetInv ==
    ASSUME Inv, NEW c \in Nat, NEW hard \in BOOLEAN, NEW hibernate \in BOOLEAN,
           Reset(c, hard, hibernate)
    PROVE  Inv'
<1> USE Sizes
<1>1. /\ Sound(images["RO"][run["RO"]]) /\ run["RO"] \in Slots
  BY DEF Inv, RunInv, Running, Typed, RunTyped
<1>2. /\ run'["RO"] = RoChosen(images)
      /\ run'["RW"] = loader_main(images, TooMany(c + 1))
      /\ images' = images /\ restoring' = "no"
  BY DEF Reset, RwChosen
<1>3. RunTyped'
  BY <1>1, <1>2, RoFacts, LoaderFacts DEF RunTyped
<1>4. BootCount(c + 1, hibernate) \in Nat
  BY DEF BootCount, system_decrement_retry_counter
<1>5. Capped(BootCount(c + 1, hibernate)) \in 0 .. RW_BOOT_MAX_RETRY_COUNT + 1
  BY <1>4 DEF Capped, TooMany
<1>6. FlagsTyped'
  <2>1. TooMany(c + 1) \in BOOLEAN
    BY DEF TooMany
  <2>2. /\ retry' = Capped(BootCount(c + 1, hibernate))
        /\ rollback_detected_at_boot' = TooMany(c + 1) /\ header_corrupted' = FALSE
        /\ served' = FALSE /\ quiet' = FALSE /\ clock' = "boot"
        /\ prev_offsets' = [k \in Kinds |-> 0]
    BY DEF Reset
  <2>3. prev_offsets' \in [Kinds -> 0 .. NumBlocks]
    BY <2>2
  <2> QED BY <1>2, <1>5, <2>1, <2>2, <2>3 DEF FlagsTyped
<1>7. HostIdle \in HostType /\ RxIdle \in RxType
  BY DEF HostIdle, HostType, RxIdle, RxType
<1>8. Typed'
  BY <1>2, <1>3, <1>6, <1>7 DEF Reset, Inv, Typed, ImagesTyped
<1>9. RunInv'
  <2>1. Sound(Running("RO"))'
    BY <1>1, <1>2, RoFacts DEF Running
  <2>2. run'["RW"] # "none" => tryLaunch(images, run'["RW"])
    BY <1>2, LoaderFacts
  <2> QED BY <1>2, <2>1, <2>2 DEF RunInv, Running, tryLaunch
<1>10. CASE ~(host.phase = "on" /\ restoring = "no")
  <2>1. host'.phase = "idle"
    BY <1>10 DEF Reset, HostIdle
  <2> QED BY <1>2, <1>8, <1>9, <2>1, NoHost DEF Inv
<1>11. CASE host.phase = "on" /\ restoring = "no"
  <2>1. host' = host
    BY <1>11 DEF Reset
  <2>2. /\ run["RW"] # "none" /\ run["RW"] \in Slots /\ host.queue = <<>>
        /\ "RW" \in host.kinds
    BY <1>11 DEF Inv, SessInv, QueueInv, Typed, RunTyped
  <2>3. DoneOf("RW") > 0
    BY <1>11, <2>2, DoneTypes DEF Inv, SessInv
  <2>4. Inactive("RW").off
    BY <1>11, <2>2, <2>3 DEF Inv, SessInv, AckInv, Off
  <2>5. RoChosen(images) = run["RO"]
    BY <1>11 DEF Inv, RunInv
  <2>6. tryLaunch(images, run["RW"])
    BY <2>2, <2>5 DEF Inv, RunInv, Running, tryLaunch
  <2>7. ~tryLaunch(images, Other(run["RW"]))
    BY <2>4 DEF tryLaunch, Sound, Inactive
  <2>8. run'["RW"] = run["RW"] /\ run'["RO"] = run["RO"]
    BY <1>2, <2>2, <2>5, <2>6, <2>7, LoaderFacts
  <2>9. \A k \in Kinds : Inactive(k)' = Inactive(k)
    BY <1>2, <2>8 DEF Inactive, Kinds
  <2>10. QueueInv'
    BY <2>1, <2>8 DEF Inv, SessInv, QueueInv, Total, Left, Done, Entry
  <2>11. \A k : DoneOf(k)' = DoneOf(k) /\ Off(k)' = Off(k)
    BY <1>2, <1>11, <2>1 DEF DoneOf, Done, Total, Left, Off
  <2>12. host.kinds \subseteq Kinds
    BY DEF Inv, Typed, HostType
  <2>13. AckInv'
    BY <2>1, <2>9, <2>11, <2>12 DEF Inv, SessInv, AckInv
  <2>14. RxInv' /\ (restoring # "no" => host.phase = "on")'
    BY <1>2, <1>11, <2>1 DEF RxInv
  <2> QED BY <1>8, <1>9, <2>10, <2>13, <2>14 DEF Inv, SessInv
<1> QED BY <1>10, <1>11

\* The four resets.
LEMMA ResetsInv ==
    ASSUME Inv, Crash \/ PowerLoss \/ DeepSleep \/ deferred_reboot
    PROVE  Inv'
<1>0. retry \in Nat
  BY Sizes DEF Inv, Typed, FlagsTyped
<1>1. CASE Crash
  BY <1>0, <1>1, ResetInv DEF Crash
<1>2. CASE PowerLoss
  BY <1>2, ResetInv DEF PowerLoss
<1>3. CASE DeepSleep
  BY <1>0, <1>3, ResetInv DEF DeepSleep
<1>4. CASE deferred_reboot
  <2>1. system_decrement_retry_counter(retry) \in Nat
    BY <1>0 DEF system_decrement_retry_counter
  <2> QED BY <1>4, <2>1, ResetInv DEF deferred_reboot
<1> QED BY <1>1, <1>2, <1>3, <1>4

\* Damaging the header of the RW that does not run.
LEMMA DamagedInv ==
    ASSUME Inv, system_process_retry_counter \/ vc_invalidate_inactive_rw
    PROVE  Inv'
<1> DEFINE o == Other(run["RW"])
           bad == [Inactive("RW") EXCEPT !.magic = FALSE]
<1>1. run["RW"] # "none" /\ UNCHANGED <<run, host, restoring, rx, quiet>>
  BY DEF system_process_retry_counter, vc_invalidate_inactive_rw, Works, usb
<1>2. run["RW"] \in Slots /\ o \in Slots /\ "RW" \in Kinds
  BY <1>1 DEF Inv, Typed, RunTyped, Other, Slots, Kinds
<1>3. Inactive("RW") \in ImageType /\ Inactive("RW").blocks[1] # JUNK
  BY <1>2 DEF Inv, Typed, ImagesTyped, Inactive
<1>4. /\ bad \in ImageType /\ bad.blocks = Inactive("RW").blocks
      /\ bad.off = Inactive("RW").off
  BY <1>3 DEF ImageType
<1>5. /\ images' = images \/ images' = [images EXCEPT !["RW"][o].magic = FALSE]
  BY DEF system_process_retry_counter, vc_invalidate_inactive_rw
<1>6. images' = images \/ Written("RW", bad)
  <2>1. CASE images' = [images EXCEPT !["RW"][o].magic = FALSE]
    <3>1. images' = [images EXCEPT !["RW"][o] = [images["RW"][o] EXCEPT !.magic = FALSE]]
      BY <2>1
    <3>2. images' = [images EXCEPT !["RW"][o] = bad]
      BY <3>1 DEF Inactive
    <3> QED BY <3>2, <1>3, <1>4 DEF Written
  <2> QED BY <1>5, <2>1
<1> HIDE DEF o, bad
<1>7. FlagsTyped'
  <2>1. system_clear_retry_counter \in 0 .. RW_BOOT_MAX_RETRY_COUNT + 1
    BY Sizes DEF system_clear_retry_counter
  <2>2. CASE vc_invalidate_inactive_rw
    BY <2>2 DEF vc_invalidate_inactive_rw, flags, limit, usb, Inv, Typed, FlagsTyped
  <2>3. CASE system_process_retry_counter
    <3>1. /\ retry' = system_clear_retry_counter /\ served' = TRUE
          /\ header_corrupted' \in BOOLEAN
          /\ UNCHANGED <<rollback_detected_at_boot, limit, usb, restoring>>
      BY <2>3 DEF system_process_retry_counter, Inv, Typed, FlagsTyped
    <3> QED BY <3>1, <2>1 DEF limit, usb, Inv, Typed, FlagsTyped
  <2> QED BY <2>2, <2>3
<1>8. CASE images' = images
  <2>1. ImagesTyped' /\ RunTyped' /\ RunInv' /\ \A k \in Kinds : Inactive(k)' = Inactive(k)
    BY <1>1, <1>8, SameFlash
  <2>2. SessInv'
    BY <1>1, <2>1, SameSession
  <2> QED BY <1>1, <1>7, <2>1, <2>2 DEF Inv, Typed
<1>9. CASE Written("RW", bad)
  <2>1. ImagesTyped' /\ \A k \in Kinds : Inactive(k)' = IF k = "RW" THEN bad ELSE Inactive(k)
    BY <1>1, <1>2, <1>9, WrittenFacts DEF Inv
  <2>2. RunInv'
    BY <1>1, <1>2, <1>9, WrittenRun DEF Inv
  <2>3. SessInv'
    BY <1>1, <1>4, <2>1, SameSession
  <2> QED BY <1>1, <1>7, <2>1, <2>2, <2>3 DEF Inv, Typed, RunTyped
<1> QED BY <1>6, <1>8, <1>9

\* What only time does.
LEMMA TimeInv ==
    ASSUME Inv, BackoffOver \/ Silence
    PROVE  Inv'
<1>1. UNCHANGED <<images, run, retry, flags, rx, restoring, host, prev_offsets>>
  BY DEF BackoffOver, Silence, usb, limit
<1>2. ImagesTyped' /\ RunTyped' /\ RunInv' /\ \A k \in Kinds : Inactive(k)' = Inactive(k)
  BY <1>1, SameFlash
<1>3. FlagsTyped'
  BY <1>1 DEF Inv, Typed, FlagsTyped, BackoffOver, Silence, flags, usb, limit
<1>4. CASE BackoffOver
  <2>1. SessInv'
    BY <1>1, <1>2, <1>4, SameSession DEF BackoffOver, usb
  <2> QED BY <1>1, <1>2, <1>3, <2>1 DEF Inv, Typed
<1>5. CASE Silence
  <2>1. CASE host.phase \in {"block", "chunks"}
    <3>1. QueueInv' /\ AckInv'
      BY <1>1, <1>2, <2>1, SameBlocks DEF Inv, SessInv, QueueInv, Typed, HostType
    <3>2. RxInv'
      BY <1>5 DEF RxInv, Rx, Silence, RxIdle
    <3>3. SessInv'
      BY <1>1, <3>1, <3>2 DEF SessInv, Inv
    <3> QED BY <1>1, <1>2, <1>3, <3>3 DEF Inv, Typed
  <2>2. CASE host.phase \notin {"block", "chunks"}
    <3>1. QueueInv'
      BY <1>1 DEF Inv, SessInv, QueueInv, Total, Left, Done, Entry
    <3>2. \A k : DoneOf(k)' = DoneOf(k) /\ Off(k)' = Off(k)
      BY <1>1 DEF DoneOf, Done, Total, Left, Off
    <3>3. host.kinds \subseteq Kinds
      BY DEF Inv, Typed, HostType
    <3>4. AckInv'
      BY <1>1, <1>2, <3>2, <3>3 DEF Inv, SessInv, AckInv
    <3>5. SessInv'
      BY <1>1, <2>2, <3>1, <3>4 DEF SessInv, Inv, RxInv
    <3> QED BY <1>1, <1>2, <1>3, <3>5 DEF Inv, Typed
  <2> QED BY <2>1, <2>2
<1> QED BY <1>4, <1>5

\* A host comes.
LEMMA HostOpensInv ==
    ASSUME Inv, HostOpens
    PROVE  Inv'
<1>1. UNCHANGED <<images, run, retry, flags, limit, usb, restoring>>
  BY DEF HostOpens
<1>2. ImagesTyped' /\ RunTyped' /\ RunInv'
  BY <1>1, SameFlash
<1>3. PICK r \in Releases, via \in {"usb", "ap"} :
         host' = [phase |-> "start", via |-> via, ver |-> r.ver,
                  kinds |-> r.kinds, queue |-> r.queue, sent |-> 0]
  BY DEF HostOpens
<1>4. /\ r.ver \in Versions /\ "RW" \in r.kinds /\ r.kinds \subseteq Kinds
      /\ r.queue \in Seq(BlockType)
      /\ Len(r.queue) = IF "RO" \in r.kinds THEN NumBlocks + NumBlocks ELSE NumBlocks
      /\ \A i \in 1 .. Len(r.queue) :
            r.queue[i] = IF i <= NumBlocks
                           THEN [kind |-> "RW", b |-> i, ver |-> r.ver]
                           ELSE [kind |-> "RO", b |-> i - NumBlocks, ver |-> r.ver]
  BY ReleaseFacts
<1>5. host' \in HostType
  BY <1>3, <1>4, Sizes DEF HostType
<1>6. Typed'
  BY <1>1, <1>2, <1>5 DEF Inv, Typed, FlagsTyped, flags, limit, usb
<1>7. /\ host'.phase = "start" /\ host'.ver = r.ver /\ host'.kinds = r.kinds
      /\ host'.queue = r.queue
  BY <1>3
<1>8. Left' = Total' /\ Total' \in Nat /\ Left' = Len(r.queue)
  BY <1>4, <1>7, Sizes DEF Left, Total
<1>9. Done' = 0
  BY <1>8 DEF Done
<1>10. \A i \in 1 .. Left' : host'.queue[i] = Entry(Done + i)'
  BY <1>4, <1>7, <1>8, <1>9 DEF Entry
<1>11. run'["RW"] # "none"
  BY <1>1 DEF HostOpens, Works
<1>12. QueueInv'
  BY <1>4, <1>7, <1>8, <1>9, <1>10, <1>11 DEF QueueInv
<1>13. \A k : DoneOf(k)' = 0
  BY <1>9, Sizes DEF DoneOf
<1>14. AckInv'
  BY <1>13 DEF AckInv
<1>15. restoring' = "no" /\ RxInv'
  BY <1>1, <1>7 DEF HostOpens, RxInv
<1> QED BY <1>2, <1>6, <1>12, <1>14, <1>15 DEF Inv, SessInv

\* What the host does alone, and the start of a transfer from the AP.
LEMMA HostInv ==
    ASSUME Inv, HostGivesUp \/ PacketLost \/ HostRestartsBlock \/ ap_start
    PROVE  Inv'
<1>1. UNCHANGED <<images, run, retry, flags, limit, usb, restoring>>
  BY DEF HostGivesUp, PacketLost, HostRestartsBlock, ap_start
<1>2. ImagesTyped' /\ RunTyped' /\ RunInv' /\ \A k \in Kinds : Inactive(k)' = Inactive(k)
  BY <1>1, SameFlash
<1>3. FlagsTyped' /\ rx' \in RxType
  BY <1>1 DEF Inv, Typed, FlagsTyped, flags, limit, usb
<1>4. host \in HostType /\ HostIdle \in HostType /\ host.kinds \subseteq Kinds
  BY Sizes DEF Inv, Typed, HostType, HostIdle
<1>5. host.phase # "on" => restoring = "no"
  BY DEF Inv, SessInv
<1>6. CASE HostGivesUp
  <2>1. host' = HostIdle /\ restoring' = "no"
    BY <1>1, <1>5, <1>6 DEF HostGivesUp
  <2>2. SessInv'
    BY <2>1, NoHost DEF HostIdle
  <2> QED BY <1>2, <1>3, <1>4, <2>1, <2>2 DEF Inv, Typed
<1>7. ASSUME NEW ph \in {"block", "chunks"}, NEW n \in 0 .. Chunks,
             GoOn(ph, n), host.phase \in {"block", "chunks"}, host.queue # <<>>
      PROVE  Inv'
  <2>1. /\ host' \in HostType /\ host'.phase = ph /\ host'.kinds = host.kinds
        /\ host'.ver = host.ver /\ host'.queue = host.queue /\ host'.via = host.via
    BY <1>4, <1>7 DEF GoOn, HostType
  <2>2. QueueInv' /\ AckInv'
    BY <1>1, <1>2, <1>4, <1>7, <2>1, SameBlocks
  <2>3. RxInv'
    BY <1>1, <1>7, <2>1 DEF Inv, SessInv, RxInv, Rx, usb
  <2> QED BY <1>1, <1>2, <1>3, <1>5, <1>7, <2>1, <2>2, <2>3 DEF Inv, Typed, SessInv
<1>8. CASE PacketLost
  <2>1. host.sent \in 0 .. Chunks /\ host.phase = "chunks" => host.queue # <<>>
    BY DEF Inv, SessInv, QueueInv, Typed, HostType
  <2>2. CASE host.phase = "block" /\ host.queue # <<>> /\ GoOn("chunks", 0)
    BY <1>7, <2>2, Sizes
  <2>3. CASE host.phase = "chunks" /\ host.sent < Chunks /\ GoOn("chunks", host.sent + 1)
    <3>1. host.queue # <<>> /\ host.sent + 1 \in 0 .. Chunks
      BY <2>3, Sizes DEF Inv, SessInv, QueueInv, Typed, HostType
    <3> QED BY <1>7, <2>3, <3>1
  <2> QED BY <1>8, <2>2, <2>3 DEF PacketLost
<1>9. CASE HostRestartsBlock
  <2>1. host.phase = "chunks" /\ host.queue # <<>> /\ GoOn("block", 0)
    BY <1>9 DEF HostRestartsBlock, Inv, SessInv, QueueInv
  <2> QED BY <1>7, <2>1, Sizes
<1>10. CASE ap_start
  <2>1. /\ host' \in HostType /\ host'.phase = "block" /\ host'.kinds = host.kinds
        /\ host'.ver = host.ver /\ host'.queue = host.queue /\ host'.via = "ap"
        /\ host.phase = "start" /\ host.via = "ap"
    BY <1>4, <1>10 DEF ap_start, HostType
  <2>2. host.queue # <<>>
    <3>1. QueueInv /\ Typed
      BY DEF Inv, SessInv
    <3>2. SUFFICES ASSUME host.queue = <<>> PROVE FALSE
      OBVIOUS
    <3>3. "RW" \in host.kinds /\ Done = 0
      BY <2>1, <3>1 DEF QueueInv
    <3>4. DoneOf("RW") = NumBlocks
      BY <2>1, <3>1, <3>2, <3>3, DoneTypes
    <3> QED BY <3>3, <3>4, Sizes DEF DoneOf
  <2>3. QueueInv' /\ AckInv'
    BY <1>1, <1>2, <1>4, <2>1, <2>2, SameBlocks
  <2>4. RxInv'
    BY <2>1 DEF RxInv
  <2> QED BY <1>1, <1>2, <1>3, <1>5, <2>1, <2>3, <2>4 DEF Inv, Typed, SessInv
<1> QED BY <1>6, <1>8, <1>9, <1>10

\* A block is handled and answered.
LEMMA BlockInv ==
    ASSUME Inv, host.phase \in {"block", "chunks"}, host.queue # <<>>,
           NEW q, q = Head(host.queue), NEW intact \in BOOLEAN,
           fw_upgrade_command_handler(q.kind, q.b, q.ver, intact),
           Replied(Success(q.kind, q.b, q.ver, intact)),
           UNCHANGED <<run, retry, flags, restoring>>, quiet' \in BOOLEAN,
           rx' \in RxType, rx'.state # "inside" \/ host.via = "ap"
    PROVE  Inv'
<1>0. Typed /\ RunInv /\ QueueInv /\ AckInv /\ restoring = "no"
  BY DEF Inv, SessInv
<1>1. /\ q.kind \in Kinds /\ q.kind \in host.kinds /\ q.b \in Blocks
      /\ q.ver \in Versions /\ run[q.kind] \in Slots
      /\ q.ver = host.ver /\ q.b = DoneOf(q.kind) + 1
  BY <1>0, HeadFacts
<1>2. /\ Len(host.queue) \in Nat /\ Len(host.queue) > 0
      /\ Tail(host.queue) \in Seq(BlockType)
      /\ Len(Tail(host.queue)) = Len(host.queue) - 1
      /\ host \in HostType /\ HostIdle \in HostType /\ host.kinds \subseteq Kinds
  BY <1>0, Sizes DEF Typed, HostType, HostIdle
<1> DEFINE last == Len(host.queue) = 1
           ph == IF host.via = "ap" /\ last THEN "on" ELSE "block"
           t == Tail(host.queue)
<1>14. (t = <<>>) <=> last
  <2> DEFINE n == Len(host.queue)
  <2>1. t \in Seq(BlockType) /\ Len(t) = n - 1 /\ n \in Nat
    BY <1>2
  <2>2. Len(<<>>) = 0 /\ (t # <<>> => Len(t) \in Nat \ {0})
    BY <2>1, EmptySeq
  <2> HIDE DEF t, n
  <2>3. CASE t = <<>>
    <3>1. n = 1
      BY <2>1, <2>2, <2>3
    <3> QED BY <2>3, <3>1 DEF n
  <2>4. CASE t # <<>>
    <3>1. n # 1
      BY <2>1, <2>2, <2>4
    <3> QED BY <2>4, <3>1 DEF n
  <2> QED BY <2>3, <2>4
<1>3. DoneOf(q.kind) \in 0 .. NumBlocks
  BY <1>0, <1>1, DoneTypes
<1>4. PICK i :
        /\ Written(q.kind, i)
        /\ q.b = 1 => i = Inactive(q.kind) \/ i.off
        /\ q.b # 1 => i.off = Inactive(q.kind).off
        /\ Success(q.kind, q.b, q.ver, intact) =>
              /\ i.blocks[q.b] = q.ver
              /\ q.b = 1 => i.magic /\ i.off
              /\ q.b # 1 => \A c \in Blocks : c # q.b =>
                                i.blocks[c] = Inactive(q.kind).blocks[c]
  BY <1>0, <1>1, Handler
<1>5. /\ prev_offsets' \in [Kinds -> 0 .. NumBlocks]
      /\ clock' \in {"boot", "recent", "free"}
  BY <1>0, <1>1, Handler
<1>6. FlagsTyped'
  BY <1>0, <1>5 DEF Typed, FlagsTyped, flags
<1>7. /\ ImagesTyped'
      /\ \A j \in Kinds : Inactive(j)' = IF j = q.kind THEN i ELSE Inactive(j)
  BY <1>0, <1>1, <1>4, WrittenFacts
<1>8. q.b # 1 => Inactive(q.kind).off = TRUE
  <2> SUFFICES ASSUME q.b # 1 PROVE Inactive(q.kind).off = TRUE
    OBVIOUS
  <2>1. DoneOf(q.kind) > 0
    BY <1>1, <1>3, Sizes
  <2>2. Inactive(q.kind).off = Off(q.kind)
    BY <1>0, <1>1, <2>1 DEF AckInv
  <2> QED BY <1>0, <2>2 DEF Off
<1>9. i = Inactive(q.kind) \/ i.off
  BY <1>4, <1>8
<1>10. RunInv'
  <2>1. q.kind = "RO" => ~Sound(i) \/ i = Inactive("RO")
    BY <1>9 DEF Sound
  <2> QED BY <1>0, <1>1, <1>4, <2>1, WrittenRun
<1>11. RunTyped'
  BY <1>0 DEF Typed, RunTyped
<1>12. CASE ~Success(q.kind, q.b, q.ver, intact)
  <2>1. host' = HostIdle
    BY <1>12 DEF Replied
  <2>2. SessInv'
    BY <1>0, <2>1, NoHost DEF HostIdle
  <2> QED BY <1>2, <1>6, <1>7, <1>10, <1>11, <2>1, <2>2 DEF Inv, Typed
<1>13. CASE Success(q.kind, q.b, q.ver, intact)
  <2>1. host' = [host EXCEPT !.queue = Tail(host.queue), !.sent = 0, !.phase = ph]
    BY <1>13 DEF Replied
  <2>a. ph \in {"on", "block"}
    OBVIOUS
  <2> HIDE DEF last
  <2>2. /\ host'.queue = Tail(host.queue) /\ host'.kinds = host.kinds
        /\ host'.ver = host.ver /\ host'.via = host.via /\ host' \in HostType
        /\ host'.phase = ph
    <3>1. t \in Seq(BlockType) /\ host \in HostType
      BY <1>2
    <3>2. host' = [host EXCEPT !.queue = t, !.sent = 0, !.phase = ph]
      BY <2>1
    <3>3. 0 \in 0 .. Chunks
      BY Sizes
    <3> HIDE DEF ph, t
    <3>4. /\ host'.queue = t /\ host'.kinds = host.kinds /\ host'.via = host.via
          /\ host'.ver = host.ver /\ host'.phase = ph /\ host' \in HostType
      BY <2>a, <3>1, <3>2, <3>3 DEF HostType
    <3> QED BY <3>4 DEF t
  <2>3. /\ Total' = Total /\ Left' = Left - 1 /\ Left' <= Total'
        /\ \A j \in 1 .. Left' : host'.queue[j] = Entry(Done + j)'
        /\ \A k \in Kinds : DoneOf(k)' = IF k = q.kind THEN q.b ELSE DoneOf(k)
    BY <1>0, <2>2, Popped
  <2>4. host'.phase = "on" => host'.queue = <<>>
    BY <1>14, <2>2
  <2>5. host'.phase = "block" /\ host'.via = "ap" => host'.queue # <<>>
    BY <1>14, <2>2
  <2>6. QueueInv'
    BY <1>0, <2>2, <2>3, <2>4, <2>5 DEF QueueInv
  <2>7. ASSUME NEW k \in host.kinds
        PROVE  /\ \A b \in 1 .. DoneOf(k)' : Inactive(k)'.blocks[b] = host.ver
               /\ DoneOf(k)' > 0 => Inactive(k)'.off = TRUE
    <3>0. k \in Kinds
      BY <1>2
    <3>1. CASE k = q.kind
      <4>1. DoneOf(k)' = q.b /\ Inactive(k)' = i
        BY <3>0, <3>1, <1>7, <2>3
      <4>2. i.blocks[q.b] = host.ver
        BY <1>1, <1>4, <1>13
      <4>3. i.off = TRUE
        <5>1. i \in ImageType
          BY <1>4 DEF Written
        <5>2. i.off \in BOOLEAN
          BY <5>1 DEF ImageType
        <5> QED BY <1>4, <1>8, <1>13, <5>2
      <4>4. ASSUME NEW b \in 1 .. q.b, b # q.b PROVE i.blocks[b] = host.ver
        <5>1. q.b # 1 /\ b \in 1 .. DoneOf(k) /\ b \in Blocks
          BY <1>1, <1>3, <3>1, <4>4, Sizes
        <5>2. i.blocks[b] = Inactive(k).blocks[b]
          BY <1>4, <1>13, <3>1, <4>4, <5>1
        <5> QED BY <1>0, <5>1, <5>2 DEF AckInv
      <4> QED BY <4>1, <4>2, <4>3, <4>4
    <3>2. CASE k # q.kind
      <4>1. DoneOf(k)' = DoneOf(k) /\ Inactive(k)' = Inactive(k)
        BY <3>0, <3>2, <1>7, <2>3
      <4> QED BY <1>0, <4>1 DEF AckInv, Off
    <3> QED BY <3>1, <3>2
  <2>8. AckInv'
    BY <1>0, <2>2, <2>7 DEF AckInv, Off
  <2>9. RxInv'
    BY <2>2 DEF RxInv, Rx, RxIdle
  <2>10. SessInv'
    BY <1>0, <2>6, <2>8, <2>9 DEF SessInv
  <2> QED BY <1>6, <1>7, <1>10, <1>11, <2>2, <2>10 DEF Inv, Typed
<1> QED BY <1>12, <1>13

\* A block from the AP.
LEMMA ApBlockInv ==
    ASSUME Inv, ap_block
    PROVE  Inv'
<1> DEFINE q == Head(host.queue)
<1>1. /\ host.phase = "block" /\ host.via = "ap"
      /\ fw_upgrade_command_handler(q.kind, q.b, q.ver, TRUE)
      /\ Replied(Success(q.kind, q.b, q.ver, TRUE))
      /\ UNCHANGED <<run, retry, flags, usb, restoring>>
  BY DEF ap_block
<1>2. host.queue # <<>>
  BY <1>1 DEF Inv, SessInv, QueueInv
<1>3. quiet' \in BOOLEAN /\ rx' \in RxType
  BY <1>1 DEF usb, Inv, Typed, FlagsTyped
<1> HIDE DEF q
<1>4. q = Head(host.queue)
  BY DEF q
<1> QED BY <1>1, <1>2, <1>3, <1>4, BlockInv

\* What the handler finds has the types of what it keeps.
LEMMA RxTypes ==
    ASSUME Inv
    PROVE  Rx \in RxType /\ RxIdle \in RxType
<1>1. RxIdle \in RxType /\ rx \in RxType
  BY Sizes DEF RxIdle, RxType, Inv, Typed
<1> QED BY <1>1 DEF Rx

\* The packets that program nothing.
LEMMA PacketInv ==
    ASSUME Inv, UNCHANGED <<images, run, flags, limit, restoring>>,
           host.phase \in {"start", "block", "chunks"}, host.via = "usb",
           retry' \in 0 .. RW_BOOT_MAX_RETRY_COUNT + 1, quiet' = FALSE, rx' \in RxType,
           \/ host' = HostIdle
           \/ \E ph \in {"block", "chunks"}, n \in 0 .. Chunks :
                 /\ GoOn(ph, n)
                 /\ host.queue = <<>> => ph = "block"
                 /\ rx'.state = "inside" => rx'.block = Head(host.queue)
    PROVE  Inv'
<1>1. ImagesTyped' /\ RunTyped' /\ RunInv' /\ \A k \in Kinds : Inactive(k)' = Inactive(k)
  BY SameFlash
<1>2. FlagsTyped'
  BY DEF Inv, Typed, FlagsTyped, flags, limit
<1>3. host \in HostType /\ HostIdle \in HostType /\ host.kinds \subseteq Kinds
  BY Sizes DEF Inv, Typed, HostType, HostIdle
<1>4. restoring = "no"
  BY DEF Inv, SessInv
<1>5. CASE host' = HostIdle
  <2>1. SessInv'
    BY <1>4, <1>5, NoHost DEF HostIdle
  <2> QED BY <1>1, <1>2, <1>3, <1>5, <2>1 DEF Inv, Typed
<1>6. CASE \E ph \in {"block", "chunks"}, n \in 0 .. Chunks :
              /\ GoOn(ph, n)
              /\ host.queue = <<>> => ph = "block"
              /\ rx'.state = "inside" => rx'.block = Head(host.queue)
  <2>1. PICK ph \in {"block", "chunks"}, n \in 0 .. Chunks :
              /\ GoOn(ph, n)
              /\ host.queue = <<>> => ph = "block"
              /\ rx'.state = "inside" => rx'.block = Head(host.queue)
    BY <1>6
  <2>2. /\ host' \in HostType /\ host'.phase = ph /\ host'.kinds = host.kinds
        /\ host'.ver = host.ver /\ host'.queue = host.queue /\ host'.via = "usb"
    BY <1>3, <2>1 DEF GoOn, HostType
  <2>3. QueueInv' /\ AckInv'
    BY <1>1, <1>3, <2>1, <2>2, SameBlocks
  <2>4. RxInv'
    BY <2>1, <2>2 DEF RxInv, Rx
  <2> QED BY <1>1, <1>2, <1>4, <2>2, <2>3, <2>4 DEF Inv, Typed, SessInv
<1> QED BY <1>5, <1>6

\* A packet inside of a block that restarts it.
LEMMA RestartTypes ==
    ASSUME Inv, NEW q \in BlockType \cup {NoBlock}
    PROVE  /\ InBlock(q) \in RxType /\ InBlock(q).state = "inside" /\ InBlock(q).block = q
           /\ restart_block(q) \in RxType
           /\ q # NoBlock /\ restart_block(q).state = "inside" => restart_block(q).block = q
<1>1. InBlock(q) \in RxType /\ InBlock(q).state = "inside" /\ InBlock(q).block = q
  BY Sizes DEF InBlock, RxType
<1>2. [InBlock(q) EXCEPT !.left = 0] \in RxType
  BY <1>1, Sizes DEF RxType
<1>3. RxIdle \in RxType /\ RxIdle.state = "idle"
  BY RxTypes DEF RxIdle
<1> QED BY <1>1, <1>2, <1>3 DEF restart_block

\* The start, the header and the end of a transfer over USB.
LEMMA UsbInv ==
    ASSUME Inv, usb_start \/ usb_header
    PROVE  Inv'
<1>1. Rx \in RxType /\ RxIdle \in RxType
  BY RxTypes
<1>2. /\ UNCHANGED <<images, run, retry, flags, limit, restoring>> /\ quiet' = FALSE
      /\ host.phase \in {"start", "block"} /\ host.via = "usb"
  BY DEF usb_start, usb_header, Via
<1>3. retry' \in 0 .. RW_BOOT_MAX_RETRY_COUNT + 1
  BY <1>2 DEF Inv, Typed, FlagsTyped
<1>4. NoBlock \in BlockType \cup {NoBlock}
  OBVIOUS
<1>5. CASE usb_start
  <2>1. CASE Rx.state = "idle" /\ rx' = [RxIdle EXCEPT !.state = "outside"] /\ GoOn("block", 0)
    <3>1. rx' \in RxType /\ rx'.state = "outside"
      BY <1>1, <2>1 DEF RxType
    <3>2. 0 \in 0 .. Chunks
      BY Sizes
    <3> QED BY <1>2, <1>3, <2>1, <3>1, <3>2, PacketInv
  <2>2. CASE rx' = Rx /\ host' = HostIdle
    BY <1>1, <1>2, <1>3, <2>2, PacketInv
  <2>3. CASE rx' = restart_block(NoBlock) /\ host' = HostIdle
    <3>1. rx' \in RxType
      BY <1>4, <2>3, RestartTypes
    <3> QED BY <1>2, <1>3, <2>3, <3>1, PacketInv
  <2> QED BY <1>5, <2>1, <2>2, <2>3 DEF usb_start
<1>6. CASE usb_header
  <2>0. host.queue # <<>> /\ host.phase = "block"
    BY <1>6 DEF usb_header, Via
  <2> DEFINE q == Head(host.queue)
  <2>1. q \in BlockType /\ q.b \in Blocks
    BY <2>0, HeadFacts DEF Inv, SessInv
  <2>2. q # NoBlock
    <3>1. NoBlock.b = 0 /\ 0 \notin Blocks
      BY Sizes DEF NoBlock
    <3> QED BY <2>1, <3>1
  <2>3. /\ InBlock(q) \in RxType /\ InBlock(q).block = q
        /\ restart_block(q) \in RxType
        /\ restart_block(q).state = "inside" => restart_block(q).block = q
    BY <2>1, <2>2, RestartTypes
  <2>4. 0 \in 0 .. Chunks
    BY Sizes
  <2>5. CASE rx' = Rx /\ host' = HostIdle
    BY <1>1, <1>2, <1>3, <2>5, PacketInv
  <2>6. CASE rx' = InBlock(q) /\ GoOn("chunks", 0)
    BY <1>2, <1>3, <2>0, <2>3, <2>4, <2>6, PacketInv
  <2>7. CASE rx' = restart_block(q) /\ GoOn("chunks", 0)
    BY <1>2, <1>3, <2>0, <2>3, <2>4, <2>7, PacketInv
  <2> QED BY <1>6, <2>5, <2>6, <2>7 DEF usb_header
<1> QED BY <1>5, <1>6

\* A packet of data over USB.
LEMMA UsbChunkInv ==
    ASSUME Inv, usb_chunk
    PROVE  Inv'
<1> DEFINE next == [Rx EXCEPT !.pieces = Append(@, host.sent + 1), !.left = @ - 1]
           q == next.block
<1>1. Rx \in RxType /\ RxIdle \in RxType
  BY RxTypes
<1>2. /\ UNCHANGED <<run, retry, flags, restoring>> /\ quiet' = FALSE
      /\ host.phase = "chunks" /\ host.via = "usb" /\ host.sent < Chunks
  BY DEF usb_chunk, Via
<1>3. host.queue # <<>> /\ host.sent \in 0 .. Chunks /\ (Rx.state = "inside" => Rx.block = Head(host.queue))
  BY <1>2 DEF Inv, SessInv, QueueInv, RxInv, Typed, HostType
<1>4. retry' \in 0 .. RW_BOOT_MAX_RETRY_COUNT + 1
  BY <1>2 DEF Inv, Typed, FlagsTyped
<1>5. next.block = Rx.block /\ next.state = Rx.state
  BY <1>1 DEF RxType
<1>6. CASE Rx.state # "inside" /\ rx' = Rx /\ host' = HostIdle /\ UNCHANGED <<images, limit>>
  BY <1>1, <1>2, <1>4, <1>6, PacketInv
<1>7. CASE /\ Rx.state = "inside" /\ Rx.left > 1 /\ rx' = next
           /\ GoOn("chunks", host.sent + 1) /\ UNCHANGED <<images, limit>>
  <2>1. host.sent + 1 \in 0 .. Chunks /\ host.sent + 1 \in Nat
    BY <1>2, <1>3, Sizes
  <2>2. Rx.left - 1 \in 0 .. Chunks /\ Append(Rx.pieces, host.sent + 1) \in Seq(Nat)
    BY <1>1, <1>7, <2>1, Sizes DEF RxType
  <2>3. next \in RxType
    <3> DEFINE p == Append(Rx.pieces, host.sent + 1)  n == Rx.left - 1
    <3>1. next = [Rx EXCEPT !.pieces = p, !.left = n]
      OBVIOUS
    <3>2. p \in Seq(Nat) /\ n \in 0 .. Chunks
      BY <2>2
    <3> HIDE DEF p, n, next
    <3> QED BY <1>1, <3>1, <3>2 DEF RxType
  <2> HIDE DEF next
  <2> QED BY <1>2, <1>3, <1>4, <1>5, <1>7, <2>1, <2>3, PacketInv
<1>8. CASE /\ Rx.state = "inside"
           /\ fw_upgrade_command_handler(q.kind, q.b, q.ver, Intact(next))
           /\ rx' = [RxIdle EXCEPT !.state = "outside"]
           /\ Replied(Success(q.kind, q.b, q.ver, Intact(next)))
  <2>1. Intact(next) \in BOOLEAN
    BY DEF Intact
  <2>2. rx' \in RxType /\ rx'.state = "outside"
    BY <1>1, <1>8 DEF RxType
  <2>3. q = Head(host.queue)
    BY <1>3, <1>5, <1>8
  <2> HIDE DEF q, next
  <2> QED BY <1>2, <1>3, <1>8, <2>1, <2>2, <2>3, BlockInv
<1> QED BY <1>6, <1>7, <1>8 DEF usb_chunk

\* UPGRADE_DONE: the host goes on to turn the update on.
LEMMA UsbDoneInv ==
    ASSUME Inv, usb_done
    PROVE  Inv'
<1>1. Rx \in RxType /\ RxIdle \in RxType
  BY RxTypes
<1>2. /\ UNCHANGED <<images, run, flags, limit, restoring>> /\ quiet' = FALSE
      /\ host.phase = "block" /\ host.via = "usb" /\ host.queue = <<>>
  BY DEF usb_done, Via
<1>3. retry' \in 0 .. RW_BOOT_MAX_RETRY_COUNT + 1
  BY Sizes DEF usb_done, system_clear_retry_counter, Inv, Typed, FlagsTyped
<1>4. CASE rx' = Rx /\ host' = HostIdle
  BY <1>1, <1>2, <1>3, <1>4, PacketInv
<1>5. CASE rx' = RxIdle /\ GoOn("on", 0)
  <2>1. ImagesTyped' /\ RunTyped' /\ RunInv' /\ \A k \in Kinds : Inactive(k)' = Inactive(k)
    BY <1>2, SameFlash
  <2>2. FlagsTyped'
    BY <1>2, <1>3 DEF Inv, Typed, FlagsTyped, flags, limit
  <2>3. host \in HostType /\ host.kinds \subseteq Kinds
    BY DEF Inv, Typed, HostType
  <2>4. /\ host' \in HostType /\ host'.phase = "on" /\ host'.kinds = host.kinds
        /\ host'.ver = host.ver /\ host'.queue = host.queue
    <3>1. 0 \in 0 .. Chunks
      BY Sizes
    <3> QED BY <1>5, <2>3, <3>1 DEF GoOn, HostType
  <2>5. Total' = Total /\ Left' = Left
    BY <2>4 DEF Total, Left
  <2>6. Done' = Done
    BY <2>5 DEF Done
  <2>7. \A k : DoneOf(k)' = DoneOf(k) /\ Off(k)' = Off(k)
    BY <1>2, <2>6 DEF DoneOf, Off
  <2>8. \A i : Entry(Done + i)' = Entry(Done + i)
    BY <2>4, <2>6 DEF Entry
  <2>9. QueueInv'
    BY <1>2, <2>4, <2>5, <2>8 DEF Inv, SessInv, QueueInv
  <2>10. AckInv'
    BY <1>2, <2>1, <2>3, <2>4, <2>7 DEF Inv, SessInv, AckInv
  <2>11. RxInv'
    BY <2>4 DEF RxInv
  <2> QED BY <1>1, <1>5, <2>1, <2>2, <2>4, <2>9, <2>10, <2>11 DEF Inv, Typed, SessInv
<1> QED BY <1>4, <1>5 DEF usb_done

\* header_restored(): only the size may change, and does for a block that is there.
LEMMA RestoreFacts ==
    ASSUME Inv, NEW k \in Kinds, run[k] \in Slots, Restore(k), NEW i,
           i = header_restored(Inactive(k))
    PROVE  /\ Written(k, i) /\ i.blocks = Inactive(k).blocks
           /\ i.magic = Inactive(k).magic
           /\ Inactive(k).blocks[1] # ERASED => i.off = FALSE
           /\ Inactive(k).off = FALSE => i.off = FALSE
<1> DEFINE old == Inactive(k)
<1>1. old \in ImageType /\ old.blocks[1] # JUNK /\ Other(run[k]) \in Slots
  BY DEF Inv, Typed, ImagesTyped, Inactive, Other, Slots
<1>2. i = [old EXCEPT !.off = old.off /\ ~Restorable(old)]
  BY DEF header_restored
<1>3. (old.off /\ ~Restorable(old)) \in BOOLEAN
  OBVIOUS
<1>4. /\ i \in ImageType /\ i.blocks = old.blocks /\ i.magic = old.magic
      /\ i.off = (old.off /\ ~Restorable(old))
  <2> HIDE DEF old
  <2> QED BY <1>1, <1>2, <1>3 DEF ImageType
<1>5. images' = [images EXCEPT ![k][Other(run[k])] = i]
  BY DEF Restore, Inactive
<1>6. Written(k, i)
  BY <1>1, <1>4, <1>5 DEF Written
<1>7. old.off \in BOOLEAN
  BY <1>1 DEF ImageType
<1>8. (old.blocks[1] # ERASED => i.off = FALSE) /\ (old.off = FALSE => i.off = FALSE)
  BY <1>4, <1>7 DEF Restorable
<1> QED BY <1>4, <1>6, <1>8

\* Turning the update on, first RW and then RO.
LEMMA TurnOnInv ==
    ASSUME Inv, turn_update_on \/ turn_update_on_second
    PROVE  Inv'
<1> DEFINE k == IF restoring = "no" THEN "RW" ELSE "RO"
           i == header_restored(Inactive(k))
<1>1. /\ k \in Kinds /\ Restore(k) /\ host.phase = "on"
      /\ UNCHANGED <<run, retry, flags, limit, usb, host>>
      /\ \/ restoring = "no" /\ restoring' = "second"
         \/ restoring = "second" /\ restoring' = "reboot"
  BY DEF turn_update_on, turn_update_on_second, headers_restored, Kinds, Inv, SessInv
<1>2. run[k] \in Slots
  BY <1>1 DEF Inv, SessInv, QueueInv, Typed, RunTyped
<1>3. /\ Written(k, i) /\ i.blocks = Inactive(k).blocks
      /\ Inactive(k).blocks[1] # ERASED => i.off = FALSE
  BY <1>1, <1>2, RestoreFacts
<1>4. /\ ImagesTyped'
      /\ \A j \in Kinds : Inactive(j)' = IF j = k THEN i ELSE Inactive(j)
  BY <1>1, <1>2, <1>3, WrittenFacts DEF Inv
<1>5. RunInv'
  <2>1. k = "RO" => restoring' = "reboot"
    BY <1>1
  <2> QED BY <1>1, <1>2, <1>3, <2>1, WrittenRun DEF Inv
<1>6. Typed'
  BY <1>1, <1>4 DEF Inv, Typed, RunTyped, FlagsTyped, flags, limit, usb
<1>7. QueueInv'
  BY <1>1 DEF Inv, SessInv, QueueInv, Total, Left, Done, Entry
<1>8. \A j : DoneOf(j)' = DoneOf(j)
  BY <1>1 DEF DoneOf, Done, Total, Left
<1>9. host.kinds \subseteq Kinds /\ host.ver \in Versions /\ AckInv
  BY <1>1 DEF Inv, SessInv, QueueInv, Typed, HostType
<1>10. ASSUME NEW j \in host.kinds
       PROVE  /\ \A b \in 1 .. DoneOf(j) : Inactive(j)'.blocks[b] = host.ver
              /\ DoneOf(j) > 0 => Inactive(j)'.off = Off(j)'
  <2>1. /\ \A b \in 1 .. DoneOf(j) : Inactive(j).blocks[b] = host.ver
        /\ DoneOf(j) > 0 => Inactive(j).off = Off(j)
    BY <1>1, <1>9 DEF AckInv
  <2>2. CASE j = k
    <3>1. Inactive(j)' = i /\ Off(j)' = FALSE
      BY <1>1, <1>4, <2>2 DEF Off
    <3>2. ASSUME DoneOf(j) > 0 PROVE i.off = FALSE
      <4>1. 1 \in 1 .. DoneOf(j)
        BY <1>1, <1>9, <3>2, DoneTypes DEF Inv, SessInv
      <4>2. Inactive(k).blocks[1] \in Versions
        BY <1>9, <2>1, <2>2, <4>1
      <4>3. Inactive(k).blocks[1] # ERASED
        BY <4>2, UpgradeAssumption DEF ERASED
      <4> QED BY <1>3, <4>3
    <3>3. i.blocks = Inactive(j).blocks
      BY <1>3, <2>2
    <3> QED BY <2>1, <3>1, <3>2, <3>3
  <2>3. CASE j # k
    <3>1. Inactive(j)' = Inactive(j)
      BY <1>4, <1>9, <2>3
    <3>2. j = "RW" \/ j = "RO"
      BY <1>9 DEF Kinds
    <3>3. Off(j)' = Off(j)
      BY <1>1, <2>3, <3>2 DEF Off
    <3> QED BY <2>1, <3>1, <3>3
  <2> QED BY <2>2, <2>3
<1>11. AckInv'
  BY <1>1, <1>8, <1>10 DEF AckInv
<1>12. RxInv' /\ (restoring # "no" => host.phase = "on")'
  BY <1>1 DEF RxInv
<1> QED BY <1>5, <1>6, <1>7, <1>11, <1>12 DEF Inv, SessInv

\* Every step keeps it.
LEMMA NextInv == Inv /\ [Next]_vars => Inv'
<1> SUFFICES ASSUME Inv, [Next]_vars PROVE Inv'
  OBVIOUS
<1>1. CASE Next
  BY <1>1, ResetsInv, DamagedInv, TimeInv, HostOpensInv, HostInv, ApBlockInv, UsbInv,
     UsbChunkInv, UsbDoneInv, TurnOnInv DEF Next
<1>2. CASE UNCHANGED vars
  <2>1. UNCHANGED <<images, run, retry, flags, limit, usb, restoring, host>>
    BY <1>2 DEF vars
  <2>2. ImagesTyped' /\ RunTyped' /\ RunInv' /\ \A k \in Kinds : Inactive(k)' = Inactive(k)
    BY <2>1, SameFlash
  <2>3. SessInv'
    BY <2>1, <2>2, SameSession DEF usb
  <2> QED BY <2>1, <2>2, <2>3 DEF Inv, Typed, FlagsTyped, flags, limit, usb
<1> QED BY <1>1, <1>2

\* The invariant says what the properties ask for.
LEMMA InvAcked == Inv => TypeOK /\ AckedIsComplete
<1> SUFFICES ASSUME Inv PROVE TypeOK /\ AckedIsComplete
  OBVIOUS
<1>1. TypeOK
  BY DEF Inv, Typed, ImagesTyped, RunTyped, FlagsTyped, HostType, RxType, TypeOK
<1>2. ASSUME host.phase = "on", restoring = "no", NEW k \in host.kinds, NEW b \in Blocks
      PROVE  images[k][Other(run[k])].blocks[b] = host.ver
  <2>1. DoneOf(k) = NumBlocks
    BY <1>2, DoneTypes DEF Inv, SessInv, QueueInv
  <2>2. b \in 1 .. DoneOf(k)
    BY <2>1, Sizes
  <2> QED BY <1>2, <2>2 DEF Inv, SessInv, AckInv, Inactive
<1> QED BY <1>1, <1>2 DEF AckedIsComplete

\* An update of which every block was acknowledged is complete in flash, for any
\* number of blocks, packets, versions, hosts, losses and resets.
THEOREM AckedUpdatesAreComplete == Spec => [](TypeOK /\ AckedIsComplete)
<1>1. Init => Inv
  BY InitInv
<1>2. Inv /\ [Next]_vars => Inv'
  BY NextInv
<1>3. Inv => TypeOK /\ AckedIsComplete
  BY InvAcked
<1> QED BY <1>1, <1>2, <1>3, PTL DEF Spec

-----------------------------------------------------------------------------
(* The device starts, and starts the update *)

\* What the code relies on: updates after the AP was served, keys that are only
\* replaced by newer ones, and an RW alone only when no later version has another
\* key.  RW_BOOT_MAX_RETRY_COUNT is 5.
ReleaseDiscipline ==
    /\ ~EarlyUpdates
    /\ RW_BOOT_MAX_RETRY_COUNT > 1
    /\ \A v, w \in Versions : v <= w => KeyOf[v] <= KeyOf[w]
    /\ \A v \in RwOnly \cap Versions : \A w \in Versions : v <= w => KeyOf[v] = KeyOf[w]

Safe == run["RW"] # "none" /\ BootInv /\ UpdateInv

\* With an update that is turned on, the RW that does not run is newer, complete and
\* accepted by the RO that the boot ROM will take.
LEMMA UpdateReady ==
    ASSUME ReleaseDiscipline, Inv, Safe, restoring = "reboot"
    PROVE  /\ tryLaunch(images, Other(run["RW"]))
           /\ Version(Inactive("RW")) = host.ver
           /\ Version(Inactive("RW")) > Version(Running("RW"))
<1>1. /\ host.phase = "on" /\ host.queue = <<>> /\ run["RW"] \in Slots
      /\ run["RO"] \in Slots /\ host.ver \in Versions /\ "RW" \in host.kinds
      /\ host.kinds \subseteq Kinds /\ QueueInv /\ Typed
  BY DEF Inv, SessInv, QueueInv, Typed, RunTyped, HostType
<1>2. \A k \in host.kinds : DoneOf(k) = NumBlocks
  BY <1>1, DoneTypes
<1>3. ASSUME NEW k \in host.kinds
      PROVE  /\ Sound(Inactive(k)) /\ Version(Inactive(k)) = host.ver
             /\ host.ver >= Version(Running(k))
  <2>1. /\ \A b \in Blocks : Inactive(k).blocks[b] = host.ver
        /\ Inactive(k).off = FALSE
    BY <1>1, <1>2, Sizes DEF Inv, SessInv, AckInv, Off
  <2>2. Inactive(k).magic /\ host.ver >= Version(Running(k))
    BY <1>1, <1>2, Sizes DEF Safe, UpdateInv
  <2>3. host.ver # ERASED
    BY <1>1, UpgradeAssumption DEF ERASED
  <2>4. Inactive(k).blocks[1] = host.ver
    BY <2>1, Sizes
  <2>5. Sound(Inactive(k))
    BY <2>1, <2>2, <2>3, <2>4 DEF Sound
  <2> QED BY <2>2, <2>3, <2>4, <2>5 DEF Version
<1>4. /\ Running("RO") \in ImageType /\ Running("RO").blocks[1] # JUNK
      /\ Inactive("RO") \in ImageType /\ Inactive("RO").blocks[1] # JUNK
      /\ Running("RW") \in ImageType /\ Running("RW").blocks[1] # JUNK
  BY <1>1 DEF Typed, ImagesTyped, Running, Inactive, Kinds, Other, Slots
<1>5. /\ Sound(Running("RO")) /\ Sound(Running("RW"))
  BY DEF Inv, RunInv, Safe
<1>6. /\ Version(Running("RO")) \in Versions /\ Version(Running("RW")) \in Versions
      /\ Version(Inactive("RO")) \in Nat
      /\ Sound(Inactive("RO")) => Version(Inactive("RO")) \in Versions
  BY <1>4, <1>5, VersionFacts DEF Sound
<1>7. Versions \subseteq Nat /\ KeyOf \in [Versions -> Nat]
  BY UpgradeAssumption
<1>8. Version(Inactive("RW")) = host.ver /\ Version(Inactive("RW")) > Version(Running("RW"))
  <2>1. host.ver >= Version(Running("RW")) /\ host.ver # Version(Running("RW"))
    BY <1>1, <1>3 DEF Safe, UpdateInv
  <2> QED BY <1>1, <1>3, <1>6, <1>7, <2>1
<1>9. /\ Version(images["RO"]["A"]) \in Nat /\ Version(images["RO"]["B"]) \in Nat
  <2>1. CASE run["RO"] = "A"
    BY <1>6, <1>7, <2>1 DEF Running, Inactive, Other
  <2>2. CASE run["RO"] = "B"
    BY <1>6, <1>7, <2>2 DEF Running, Inactive, Other
  <2> QED BY <1>1, <2>1, <2>2 DEF Slots
<1>10. Sound(images["RO"][run["RO"]])
  BY <1>5 DEF Running
<1>11. KeyOf[host.ver] = KeyOf[Version(images["RO"][RoChosen(images)])]
  <2>1. CASE "RO" \in host.kinds
    <3>1. host.ver >= Version(Running("RO")) /\ host.ver # Version(Running("RO"))
      BY <1>1, <1>3, <2>1 DEF Safe, UpdateInv
    <3>2. Sound(Inactive("RO")) /\ Version(Inactive("RO")) = host.ver
      BY <1>3, <2>1
    <3>3. Version(Inactive("RO")) > Version(Running("RO"))
      BY <1>1, <1>6, <1>7, <3>1, <3>2
    <3>4. RoChosen(images) = Other(run["RO"])
      BY <1>1, <1>9, <1>10, <3>2, <3>3, RoTaken DEF Running, Inactive
    <3> QED BY <3>2, <3>4 DEF Inactive
  <2>2. CASE "RO" \notin host.kinds
    <3>1. host.ver \in RwOnly /\ KeyOf[host.ver] = KeyOf[Version(Running("RO"))]
      BY <1>1, <2>2 DEF Safe, UpdateInv
    <3>2. CASE RoChosen(images) = run["RO"]
      BY <3>1, <3>2 DEF Running
    <3>3. CASE RoChosen(images) # run["RO"]
      <4>1. /\ RoChosen(images) = Other(run["RO"])
            /\ Version(Inactive("RO")) >= Version(Running("RO"))
        BY <1>1, <1>9, <1>10, <3>3, RoNewer DEF Running, Inactive
      <4>2. Sound(Inactive("RO"))
        BY <1>1, <1>10, <4>1, RoFacts DEF Inactive
      <4> DEFINE v == host.ver  w == Version(Inactive("RO"))  r == Version(Running("RO"))
      <4>3. v \in Versions /\ w \in Versions /\ r \in Versions /\ r <= w
        BY <1>1, <1>6, <1>7, <4>1, <4>2
      <4>4. KeyOf[v] = KeyOf[r] /\ v \in RwOnly
        BY <3>1
      <4> HIDE DEF v, w, r
      <4>5. KeyOf[v] \in Nat /\ KeyOf[w] \in Nat /\ v \in Nat /\ w \in Nat
        BY <1>7, <4>3
      <4>6. ASSUME v <= w PROVE KeyOf[v] = KeyOf[w]
        BY <4>3, <4>4, <4>6 DEF ReleaseDiscipline
      <4>7. ASSUME w <= v PROVE KeyOf[v] = KeyOf[w]
        <5>1. KeyOf[r] <= KeyOf[w] /\ KeyOf[w] <= KeyOf[v]
          BY <4>3, <4>7 DEF ReleaseDiscipline
        <5> QED BY <4>4, <4>5, <5>1
      <4>8. KeyOf[v] = KeyOf[w]
        BY <4>5, <4>6, <4>7
      <4> QED BY <4>1, <4>8 DEF v, w, Inactive
    <3> QED BY <3>2, <3>3
  <2> QED BY <2>1, <2>2
<1>12. tryLaunch(images, Other(run["RW"]))
  <2>1. Sound(Inactive("RW"))
    BY <1>1, <1>3
  <2> QED BY <1>8, <1>11, <2>1 DEF tryLaunch, Inactive
<1> QED BY <1>8, <1>12

\* The invariant has AlwaysLaunchable in it.
LEMMA Launchable ==
    ASSUME ReleaseDiscipline, Inv, Safe
    PROVE  AlwaysLaunchable
<1>1. /\ Sound(images["RO"][run["RO"]]) /\ run["RO"] \in Slots
      /\ run["RW"] \in Slots /\ Other(run["RW"]) \in Slots
  BY DEF Inv, RunInv, Running, Typed, RunTyped, Safe, Other, Slots
<1>2. CASE restoring = "reboot"
  BY <1>1, <1>2, UpdateReady DEF AlwaysLaunchable
<1>3. CASE restoring # "reboot"
  <2>1. tryLaunch(images, run["RW"])
    BY <1>3 DEF Inv, RunInv, Safe, Running, tryLaunch
  <2> QED BY <1>1, <2>1 DEF AlwaysLaunchable
<1> QED BY <1>2, <1>3

\* When the loader starts different images with and without a retry counter that is
\* too high, the one without is not the older one.
LEMMA LoaderPair ==
    ASSUME NEW img, Version(img["RW"]["A"]) \in Nat, Version(img["RW"]["B"]) \in Nat,
           NEW r, NEW s, r = loader_main(img, FALSE), s = loader_main(img, TRUE), r # s
    PROVE  /\ r \in Slots /\ s = Other(r) /\ r = Other(s)
           /\ Version(img["RW"][r]) >= Version(img["RW"][s])
<1> DEFINE newer == IF Version(img["RW"]["A"]) >= Version(img["RW"]["B"]) THEN "A" ELSE "B"
<1>1. /\ r = IF tryLaunch(img, newer) THEN newer
             ELSE IF tryLaunch(img, Other(newer)) THEN Other(newer) ELSE "none"
      /\ s = IF tryLaunch(img, Other(newer)) THEN Other(newer)
             ELSE IF tryLaunch(img, Other(Other(newer))) THEN Other(Other(newer)) ELSE "none"
  BY DEF loader_main
<1>2. /\ newer \in Slots /\ Other(Other(newer)) = newer
      /\ Version(img["RW"][newer]) >= Version(img["RW"][Other(newer)])
  BY DEF Slots, Other
<1> HIDE DEF newer
<1>3. r = newer /\ s = Other(newer)
  BY <1>1, <1>2
<1> QED BY <1>2, <1>3

\* A reset during which a complete transfer is remembered starts the same images.
LEMMA KeptRun ==
    ASSUME Inv, NEW c \in Nat, NEW hard \in BOOLEAN, NEW hibernate \in BOOLEAN,
           Reset(c, hard, hibernate), host'.phase # "idle"
    PROVE  /\ host' = host /\ host.phase = "on" /\ restoring = "no"
           /\ run'["RW"] = run["RW"] /\ run'["RO"] = run["RO"]
<1>1. host.phase = "on" /\ restoring = "no" /\ host' = host
  BY DEF Reset, HostIdle
<1>2. /\ run'["RO"] = RoChosen(images)
      /\ run'["RW"] = loader_main(images, TooMany(c + 1))
  BY DEF Reset, RwChosen
<1>3. /\ run["RW"] # "none" /\ run["RW"] \in Slots /\ host.queue = <<>>
      /\ "RW" \in host.kinds
  BY <1>1 DEF Inv, SessInv, QueueInv, Typed, RunTyped
<1>4. DoneOf("RW") > 0
  BY <1>1, <1>3, DoneTypes, Sizes DEF Inv, SessInv
<1>5. Inactive("RW").off
  BY <1>1, <1>3, <1>4 DEF Inv, SessInv, AckInv, Off
<1>6. RoChosen(images) = run["RO"]
  BY <1>1 DEF Inv, RunInv
<1>7. tryLaunch(images, run["RW"]) /\ ~tryLaunch(images, Other(run["RW"]))
  BY <1>3, <1>5, <1>6 DEF Inv, RunInv, Running, tryLaunch, Sound, Inactive
<1> QED BY <1>1, <1>2, <1>3, <1>6, <1>7, LoaderFacts

\* What a reset makes of the counter.
LEMMA ResetCount ==
    ASSUME ReleaseDiscipline, Inv, Safe,
           NEW c \in Nat, NEW hard \in BOOLEAN, NEW hibernate \in BOOLEAN,
           Reset(c, hard, hibernate),
           hibernate => c \in {0, 1, RW_BOOT_MAX_RETRY_COUNT + 1}
    PROVE  /\ retry' = IF hibernate THEN c ELSE Capped(c + 1)
           /\ rollback_detected_at_boot' = (retry' = RW_BOOT_MAX_RETRY_COUNT + 1)
           /\ run'["RW"] = RwChosen(images, retry')
           /\ run'["RW"] \in Slots
<1> DEFINE max == RW_BOOT_MAX_RETRY_COUNT
<1>1. max \in Nat /\ max > 1
  BY Sizes DEF ReleaseDiscipline
<1>2. /\ retry' = Capped(BootCount(c + 1, hibernate))
      /\ rollback_detected_at_boot' = TooMany(c + 1)
      /\ run'["RW"] = loader_main(images, TooMany(c + 1))
  BY DEF Reset, RwChosen
<1>4. run'["RW"] \in Slots
  <2>1. \E s \in Slots : tryLaunch(images, s)
    BY Launchable DEF AlwaysLaunchable
  <2> QED BY <1>2, <2>1, LoaderFacts
<1>3. CASE hibernate
  <2>1. BootCount(c + 1, hibernate) = c
    BY <1>3 DEF BootCount, system_decrement_retry_counter
  <2>2. /\ Capped(c) = c /\ TooMany(c + 1) = (c = max + 1)
        /\ TooMany(c) = (c = max + 1)
    BY <1>1, <1>3 DEF Capped, TooMany
  <2>3. retry' = c
    BY <1>2, <2>1, <2>2
  <2>4. RwChosen(images, retry') = loader_main(images, TooMany(c + 1))
    BY <2>2, <2>3 DEF RwChosen
  <2>5. run'["RW"] = RwChosen(images, retry')
    BY <1>2, <2>4
  <2> QED BY <1>2, <1>3, <1>4, <2>2, <2>3, <2>5
<1>5. CASE ~hibernate
  <2>1. BootCount(c + 1, hibernate) = c + 1
    BY <1>5 DEF BootCount
  <2>2. /\ TooMany(c + 1) = (Capped(c + 1) = max + 1)
        /\ TooMany(Capped(c + 1)) = TooMany(c + 1)
    BY <1>1 DEF Capped, TooMany
  <2>3. retry' = Capped(c + 1)
    BY <1>2, <2>1
  <2> QED BY <1>2, <1>4, <1>5, <2>2, <2>3 DEF RwChosen
<1> QED BY <1>3, <1>5

\* A reset keeps Safe if it treats the counter well.
LEMMA ResetSafe ==
    ASSUME ReleaseDiscipline, Inv, Safe,
           NEW c \in Nat, NEW hard \in BOOLEAN, NEW hibernate \in BOOLEAN,
           Reset(c, hard, hibernate),
           hibernate => c \in {0, 1, RW_BOOT_MAX_RETRY_COUNT + 1},
           host.phase = "on" => retry' <= 1,
           Works' => retry' \in {0, 1, RW_BOOT_MAX_RETRY_COUNT + 1},
           retry' > 1 /\ Works' => (Version(Inactive("RW")) > Version(Running("RW")))'
    PROVE  Safe'
<1>1. /\ rollback_detected_at_boot' = (retry' = RW_BOOT_MAX_RETRY_COUNT + 1)
      /\ run'["RW"] = RwChosen(images, retry')
      /\ run'["RW"] \in Slots
  BY ResetCount
<1>2. served' = FALSE /\ images' = images /\ restoring' = "no"
  BY DEF Reset
<1>3. BootInv'
  BY <1>1, <1>2 DEF BootInv
<1>4. UpdateInv'
  <2>1. CASE host'.phase = "idle"
    BY <2>1 DEF UpdateInv
  <2>2. CASE host'.phase # "idle"
    <3>1. /\ host' = host /\ host.phase = "on" /\ restoring = "no"
          /\ run'["RW"] = run["RW"] /\ run'["RO"] = run["RO"]
      BY <2>2, KeptRun
    <3>2. /\ \A k \in Kinds : Running(k)' = Running(k) /\ Inactive(k)' = Inactive(k)
      BY <1>2, <3>1 DEF Running, Inactive, Kinds
    <3>3. \A k : DoneOf(k)' = DoneOf(k)
      BY <3>1 DEF DoneOf, Done, Total, Left
    <3>4. "RW" \in Kinds /\ "RO" \in Kinds /\ host.kinds \subseteq Kinds
      BY DEF Kinds, Inv, Typed, HostType
    <3>5. UpdateInv
      BY DEF Safe
    <3>6. Works' = Works
      BY <3>1, <3>2, <3>4 DEF Works
    <3> QED BY <3>1, <3>2, <3>3, <3>4, <3>5, <3>6 DEF UpdateInv
  <2> QED BY <2>1, <2>2
<1> QED BY <1>1, <1>3, <1>4, Sizes DEF Safe, Slots

\* The four resets treat it well.
LEMMA ResetsSafe ==
    ASSUME ReleaseDiscipline, Inv, Safe, Crash \/ PowerLoss \/ DeepSleep \/ deferred_reboot
    PROVE  Safe'
<1> DEFINE max == RW_BOOT_MAX_RETRY_COUNT
<1>1. /\ max \in Nat /\ max > 1 /\ retry \in Nat /\ retry <= max + 1
      /\ run["RW"] \in Slots /\ BootInv /\ UpdateInv
  BY Sizes DEF ReleaseDiscipline, Inv, Typed, FlagsTyped, RunTyped, Safe
<1>2. ASSUME NEW hard \in BOOLEAN, Reset(0, hard, FALSE) PROVE Safe'
  <2> DEFINE no == FALSE
  <2>1. Reset(0, hard, no) /\ no \in BOOLEAN /\ 0 \in Nat /\ ~no
    BY <1>2
  <2> HIDE DEF no
  <2>2. retry' = Capped(0 + 1)
    BY <2>1, ResetCount
  <2>3. retry' = 1
    BY <1>1, <2>2 DEF Capped, TooMany
  <2>4. retry' <= 1 /\ ~(retry' > 1) /\ retry' \in {0, 1, RW_BOOT_MAX_RETRY_COUNT + 1}
    BY <2>3
  <2> QED BY <2>1, <2>4, ResetSafe
<1>3. CASE PowerLoss
  BY <1>2, <1>3 DEF PowerLoss
<1>4. CASE deferred_reboot
  <2>1. host.phase = "on" /\ Reset(system_decrement_retry_counter(retry), TRUE, FALSE)
    BY <1>4 DEF deferred_reboot, Inv, SessInv
  <2>2. system_decrement_retry_counter(retry) = 0
    BY <1>1, <2>1 DEF UpdateInv, system_decrement_retry_counter
  <2> QED BY <1>2, <2>1, <2>2
<1>5. CASE DeepSleep
  <2>1. Works /\ restoring = "no" /\ Reset(retry, FALSE, TRUE)
    BY <1>5 DEF DeepSleep
  <2>2. retry \in {0, 1, max + 1}
    BY <1>1, <2>1 DEF BootInv
  <2>3. retry' = retry /\ run'["RW"] = RwChosen(images, retry')
    BY <1>1, <2>1, <2>2, ResetCount
  <2>4. host.phase = "on" => retry' <= 1
    BY <1>1, <2>3 DEF UpdateInv
  <2>5. ASSUME retry' > 1 PROVE (Version(Inactive("RW")) > Version(Running("RW")))'
    <3>1. ~served
      BY <1>1, <2>3, <2>5 DEF BootInv
    <3>2. run'["RW"] = run["RW"] /\ images' = images
      BY <1>1, <2>1, <2>3, <3>1 DEF BootInv, Reset
    <3>3. Inactive("RW")' = Inactive("RW") /\ Running("RW")' = Running("RW")
      BY <3>2 DEF Inactive, Running
    <3> QED BY <1>1, <2>1, <2>3, <2>5, <3>3 DEF BootInv
  <2> QED BY <1>1, <2>1, <2>2, <2>3, <2>4, <2>5, ResetSafe
<1>6. CASE Crash
  <2>1. PICK hard \in BOOLEAN : Reset(retry, hard, FALSE)
    BY <1>6 DEF Crash
  <2>2. ~Works /\ ~served /\ host.phase # "on" /\ restoring = "no"
    BY <1>1, <1>6 DEF Crash, BootInv, UpdateInv, Inv, SessInv
  <2>3. /\ retry' = Capped(retry + 1) /\ run'["RW"] = RwChosen(images, retry')
        /\ images' = images /\ run'["RW"] \in Slots
    BY <1>1, <2>1, ResetCount DEF Reset
  <2>4. run["RW"] = RwChosen(images, retry)
    BY <1>1, <2>2 DEF BootInv
  <2>5. ASSUME run'["RW"] = run["RW"] PROVE ~Works'
    BY <2>2, <2>3, <2>5, <1>1 DEF Works, Running, Slots
  <2>6. CASE TooMany(retry) \/ ~TooMany(retry + 1)
    <3>1. TooMany(retry') = TooMany(retry)
      BY <1>1, <2>3, <2>6 DEF TooMany, Capped
    <3>2. run'["RW"] = run["RW"]
      BY <2>3, <2>4, <3>1 DEF RwChosen
    <3> QED BY <1>1, <2>1, <2>2, <2>5, <3>2, ResetSafe
  <2>7. CASE ~TooMany(retry) /\ TooMany(retry + 1)
    <3>1. retry' = max + 1 /\ TooMany(retry') = TRUE /\ TooMany(retry) = FALSE
      BY <1>1, <2>3, <2>7 DEF TooMany, Capped
    <3> DEFINE r == run["RW"]  s == run'["RW"]
    <3>2. r = loader_main(images, FALSE) /\ s = loader_main(images, TRUE)
      BY <2>3, <2>4, <3>1 DEF RwChosen
    <3>3. ASSUME Works' PROVE (Version(Inactive("RW")) > Version(Running("RW")))'
      <4>1. /\ Version(images["RW"]["A"]) \in Nat /\ Version(images["RW"]["B"]) \in Nat
        BY VersionFacts DEF Inv, Typed, ImagesTyped, Kinds, Slots
      <4>2. /\ r \in Slots /\ r = Other(s)
            /\ Version(images["RW"][r]) >= Version(images["RW"][s])
        BY <2>5, <3>2, <3>3, <4>1, LoaderPair
      <4>3. Version(images["RW"][r]) \in Broken /\ Version(images["RW"][s]) \notin Broken
        BY <1>1, <2>2, <2>3, <3>3 DEF Works, Running, Slots
      <4>4. Version(images["RW"][r]) \in Nat /\ Version(images["RW"][s]) \in Nat
        BY <2>3, <4>1, <4>2 DEF Slots
      <4>5. Version(images["RW"][r]) > Version(images["RW"][s])
        BY <4>2, <4>3, <4>4
      <4> QED BY <2>3, <4>2, <4>5 DEF Inactive, Running
    <3> QED BY <1>1, <2>1, <2>2, <3>1, <3>3, ResetSafe
  <2> QED BY <2>6, <2>7
<1> QED BY <1>3, <1>4, <1>5, <1>6

\* Once the AP is served, only a reset changes what BootInv says.
LEMMA ServedBoot ==
    ASSUME BootInv, served, UNCHANGED <<run, flags>>,
           Running("RW")' = Running("RW"), retry' = 0
    PROVE  BootInv' /\ Works'
<1>1. Works /\ (rollback_detected_at_boot => header_corrupted)
  BY DEF BootInv
<1>2. Works'
  BY <1>1 DEF Works
<1>3. served' /\ (rollback_detected_at_boot' => header_corrupted') /\ ~(retry' > 1)
  BY <1>1 DEF flags
<1> QED BY <1>2, <1>3 DEF BootInv

\* A transfer that goes on with the same blocks.
LEMMA SameUpdate ==
    ASSUME UpdateInv, host.phase # "idle", host.kinds \subseteq Kinds,
           host'.kinds = host.kinds, host'.ver = host.ver, host'.queue = host.queue,
           \A k \in Kinds : Running(k)' = Running(k) /\ Inactive(k)'.magic = Inactive(k).magic,
           host'.phase # "on" => served',
           host'.phase = "on" => Works' /\ retry' <= 1
    PROVE  UpdateInv'
<1>1. \A k : DoneOf(k)' = DoneOf(k)
  BY DEF DoneOf, Done, Total, Left
<1>2. "RW" \in Kinds /\ "RO" \in Kinds
  BY DEF Kinds
<1> QED BY <1>1, <1>2 DEF UpdateInv

\* The steps of a transfer that program nothing.
LEMMA PacketSafe ==
    ASSUME Inv, Safe, host.phase \in {"start", "block", "chunks"},
           UNCHANGED <<images, run, flags>>, retry' = retry \/ retry' = 0,
           \/ host' = HostIdle
           \/ /\ host'.kinds = host.kinds /\ host'.ver = host.ver
              /\ host'.queue = host.queue
    PROVE  Safe'
<1>1. served /\ BootInv /\ UpdateInv /\ run["RW"] # "none" /\ host.kinds \subseteq Kinds
  BY DEF Safe, UpdateInv, Inv, Typed, HostType
<1>2. retry' = 0
  BY <1>1 DEF BootInv
<1>3. \A k \in Kinds : Running(k)' = Running(k) /\ Inactive(k)' = Inactive(k)
  BY DEF Running, Inactive
<1>4. BootInv' /\ Works'
  BY <1>1, <1>2, <1>3, ServedBoot DEF Kinds
<1>5. UpdateInv'
  <2>1. CASE host' = HostIdle
    BY <2>1 DEF UpdateInv, HostIdle
  <2>2. CASE /\ host'.kinds = host.kinds /\ host'.ver = host.ver
             /\ host'.queue = host.queue
    <3>1. served' /\ retry' <= 1
      BY <1>1, <1>2 DEF flags
    <3> QED BY <1>1, <1>3, <1>4, <2>2, <3>1, SameUpdate
  <2> QED BY <2>1, <2>2
<1> QED BY <1>1, <1>4, <1>5 DEF Safe

\* The steps of a transfer, and what time does.
LEMMA TransferSafe ==
    ASSUME Inv, Safe,
           \/ BackoffOver \/ Silence \/ HostGivesUp \/ PacketLost \/ HostRestartsBlock
           \/ ap_start \/ usb_start \/ usb_header \/ usb_done
    PROVE  Safe'
<1>0. host \in HostType
  BY DEF Inv, Typed
<1>1. ASSUME NEW ph, NEW n, GoOn(ph, n)
      PROVE  /\ host'.kinds = host.kinds /\ host'.ver = host.ver
             /\ host'.queue = host.queue
  BY <1>0, <1>1 DEF GoOn, HostType
<1>2. CASE BackoffOver \/ Silence
  <2>1. UNCHANGED <<images, run, retry, flags, restoring, host>>
    BY <1>2 DEF BackoffOver, Silence
  <2>2. BootInv'
    BY <2>1 DEF Safe, BootInv, Works, Inactive, Running, flags
  <2>3. UpdateInv'
    BY <2>1 DEF Safe, UpdateInv, Works, Inactive, Running, flags, DoneOf, Done, Total, Left
  <2> QED BY <2>1, <2>2, <2>3 DEF Safe
<1>3. CASE HostGivesUp
  BY <1>3, PacketSafe DEF HostGivesUp
<1>4. CASE PacketLost
  <2>1. /\ UNCHANGED <<images, run, retry, flags>> /\ host.phase \in {"block", "chunks"}
        /\ \E ph, n : GoOn(ph, n)
    BY <1>4 DEF PacketLost
  <2> QED BY <1>1, <2>1, PacketSafe
<1>5. CASE HostRestartsBlock
  BY <1>1, <1>5, PacketSafe DEF HostRestartsBlock
<1>6. CASE ap_start
  <2>1. /\ host'.kinds = host.kinds /\ host'.ver = host.ver
        /\ host'.queue = host.queue
    BY <1>0, <1>6 DEF ap_start, HostType
  <2> QED BY <1>6, <2>1, PacketSafe DEF ap_start
<1>7. CASE usb_start
  <2>1. /\ UNCHANGED <<images, run, retry, flags>> /\ host.phase = "start"
        /\ host' = HostIdle \/ \E ph, n : GoOn(ph, n)
    BY <1>7 DEF usb_start, Via
  <2> QED BY <1>1, <2>1, PacketSafe
<1>8. CASE usb_header
  <2>1. /\ UNCHANGED <<images, run, retry, flags>> /\ host.phase = "block"
        /\ host' = HostIdle \/ \E ph, n : GoOn(ph, n)
    BY <1>8 DEF usb_header, Via
  <2> QED BY <1>1, <2>1, PacketSafe
<1>9. CASE usb_done
  <2>1. /\ UNCHANGED <<images, run, flags>> /\ host.phase = "block"
        /\ retry' = retry \/ retry' = 0
        /\ host' = HostIdle \/ \E ph, n : GoOn(ph, n)
    BY <1>9 DEF usb_done, Via, system_clear_retry_counter
  <2> QED BY <1>1, <2>1, PacketSafe
<1> QED BY <1>2, <1>3, <1>4, <1>5, <1>6, <1>7, <1>8, <1>9

\* A host comes after the AP was served.
LEMMA HostOpensSafe ==
    ASSUME ReleaseDiscipline, Inv, Safe, HostOpens
    PROVE  Safe'
<1>1. /\ UNCHANGED <<images, run, retry, flags, restoring>> /\ served
  BY DEF HostOpens, ReleaseDiscipline
<1>2. PICK r \in Releases, via \in {"usb", "ap"} :
         host' = [phase |-> "start", via |-> via, ver |-> r.ver,
                  kinds |-> r.kinds, queue |-> r.queue, sent |-> 0]
  BY DEF HostOpens
<1>3. /\ host'.phase = "start" /\ host'.ver = r.ver /\ host'.kinds = r.kinds
  BY <1>2
<1>4. /\ r.ver # Version(Running("RW"))
      /\ "RO" \in r.kinds => r.ver # Version(Running("RO"))
      /\ "RO" \notin r.kinds =>
            r.ver \in RwOnly /\ KeyOf[r.ver] = KeyOf[Version(Running("RO"))]
  BY ReleaseFacts
<1>5. Inv'
  BY HostOpensInv
<1>6. Done' = 0
  BY <1>3, <1>5 DEF Inv, SessInv, QueueInv
<1>7. \A k : ~(DoneOf(k)' > 0)
  BY <1>6, Sizes DEF DoneOf
<1>8. Running("RO")' = Running("RO") /\ Running("RW")' = Running("RW")
  BY <1>1 DEF Running
<1>9. UpdateInv'
  BY <1>1, <1>3, <1>4, <1>7, <1>8 DEF UpdateInv, flags
<1>10. BootInv'
  BY <1>1 DEF Safe, BootInv, Works, Inactive, Running, flags
<1> QED BY <1>1, <1>9, <1>10 DEF Safe

\* A block is handled: the header comes first, and is not older.
LEMMA BlockSafe ==
    ASSUME Inv, Safe, host.phase \in {"block", "chunks"}, host.queue # <<>>,
           NEW q, q = Head(host.queue), NEW intact \in BOOLEAN,
           fw_upgrade_command_handler(q.kind, q.b, q.ver, intact),
           Replied(Success(q.kind, q.b, q.ver, intact)),
           UNCHANGED <<run, retry, flags>>
    PROVE  Safe'
<1>0. /\ Typed /\ QueueInv /\ BootInv /\ UpdateInv /\ run["RW"] # "none" /\ served
      /\ host \in HostType /\ host.kinds \subseteq Kinds
  BY DEF Inv, SessInv, Safe, UpdateInv, Typed, HostType
<1>1. /\ q.kind \in Kinds /\ q.kind \in host.kinds /\ q.b \in Blocks
      /\ q.ver \in Versions /\ run[q.kind] \in Slots
      /\ q.ver = host.ver /\ q.b = DoneOf(q.kind) + 1
  BY <1>0, HeadFacts
<1>2. DoneOf(q.kind) \in 0 .. NumBlocks
  BY <1>0, <1>1, DoneTypes
<1>3. PICK i :
        /\ Written(q.kind, i)
        /\ Success(q.kind, q.b, q.ver, intact) =>
              /\ q.b = 1 => i.magic /\ q.ver >= Version(Running(q.kind))
              /\ q.b # 1 => i.magic = Inactive(q.kind).magic
  BY <1>0, <1>1, Handler
<1>4. /\ Running("RO")' = Running("RO") /\ Running("RW")' = Running("RW")
      /\ \A j \in Kinds : Inactive(j)' = IF j = q.kind THEN i ELSE Inactive(j)
  BY <1>0, <1>1, <1>3, WrittenFacts
<1>5. \A k \in Kinds : Running(k)' = Running(k)
  BY <1>4 DEF Kinds
<1>6. retry' = 0
  BY <1>0 DEF BootInv
<1>7. BootInv' /\ Works'
  BY <1>0, <1>4, <1>6, ServedBoot
<1>8. CASE ~Success(q.kind, q.b, q.ver, intact)
  <2>1. host'.phase = "idle"
    BY <1>8 DEF Replied, HostIdle
  <2>2. UpdateInv'
    BY <2>1 DEF UpdateInv
  <2> QED BY <1>0, <1>7, <2>2 DEF Safe
<1>9. CASE Success(q.kind, q.b, q.ver, intact)
  <2>1. /\ host'.queue = Tail(host.queue) /\ host'.kinds = host.kinds
        /\ host'.ver = host.ver
    BY <1>0, <1>9 DEF Replied, HostType
  <2>2. \A k \in Kinds : DoneOf(k)' = IF k = q.kind THEN q.b ELSE DoneOf(k)
    BY <1>0, <2>1, Popped
  <2>3. ASSUME NEW k \in host.kinds, DoneOf(k)' > 0
        PROVE  Inactive(k)'.magic /\ host.ver >= Version(Running(k))
    <3>0. k \in Kinds
      BY <1>0
    <3>1. CASE k = q.kind
      <4>1. Inactive(k)' = i
        BY <1>4, <3>0, <3>1
      <4>2. CASE q.b = 1
        BY <1>1, <1>3, <1>9, <3>1, <4>1, <4>2
      <4>3. CASE q.b # 1
        <5>1. DoneOf(k) > 0
          BY <1>1, <1>2, <3>1, <4>3, Sizes
        <5>2. Inactive(k).magic /\ host.ver >= Version(Running(k))
          BY <1>0, <5>1 DEF UpdateInv
        <5> QED BY <1>3, <1>9, <3>1, <4>1, <4>3, <5>2
      <4> QED BY <4>2, <4>3
    <3>2. CASE k # q.kind
      <4>1. DoneOf(k) > 0 /\ Inactive(k)' = Inactive(k)
        BY <1>4, <2>2, <2>3, <3>0, <3>2
      <4> QED BY <1>0, <4>1 DEF UpdateInv
    <3> QED BY <3>1, <3>2
  <2>4. /\ Version(Running("RW")) # host.ver
        /\ "RO" \in host.kinds => Version(Running("RO")) # host.ver
        /\ "RO" \notin host.kinds =>
              host.ver \in RwOnly /\ KeyOf[host.ver] = KeyOf[Version(Running("RO"))]
    BY <1>0 DEF UpdateInv
  <2>5. served' /\ retry' <= 1
    BY <1>0, <1>6 DEF flags
  <2>6. UpdateInv'
    BY <1>0, <1>4, <1>5, <1>7, <2>1, <2>3, <2>4, <2>5 DEF UpdateInv
  <2> QED BY <1>0, <1>7, <2>6 DEF Safe
<1> QED BY <1>8, <1>9

\* Blocks from the AP and packets of data over USB.
LEMMA BlocksSafe ==
    ASSUME Inv, Safe, ap_block \/ usb_chunk
    PROVE  Safe'
<1>1. CASE ap_block
  <2> DEFINE q == Head(host.queue)
  <2>1. /\ host.phase = "block" /\ host.via = "ap"
        /\ fw_upgrade_command_handler(q.kind, q.b, q.ver, TRUE)
        /\ Replied(Success(q.kind, q.b, q.ver, TRUE))
        /\ UNCHANGED <<run, retry, flags>>
    BY <1>1 DEF ap_block
  <2>2. host.queue # <<>>
    BY <2>1 DEF Inv, SessInv, QueueInv
  <2> HIDE DEF q
  <2>3. q = Head(host.queue)
    BY DEF q
  <2> QED BY <2>1, <2>2, <2>3, BlockSafe
<1>2. CASE usb_chunk
  <2> DEFINE next == [Rx EXCEPT !.pieces = Append(@, host.sent + 1), !.left = @ - 1]
             q == next.block
  <2>1. Rx \in RxType
    BY RxTypes
  <2>2. /\ UNCHANGED <<run, retry, flags>> /\ host.phase = "chunks" /\ host.via = "usb"
    BY <1>2 DEF usb_chunk, Via
  <2>3. host.queue # <<>> /\ (Rx.state = "inside" => Rx.block = Head(host.queue))
    BY <2>2 DEF Inv, SessInv, QueueInv, RxInv
  <2>4. next.block = Rx.block
    BY <2>1 DEF RxType
  <2>5. CASE host' = HostIdle /\ UNCHANGED images
    BY <2>2, <2>5, PacketSafe
  <2>6. CASE GoOn("chunks", host.sent + 1) /\ UNCHANGED images
    <3>1. /\ host'.kinds = host.kinds /\ host'.ver = host.ver
          /\ host'.queue = host.queue
      BY <2>6 DEF GoOn, Inv, Typed, HostType
    <3> QED BY <2>2, <2>6, <3>1, PacketSafe
  <2>7. CASE /\ Rx.state = "inside"
             /\ fw_upgrade_command_handler(q.kind, q.b, q.ver, Intact(next))
             /\ Replied(Success(q.kind, q.b, q.ver, Intact(next)))
    <3>1. Intact(next) \in BOOLEAN
      BY DEF Intact
    <3>2. q = Head(host.queue)
      BY <2>3, <2>4, <2>7
    <3> HIDE DEF q, next
    <3> QED BY <2>2, <2>3, <2>7, <3>1, <3>2, BlockSafe
  <2> QED BY <1>2, <2>5, <2>6, <2>7 DEF usb_chunk
<1> QED BY <1>1, <1>2

\* The header that is damaged is never the one of an update.
LEMMA DamagedSafe ==
    ASSUME ReleaseDiscipline, Inv, Safe, system_process_retry_counter \/ vc_invalidate_inactive_rw
    PROVE  Safe'
<1> DEFINE o == Other(run["RW"])
           bad == [Inactive("RW") EXCEPT !.magic = FALSE]
<1>0. /\ Works /\ UNCHANGED <<run, host, restoring, rollback_detected_at_boot>>
      /\ BootInv /\ UpdateInv /\ run["RW"] # "none" /\ run["RW"] \in Slots
      /\ "RW" \in Kinds /\ o \in Slots /\ host.kinds \subseteq Kinds
  BY DEF system_process_retry_counter, vc_invalidate_inactive_rw, flags, Safe,
     Inv, Typed, RunTyped, HostType, Kinds, Other, Slots
<1>1. Inactive("RW") \in ImageType /\ Inactive("RW").blocks[1] # JUNK
  BY <1>0 DEF Inv, Typed, ImagesTyped, Inactive
<1>2. bad \in ImageType /\ bad.blocks = Inactive("RW").blocks
  BY <1>1 DEF ImageType
<1>3. ASSUME images' = [images EXCEPT !["RW"][o].magic = FALSE]
      PROVE  /\ \A k \in Kinds : Running(k)' = Running(k)
             /\ \A k \in Kinds : k # "RW" => Inactive(k)' = Inactive(k)
  <2>1. images' = [images EXCEPT !["RW"][o] = [images["RW"][o] EXCEPT !.magic = FALSE]]
    BY <1>3
  <2>2. images' = [images EXCEPT !["RW"][o] = bad]
    BY <2>1 DEF Inactive
  <2>3. Written("RW", bad)
    BY <1>1, <1>2, <2>2 DEF Written
  <2> HIDE DEF bad
  <2>4. /\ Running("RO")' = Running("RO") /\ Running("RW")' = Running("RW")
        /\ \A j \in Kinds : Inactive(j)' = IF j = "RW" THEN bad ELSE Inactive(j)
    BY <1>0, <2>3, WrittenFacts DEF Inv
  <2> QED BY <2>4 DEF Kinds
<1> HIDE DEF bad, o
<1>4. ASSUME images' = images
      PROVE  \A k \in Kinds : Running(k)' = Running(k) /\ Inactive(k)' = Inactive(k)
  BY <1>0, <1>4 DEF Running, Inactive
<1>5. \A k : DoneOf(k)' = DoneOf(k)
  BY <1>0 DEF DoneOf, Done, Total, Left
<1>6. CASE vc_invalidate_inactive_rw
  <2>1. /\ served /\ restoring = "no" /\ Inactive("RW").off # TRUE
        /\ images' = [images EXCEPT !["RW"][o].magic = FALSE] /\ UNCHANGED <<retry, flags>>
    <3>1. /\ served /\ restoring = "no" /\ Disablable(Inactive("RW"))
          /\ images' = [images EXCEPT !["RW"][o].magic = FALSE] /\ UNCHANGED <<retry, flags>>
      BY <1>6 DEF vc_invalidate_inactive_rw, Inactive, o
    <3>2. ~Inactive("RW").off
      BY <3>1 DEF Disablable
    <3> QED BY <3>1, <3>2
  <2>2. Running("RW")' = Running("RW")
    BY <1>0, <1>3, <2>1
  <2>3. BootInv' /\ Works'
    BY <1>0, <2>1, <2>2, ServedBoot DEF BootInv
  <2>4. ASSUME host.phase # "idle", NEW k \in host.kinds, DoneOf(k) > 0
        PROVE  Inactive(k)'.magic /\ host.ver >= Version(Running(k))'
    <3>1. Inactive(k).off = TRUE
      BY <2>1, <2>4 DEF Inv, SessInv, AckInv, Off
    <3>2. k # "RW" /\ k \in Kinds
      BY <1>0, <2>1, <3>1
    <3> QED BY <1>0, <1>3, <2>1, <2>4, <3>2 DEF UpdateInv
  <2>5. served' /\ (host.phase = "on" => retry' <= 1)
    BY <1>0, <2>1 DEF UpdateInv, flags
  <2>6. Running("RO")' = Running("RO")
    BY <1>3, <2>1 DEF Kinds
  <2>7. UpdateInv'
    BY <1>0, <1>5, <2>2, <2>3, <2>4, <2>5, <2>6 DEF UpdateInv
  <2> QED BY <1>0, <2>3, <2>7 DEF Safe
<1>7. CASE system_process_retry_counter
  <2> DEFINE newer == Version(Inactive("RW")) > Version(Running("RW"))
             corrupt == rollback_detected_at_boot /\ newer /\ ~header_corrupted
  <2>1. /\ retry' = 0 /\ served' = TRUE
        /\ header_corrupted' = (header_corrupted \/ corrupt)
        /\ images' = IF corrupt THEN [images EXCEPT !["RW"][o].magic = FALSE] ELSE images
    BY <1>7 DEF system_process_retry_counter, system_clear_retry_counter, Inactive, o
  <2>2. \A k \in Kinds : Running(k)' = Running(k)
    BY <1>3, <1>4, <2>1
  <2>3. Works'
    BY <1>0, <2>2 DEF Works
  <2>4. rollback_detected_at_boot => header_corrupted \/ newer
    BY <1>0, Sizes DEF BootInv
  <2>a. rollback_detected_at_boot' => header_corrupted'
    <3> HIDE DEF newer
    <3> QED BY <1>0, <2>1, <2>4
  <2>b. served' /\ retry' = 0 /\ ~(retry' > 1)
    BY <2>1
  <2>5. BootInv'
    BY <2>3, <2>a, <2>b DEF BootInv
  <2>6. ASSUME host.phase # "idle" PROVE images' = images
    <3>1. rollback_detected_at_boot => header_corrupted
      <4>1. CASE served
        BY <1>0, <4>1 DEF BootInv
      <4>2. CASE ~served
        <5>1. retry <= 1
          BY <1>0, <2>6, <4>2 DEF UpdateInv
        <5>2. retry # RW_BOOT_MAX_RETRY_COUNT + 1
          BY <5>1, Sizes DEF ReleaseDiscipline
        <5> QED BY <1>0, <4>2, <5>2 DEF BootInv
      <4> QED BY <4>1, <4>2
    <3> QED BY <2>1, <3>1
  <2>7. CASE host.phase = "idle"
    <3>1. UpdateInv'
      BY <1>0, <2>7 DEF UpdateInv
    <3> QED BY <1>0, <2>5, <3>1 DEF Safe
  <2>8. CASE host.phase # "idle"
    <3>1. \A k \in Kinds : Running(k)' = Running(k) /\ Inactive(k)' = Inactive(k)
      BY <1>4, <2>6, <2>8
    <3>2. served' /\ retry' <= 1
      BY <2>1
    <3>3. UpdateInv'
      BY <1>0, <2>3, <2>8, <3>1, <3>2, SameUpdate
    <3> QED BY <1>0, <2>5, <3>3 DEF Safe
  <2> QED BY <2>7, <2>8
<1> QED BY <1>6, <1>7

\* Turning the update on changes nothing that Safe is about.
LEMMA TurnOnSafe ==
    ASSUME Inv, Safe, turn_update_on \/ turn_update_on_second
    PROVE  Safe'
<1> DEFINE k == IF restoring = "no" THEN "RW" ELSE "RO"
           i == header_restored(Inactive(k))
<1>1. /\ k \in Kinds /\ Restore(k) /\ host.phase = "on" /\ restoring' # "no"
      /\ UNCHANGED <<run, retry, flags, host>>
  BY DEF turn_update_on, turn_update_on_second, headers_restored, Kinds, Inv, SessInv
<1>2. /\ BootInv /\ UpdateInv /\ Works /\ retry <= 1 /\ retry \in Nat
      /\ run["RW"] # "none" /\ host.kinds \subseteq Kinds
  BY <1>1, Sizes DEF Safe, UpdateInv, Inv, Typed, HostType, FlagsTyped
<1>3. run[k] \in Slots
  BY <1>2 DEF Inv, Typed, RunTyped
<1>4. Written(k, i) /\ i.magic = Inactive(k).magic
  BY <1>1, <1>3, RestoreFacts
<1> HIDE DEF i
<1>5. /\ Running("RO")' = Running("RO") /\ Running("RW")' = Running("RW")
      /\ \A j \in Kinds : Inactive(j)' = IF j = k THEN i ELSE Inactive(j)
  BY <1>1, <1>2, <1>3, <1>4, WrittenFacts DEF Inv
<1>6. \A j \in Kinds : Running(j)' = Running(j) /\ Inactive(j)'.magic = Inactive(j).magic
  BY <1>4, <1>5 DEF Kinds
<1>7. Works'
  BY <1>1, <1>2, <1>5 DEF Works
<1>8. retry' <= 1 /\ ~(retry' > 1)
  BY <1>1, <1>2
<1>9. UpdateInv'
  BY <1>1, <1>2, <1>6, <1>7, <1>8, SameUpdate
<1>10. BootInv'
  BY <1>1, <1>2, <1>7, <1>8 DEF BootInv, flags
<1> QED BY <1>1, <1>2, <1>9, <1>10 DEF Safe

\* It holds at the start.
LEMMA InitSafe == Init => Safe
<1> SUFFICES ASSUME Init PROVE Safe
  OBVIOUS
<1>1. Inv
  BY InitInv
<1>2. /\ run["RW"] = "A" /\ run["RO"] = "A" /\ retry = 1 /\ served = FALSE /\ host.phase = "idle"
      /\ rollback_detected_at_boot = FALSE /\ restoring = "no"
  BY DEF Init, HostIdle, Kinds
<1>3. PICK b \in {Image(1, FALSE), ErasedImage} :
         images = [k \in Kinds |-> [s \in Slots |-> IF s = "A" THEN Image(1, FALSE) ELSE b]]
  BY DEF Init
<1>4. images["RW"]["A"] = Image(1, FALSE) /\ images["RW"]["B"] = b
  BY <1>3 DEF Slots, Kinds
<1>5. tryLaunch(images, "A")
  BY <1>1, <1>2 DEF Inv, RunInv, Running, tryLaunch
<1>6. Version(images["RW"]["A"]) \in Nat
  BY <1>1, VersionFacts DEF Inv, Typed, ImagesTyped, Kinds, Slots
<1>7. loader_main(images, FALSE) = "A"
  <2>1. CASE b = Image(1, FALSE)
    <3>1. images["RW"]["A"] = images["RW"]["B"]
      BY <1>4, <2>1
    <3>2. Version(images["RW"]["A"]) >= Version(images["RW"]["B"])
      BY <1>6, <3>1
    <3> QED BY <1>5, <3>2 DEF loader_main
  <2>2. CASE b = ErasedImage
    <3>1. b.off = TRUE
      BY <2>2 DEF ErasedImage, Image
    <3>2. ~tryLaunch(images, Other("A"))
      BY <1>4, <3>1 DEF tryLaunch, Sound, Other
    <3> DEFINE no == FALSE
    <3>3. "A" \in Slots
      BY DEF Slots
    <3>4. loader_main(images, no) = "A"
      <4> HIDE DEF no
      <4> QED BY <1>5, <3>2, <3>3, LoaderFacts
    <3> QED BY <3>4
  <2> QED BY <1>3, <2>1, <2>2
<1>8. RwChosen(images, retry) = "A"
  <2>1. TooMany(retry) = FALSE
    BY <1>2, Sizes DEF TooMany
  <2> QED BY <1>7, <2>1 DEF RwChosen
<1>9. BootInv
  BY <1>2, <1>8 DEF BootInv
<1>10. UpdateInv
  BY <1>2 DEF UpdateInv
<1> QED BY <1>2, <1>9, <1>10 DEF Safe

\* Every step keeps it.
LEMMA NextSafe ==
    ASSUME ReleaseDiscipline
    PROVE  Inv /\ Safe /\ [Next]_vars => Safe'
<1> SUFFICES ASSUME Inv, Safe, [Next]_vars PROVE Safe'
  OBVIOUS
<1>1. CASE Next
  BY <1>1, ResetsSafe, DamagedSafe, TransferSafe, HostOpensSafe, BlocksSafe, TurnOnSafe
     DEF Next
<1>2. CASE UNCHANGED vars
  <2>1. UNCHANGED <<images, run, retry, flags, restoring, host>>
    BY <1>2 DEF vars
  <2>2. BootInv'
    BY <2>1 DEF Safe, BootInv, Works, Inactive, Running, flags
  <2>3. UpdateInv'
    BY <2>1 DEF Safe, UpdateInv, Works, Inactive, Running, flags, DoneOf, Done, Total, Left
  <2> QED BY <2>1, <2>2, <2>3 DEF Safe
<1> QED BY <1>1, <1>2

\* The reboot that was asked for starts the update.
LEMMA RebootTakesUpdate ==
    ASSUME ReleaseDiscipline, Inv, Safe, deferred_reboot
    PROVE  run'["RW"] # "none" /\ Version(images["RW"][run'["RW"]]) = host.ver
<1>1. restoring = "reboot" /\ host.phase = "on"
  BY DEF deferred_reboot, Inv, SessInv
<1>2. /\ tryLaunch(images, Other(run["RW"]))
      /\ Version(Inactive("RW")) = host.ver
      /\ Version(Inactive("RW")) > Version(Running("RW"))
  BY <1>1, UpdateReady
<1>3. system_decrement_retry_counter(retry) = 0
  BY <1>1, Sizes DEF Safe, UpdateInv, system_decrement_retry_counter, Inv, Typed, FlagsTyped
<1>4. TooMany(0 + 1) = FALSE
  BY Sizes DEF TooMany
<1>5. run'["RW"] = loader_main(images, FALSE)
  BY <1>3, <1>4 DEF deferred_reboot, Reset, RwChosen
<1>6. run["RW"] \in Slots
  BY DEF Safe, Inv, Typed, RunTyped
<1>7. /\ Version(images["RW"]["A"]) \in Nat /\ Version(images["RW"]["B"]) \in Nat
  BY VersionFacts DEF Inv, Typed, ImagesTyped, Kinds, Slots
<1>8. loader_main(images, FALSE) = Other(run["RW"])
  <2>1. CASE run["RW"] = "A"
    <3>1. ~(Version(images["RW"]["A"]) >= Version(images["RW"]["B"]))
      BY <1>2, <1>7, <2>1 DEF Inactive, Running, Other
    <3> QED BY <1>2, <2>1, <3>1 DEF loader_main, Other
  <2>2. CASE run["RW"] = "B"
    <3>1. Version(images["RW"]["A"]) >= Version(images["RW"]["B"])
      BY <1>2, <1>7, <2>2 DEF Inactive, Running, Other
    <3> QED BY <1>2, <2>2, <3>1 DEF loader_main, Other
  <2> QED BY <1>6, <2>1, <2>2 DEF Slots
<1> QED BY <1>2, <1>5, <1>6, <1>8 DEF Inactive, Other, Slots

\* Wherever power is lost, the device starts.
THEOREM DeviceAlwaysStarts ==
    ASSUME ReleaseDiscipline
    PROVE  Spec => []AlwaysLaunchable
<1>1. Init => Inv /\ Safe
  BY InitInv, InitSafe
<1>2. Inv /\ Safe /\ [Next]_vars => Inv' /\ Safe'
  BY NextInv, NextSafe
<1>3. Inv /\ Safe => AlwaysLaunchable
  BY Launchable
<1> QED BY <1>1, <1>2, <1>3, PTL DEF Spec

\* The reboot of turn_update_on() starts the version that was sent.
THEOREM UpdatesTakeEffect ==
    ASSUME ReleaseDiscipline
    PROVE  Spec => UpdateTakesEffect
<1>1. Init => Inv /\ Safe
  BY InitInv, InitSafe
<1>2. Inv /\ Safe /\ [Next]_vars => Inv' /\ Safe'
  BY NextInv, NextSafe
<1>3. Inv /\ Safe /\ [Next]_vars =>
        [deferred_reboot =>
            /\ run'["RW"] # "none"
            /\ Version(images["RW"][run'["RW"]]) = host.ver]_vars
  BY RebootTakesUpdate
<1> QED BY <1>1, <1>2, <1>3, PTL DEF Spec, UpdateTakesEffect

=============================================================================
