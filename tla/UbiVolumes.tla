----------------------------- MODULE UbiVolumes -----------------------------
(***************************************************************************)
(* Volumes of a UBI device: the volume table and its two copies on flash   *)
(* (vtbl.c), creating, removing and re-sizing volumes (vmt.c, cmd_ubi.c),  *)
(* the update of a volume under its update marker (upd.c), the reservation *)
(* counters (vtbl.c, eba.c, wl.c, vmt.c) and attaching (build.c).          *)
(*                                                                         *)
(* A command is a sequence of flash operations on LEBs, one per step, with *)
(* RAM changes before, between and after them.  An operation succeeds,     *)
(* fails and sends the command down its error path, or is cut by a power   *)
(* loss.  The LEB operations themselves (which PEB, retries, moves) are    *)
(* UbiEba's; here an unmap is an erasure, as works run at once in U-Boot,  *)
(* and a write leaves the LEB unmapped, torn or written.                   *)
(*                                                                         *)
(* Sizes are counted in LEBs.  The data of an update is <<v, n, t>>: image *)
(* number v, of n LEBs, for a volume of type t; v = 0 stands for torn data *)
(* under a good VID header (n and t are fields of that header).            *)
(***************************************************************************)
EXTENDS Integers, Sequences, FiniteSets, FiniteSetsExt, Functions, SequencesExt

CONSTANTS VtblSlots,   \* ubi->vtbl_slots
          Name,        \* names of volumes
          Type,        \* subset of {"dynamic", "static"}
          MaxLebs,     \* bound: LEBs of a volume
          PebCount,    \* ubi->peb_count
          Factory,     \* the volume tables a flash may be delivered with
          UpdSizes,    \* numbers of LEBs a "ubi write" may carry
          Faults,      \* what may go wrong or be asked for, see below
          MaxErr,      \* bound: failing operations
          MaxCuts,     \* bound: power cuts
          MaxImages,   \* bound: updates
          NoName,      \* the name field of an empty record
          Absent,      \* no PEB holds this copy of the table
          TornTable,   \* a copy of the table whose CRC does not match
          Damaged      \* the data of a volume under its update marker

(***************************************************************************)
(* Faults: "ro" an operation fails and the device turns read-only, "nomem" *)
(* a write fails before it touches the flash (no memory, no free PEB) and  *)
(* the device stays writable, "bad" an erased PEB goes bad, "blank" the    *)
(* device may be delivered without any UBI data, "resize" somebody (Linux, *)
(* as no U-Boot command does) re-sizes a volume with this code.            *)
(***************************************************************************)
ASSUME VolumesAssumption ==
  /\ VtblSlots \in Nat \ {0} /\ MaxLebs \in Nat \ {0} /\ PebCount \in Nat
  /\ Type \subseteq {"dynamic", "static"}
  /\ UpdSizes \subseteq 0 .. MaxLebs
  /\ Faults \subseteq {"ro", "nomem", "bad", "blank", "resize"}
  /\ NoName \notin Name
  /\ PebCount <= MaxLebs + 6      \* no volume grows beyond MaxLebs

Slot == 0 .. VtblSlots - 1
Lnum == 0 .. MaxLebs - 1
LayoutEbs == 2          \* UBI_LAYOUT_VOLUME_EBS
EbaReserved == 1        \* EBA_RESERVED_PEBS
WlReserved == 1         \* WL_RESERVED_PEBS

\* struct ubi_vtbl_record: size, type, update marker, name, auto-resize flag.
EmptyRec == [pebs |-> 0, type |-> "none", mark |-> FALSE, name |-> NoName, auto |-> FALSE]
Record == [pebs : 0 .. PebCount, type : Type \cup {"none"}, mark : BOOLEAN,
           name : Name \cup {NoName}, auto : BOOLEAN]
EmptyTable == [s \in Slot |-> EmptyRec]
Table == [Slot -> Record]

\* A copy of the table on flash is a table, absent or torn.
IsTable(c) == c # Absent /\ c # TornTable

Unmapped == << >>
Data(v, n, t) == <<v, n, t>>
Image == {Unmapped} \cup ((0 .. MaxImages) \X (1 .. MaxLebs) \X Type)

VARIABLES lay,      \* the two copies of the table on flash (layout volume)
          data,     \* the LEBs of the volumes on flash
          blank,    \* no EC header anywhere (si->is_empty)
          badPebs,  \* PEBs marked bad on flash
          vtbl,     \* ubi->vtbl, the table in RAM
          volumes,  \* ubi->volumes: struct ubi_volume or NoVol
          cnt,      \* good_peb_count, avail_pebs, beb_rsvd_pebs
          ro,       \* ubi->ro_mode
          cmd,      \* the command being executed
          refused,  \* attaching has been refused (-EINVAL or -ENOSPC)
          images,   \* how many images have been written so far
          errs, cuts

flash == <<lay, data, blank, badPebs>>
ram == <<vtbl, volumes, cnt, ro>>
bounds == <<images, errs, cuts>>
vars == <<flash, ram, cmd, refused, bounds>>

NoVol == [pebs |-> 0]
Volume == [pebs : 1 .. PebCount, type : Type, name : Name, mark : BOOLEAN,
           updating : BOOLEAN, used : 0 .. PebCount, corrupted : BOOLEAN,
           eba : {"live", "freed"}]

Idle == [op |-> "idle"]
Off == [op |-> "off"]
Steps == Seq({"erase", "put", "restore"} \X {0, 1}
             \cup {"unmap", "store"} \X Slot \X Lnum)

\* The command: what it is, its volume, how far it is, the operations left,
\* and its size argument.
Cmd == [op : {"attach", "create", "remove", "update", "resize"}, slot : Slot,
        phase : STRING, todo : Steps, n : 0 .. PebCount]

TypeOK ==
  /\ lay \in [{0, 1} -> Table \cup {Absent, TornTable}]
  /\ data \in [Slot -> [Lnum -> Image]]
  /\ blank \in BOOLEAN /\ badPebs \in 0 .. PebCount
  /\ vtbl \in Table
  /\ volumes \in [Slot -> Volume \cup {NoVol}]
  /\ cnt \in [good : 0 .. PebCount, avail : -PebCount .. PebCount, beb : 0 .. PebCount]
  /\ ro \in BOOLEAN /\ refused \in BOOLEAN
  /\ cmd \in {Idle, Off} \cup Cmd
  /\ images \in 0 .. MaxImages /\ errs \in 0 .. MaxErr /\ cuts \in 0 .. MaxCuts

(***************************************************************************)
(* Helpers.                                                                *)
(***************************************************************************)
Least(a, b) == IF a <= b THEN a ELSE b

\* ubi_calculate_reserved(): one percent of the good PEBs, at least two.
BebLevel(good) == IF good \div 100 < 2 THEN 2 ELSE good \div 100

Reserved(tb) == SumFunction([s \in Slot |-> tb[s].pebs])

\* Mutant: the reserve is refilled without taking from what is available.
ReleaseTwice(c, n) ==
  LET want == BebLevel(c.good) - c.beb
      take == IF want > 0 THEN Least(want, c.avail + n) ELSE 0
  IN  [c EXCEPT !.avail = @ + n, !.beb = @ + take]

\* Give n PEBs back, and refill the bad-PEB reserve from what is available.
Release(c, n) ==
  LET avail == c.avail + n
      want  == BebLevel(c.good) - c.beb
      take  == IF want > 0 THEN Least(want, avail) ELSE 0
  IN  [c EXCEPT !.avail = avail - take, !.beb = @ + take]

\* erase_worker() on a PEB that went bad: top up the reserve, then spend one.
TopUp(c) ==
  LET need == BebLevel(c.good) - c.beb + 1
      take == IF need > 0 THEN Least(need, c.avail) ELSE 0
  IN  [c EXCEPT !.avail = @ - take, !.beb = @ + take]
SpendBad(c) == [c EXCEPT !.beb = @ - 1, !.good = @ - 1]

\* Mutant: both copies of the table are unmapped before one is written.
TableStepsBothFirst == << <<"erase", 0>>, <<"erase", 1>>, <<"put", 0>>, <<"put", 1>> >>

\* The operations of ubi_change_vtbl_record(), once per copy.
TableSteps == << <<"erase", 0>>, <<"put", 0>>, <<"erase", 1>>, <<"put", 1>> >>
\* Mutant: the last LEB is not unmapped.
UnmapStepsShort(s, from, to) == [i \in 1 .. to - from - 1 |-> <<"unmap", s, from + i - 1>>]
UnmapSteps(s, from, to) == [i \in 1 .. to - from |-> <<"unmap", s, from + i - 1>>]
StoreSteps(s, n) == [i \in 1 .. n |-> <<"store", s, i - 1>>]

Command(op, s, phase, todo, n) ==
  [op |-> op, slot |-> s, phase |-> phase, todo |-> todo, n |-> n]

(***************************************************************************)
(* Reading the table: vtbl_check() and the choice of process_lvol().       *)
(***************************************************************************)
\* vtbl_check() < 0: a record of size zero that is not empty, a size above
\* the good PEBs, or two volumes with one name.
Inconsistent(tb, good) ==
  \/ \E s \in Slot : tb[s].pebs = 0 /\ tb[s] # EmptyRec
  \/ \E s \in Slot : tb[s].pebs > good
  \/ \E s, u \in Slot : s # u /\ tb[s].name # NoName /\ tb[s].name = tb[u].name

Refuses(c, good) == IsTable(c) /\ Inconsistent(c, good)

\* The table an attach goes by.
Winner == IF IsTable(lay[0]) THEN lay[0] ELSE lay[1]

\* process_lvol() gives up, and otherwise which copies it writes anew.
LvolFails(good) ==
  \/ Refuses(lay[0], good)
  \/ ~IsTable(lay[0]) /\ (~IsTable(lay[1]) \/ Refuses(lay[1], good))
RestoreSteps ==
  IF ~IsTable(lay[0]) THEN << <<"restore", 0>> >>
  ELSE IF lay[0] # lay[1] THEN << <<"restore", 1>> >> ELSE << >>

\* ubi_scan() of a volume: the headers of its LEBs must agree on the type and,
\* for a static volume, on used_ebs (validate_vid_hdr()).
Mapped(s) == {l \in Lnum : data[s][l] # Unmapped}
ScanAgrees(s) ==
  \A k, l \in Mapped(s) :
    /\ data[s][k][3] = data[s][l][3]
    /\ data[s][k][3] = "static" => data[s][k][2] = data[s][l][2]

\* check_sv(): what was scanned against the volume of the table.
ScanFits(s, rec) ==
  \A l \in Mapped(s) :
    /\ l < rec.pebs
    /\ data[s][l][3] = rec.type
    /\ rec.type = "static" => data[s][l][2] <= rec.pebs

\* init_volumes(): the volume of a record; a static volume takes its size from
\* the scan, and misses LEBs when not all used_ebs of them were found.
VolOf(s, rec) ==
  LET found == Mapped(s)
      ebs   == IF found = {} THEN 0 ELSE data[s][CHOOSE l \in found : TRUE][2]
      lost  == rec.type = "static" /\ Cardinality(found) # ebs
  IN  [pebs |-> rec.pebs, type |-> rec.type, name |-> rec.name, mark |-> rec.mark,
       updating |-> FALSE, corrupted |-> lost, eba |-> "live",
       used |-> IF rec.type = "dynamic" THEN rec.pebs ELSE IF lost THEN 0 ELSE ebs]

Exists(s) == volumes[s] # NoVol

(***************************************************************************)
(* The flash operations of a command.                                      *)
(***************************************************************************)
Busy == cmd \notin {Idle, Off}
Working == Busy /\ cmd.todo # << >>
Op == Head(cmd.todo)

\* What an operation leaves when it succeeds.
Done ==
  CASE Op[1] = "erase"   -> lay' = [lay EXCEPT ![Op[2]] = Absent] /\ UNCHANGED <<data, blank>>
    [] Op[1] = "put"     -> lay' = [lay EXCEPT ![Op[2]] = vtbl] /\ UNCHANGED <<data, blank>>
    [] Op[1] = "restore" -> lay' = [lay EXCEPT ![Op[2]] = vtbl] /\ blank' = FALSE /\ UNCHANGED data
    [] Op[1] = "unmap"   -> data' = [data EXCEPT ![Op[2]][Op[3]] = Unmapped] /\ UNCHANGED <<lay, blank>>
    [] Op[1] = "store"   -> /\ data' = [data EXCEPT ![Op[2]][Op[3]] =
                                          Data(images, cmd.n, volumes[Op[2]].type)]
                            /\ UNCHANGED <<lay, blank>>

\* A write that is interrupted or fails: the VID header is there, the data are
\* not whole.  An erasure has no such state: what is left of the PEB is erased
\* again by the next attach.  create_vtbl() writes the EC header first.
Torn ==
  \/ /\ Op[1] \in {"put", "restore"}
     /\ lay' = [lay EXCEPT ![Op[2]] = TornTable]
     /\ blank' = FALSE /\ UNCHANGED data
  \/ /\ Op[1] = "restore" /\ blank
     /\ blank' = FALSE /\ UNCHANGED <<lay, data>>
  \/ /\ Op[1] = "store"
     /\ data' = [data EXCEPT ![Op[2]][Op[3]] = Data(0, cmd.n, volumes[Op[2]].type)]
     /\ UNCHANGED <<lay, blank>>

\* One operation succeeds.
Step ==
  /\ Working /\ ~ro
  /\ Done
  /\ cmd' = [cmd EXCEPT !.todo = Tail(@)]
  /\ UNCHANGED <<badPebs, ram, refused, bounds>>

\* Only an unmap of a mapped LEB erases a PEB.
Erases ==
  \/ Op[1] = "erase" /\ lay[Op[2]] # Absent
  \/ Op[1] = "unmap" /\ data[Op[2]][Op[3]] # Unmapped

\* The operation erases a PEB that goes bad (the end of erase_worker()), and
\* the bad-PEB reserve pays for it.
StepGoesBad ==
  /\ Working /\ ~ro /\ "bad" \in Faults /\ errs < MaxErr
  /\ Erases /\ TopUp(cnt).beb > 0
  /\ Done
  /\ cnt' = SpendBad(TopUp(cnt))
  /\ badPebs' = badPebs + 1
  /\ cmd' = [cmd EXCEPT !.todo = Tail(@)]
  /\ errs' = errs + 1
  /\ UNCHANGED <<vtbl, volumes, ro, refused, images, cuts>>

\* The resize of this command has already taken its PEBs and replaced the
\* EBA table of the volume.
Grows == cmd.phase \in {"auto", "table"} /\ cmd.op \in {"attach", "resize"}
         /\ cmd.n > volumes[cmd.slot].pebs

\* The error path of the command, from counters c.
Abort(c) ==
  /\ cmd' = IF cmd.op = "attach" THEN Off ELSE Idle
  /\ volumes' =
       CASE cmd.op = "update" /\ cmd.phase = "mark" ->
              [volumes EXCEPT ![cmd.slot].mark = TRUE]
         [] cmd.op = "update" /\ cmd.phase \in {"wipe+clear", "clear"} ->
              [volumes EXCEPT ![cmd.slot].mark = FALSE]
         [] Grows -> [volumes EXCEPT ![cmd.slot].eba = "freed"]
         [] OTHER -> volumes
  /\ cnt' = CASE cmd.op = "create" -> [c EXCEPT !.avail = @ + cmd.n]
              [] Grows             -> [c EXCEPT !.avail = @ + cmd.n - volumes[cmd.slot].pebs]
              [] OTHER             -> c
  /\ UNCHANGED <<vtbl, refused, badPebs, images, cuts>>

\* Every operation of a device in read-only mode returns -EROFS.
StepReadOnly == Working /\ ro /\ Abort(cnt) /\ UNCHANGED <<lay, data, blank, ro, errs>>

\* An operation fails, and with it the device.
StepFails ==
  /\ Working /\ ~ro /\ "ro" \in Faults /\ errs < MaxErr
  /\ Torn \/ UNCHANGED <<lay, data, blank>>
  /\ ro' = TRUE /\ errs' = errs + 1
  /\ Abort(cnt)

\* A PEB goes bad and the reserve is empty: erase_worker() turns the device
\* read-only.
StepNoReserve ==
  /\ Working /\ ~ro /\ "bad" \in Faults /\ errs < MaxErr
  /\ Erases /\ TopUp(cnt).beb = 0
  /\ ro' = TRUE /\ errs' = errs + 1
  /\ Abort(TopUp(cnt)) /\ UNCHANGED <<lay, data, blank>>

\* A write fails before it has touched the flash.
StepNoMem ==
  /\ Working /\ ~ro /\ "nomem" \in Faults /\ errs < MaxErr
  /\ Op[1] \in {"put", "store", "restore"}
  /\ errs' = errs + 1
  /\ Abort(cnt) /\ UNCHANGED <<lay, data, blank, ro>>

PowerCut ==
  /\ cmd # Off /\ cuts < MaxCuts
  /\ cuts' = cuts + 1
  /\ UNCHANGED <<lay, data, blank>> \/ (Working /\ ~ro /\ Torn)
  /\ cmd' = Off
  /\ volumes' = [s \in Slot |-> NoVol] /\ vtbl' = EmptyTable /\ ro' = FALSE
  /\ UNCHANGED <<badPebs, cnt, refused, images, errs>>

\* "ubi part" for an attached device detaches it first.
Detach ==
  /\ cmd = Idle
  /\ cmd' = Off
  /\ volumes' = [s \in Slot |-> NoVol] /\ vtbl' = EmptyTable /\ ro' = FALSE
  /\ UNCHANGED <<flash, cnt, refused, bounds>>

(***************************************************************************)
(* Attaching: ubi_attach_mtd_dev() with attach_by_scanning().              *)
(***************************************************************************)
Refuse ==
  /\ cmd' = Off /\ refused' = TRUE
  /\ volumes' = [s \in Slot |-> NoVol] /\ vtbl' = EmptyTable

\* Mutant: a missing first copy is taken for a flash without a table.
AttachForgets ==
  LET good == PebCount - badPebs IN
  /\ cmd = Off
  /\ cnt' = [good |-> good, avail |-> good, beb |-> 0]
  /\ vtbl' = IF IsTable(lay[0]) THEN lay[0] ELSE EmptyTable
  /\ cmd' = Command("attach", 0, "restore", RestoreSteps, 0)
  /\ volumes' = [s \in Slot |-> NoVol] /\ ro' = FALSE
  /\ UNCHANGED <<flash, refused, bounds>>

\* A new struct ubi_device, ubi_scan() and the first half of
\* ubi_read_volume_table().
Attach ==
  LET good == PebCount - badPebs
      none == lay[0] = Absent /\ lay[1] = Absent
      bad  == IF none THEN ~blank
              ELSE LvolFails(good) \/ \E s \in Slot : ~ScanAgrees(s)
  IN
  /\ cmd = Off
  /\ cnt' = [good |-> good, avail |-> good, beb |-> 0]
  /\ \/ bad /\ Refuse
     \/ /\ ~bad
        /\ vtbl' = IF none THEN EmptyTable ELSE Winner
        /\ cmd' = Command("attach", 0, "restore",
                          IF none THEN << <<"restore", 0>>, <<"restore", 1>> >>
                          ELSE RestoreSteps, 0)
        /\ volumes' = [s \in Slot |-> NoVol]
        /\ UNCHANGED refused
  /\ ro' = FALSE
  /\ UNCHANGED <<flash, bounds>>

\* init_volumes(), check_scanning_info() and ubi_eba_init_scan(); then
\* ubi_wl_init_scan() erases the LEBs of volumes that are not in the table.
AttachInit ==
  LET avail == cnt.good - Reserved(vtbl) - LayoutEbs
      bad   == \/ Cardinality({s \in Slot : vtbl[s].auto}) > 1
               \/ \E s \in Slot : vtbl[s].pebs # 0 /\ ~ScanFits(s, vtbl[s])
               \/ avail < EbaReserved
      beb   == Least(BebLevel(cnt.good), avail - EbaReserved)
      stray == {p \in Slot \X Lnum : vtbl[p[1]].pebs = 0 /\ data[p[1]][p[2]] # Unmapped}
  IN
  /\ cmd.op = "attach" /\ cmd.phase = "restore" /\ cmd.todo = << >>
  /\ \/ bad /\ Refuse /\ UNCHANGED cnt
     \/ /\ ~bad
        /\ volumes' = [s \in Slot |-> IF vtbl[s].pebs = 0 THEN NoVol ELSE VolOf(s, vtbl[s])]
        /\ cnt' = [cnt EXCEPT !.avail = avail - EbaReserved - beb, !.beb = beb]
        /\ cmd' = [cmd EXCEPT !.phase = "erase",
                              !.todo = SetToSeq({<<"unmap", p[1], p[2]>> : p \in stray})]
        /\ UNCHANGED <<vtbl, refused>>
  /\ UNCHANGED <<flash, ro, bounds>>

\* Mutant: autoresize() asks for what is available, not for that much more.
AttachWlOver ==
  LET left == cnt.avail - WlReserved
      auto == {s \in Slot : vtbl[s].auto}
  IN
  /\ cmd.op = "attach" /\ cmd.phase = "erase" /\ cmd.todo = << >>
  /\ \/ /\ auto = {} /\ cmd' = Idle /\ UNCHANGED vtbl
        /\ cnt' = [cnt EXCEPT !.avail = left]
     \/ /\ \E s \in auto :
             /\ vtbl' = [vtbl EXCEPT ![s].auto = FALSE, ![s].pebs = left]
             /\ cmd' = Command("attach", s, "auto", TableSteps, left)
        /\ cnt' = [cnt EXCEPT !.avail = 0]
  /\ UNCHANGED <<flash, volumes, ro, refused, bounds>>

\* The end of ubi_wl_init_scan(), then autoresize() of the flagged volume.
AttachWl ==
  LET left == cnt.avail - WlReserved
      auto == {s \in Slot : vtbl[s].auto}
  IN
  /\ cmd.op = "attach" /\ cmd.phase = "erase" /\ cmd.todo = << >>
  /\ \/ left < 0 /\ Refuse /\ UNCHANGED cnt
     \/ /\ left >= 0 /\ auto = {}
        /\ cnt' = [cnt EXCEPT !.avail = left]
        /\ cmd' = Idle
        /\ UNCHANGED <<vtbl, volumes, refused>>
     \/ /\ left >= 0
        /\ \E s \in auto :
             /\ vtbl' = [vtbl EXCEPT ![s].auto = FALSE, ![s].pebs = @ + left]
             /\ cmd' = Command("attach", s, "auto", TableSteps, vtbl[s].pebs + left)
        /\ cnt' = [cnt EXCEPT !.avail = 0]
        /\ UNCHANGED <<volumes, refused>>
  /\ UNCHANGED <<flash, ro, bounds>>

\* ubi_resize_volume() has ended: the volume takes its new size.
Resized(s, n) ==
  [volumes EXCEPT ![s].pebs = n,
                  ![s].used = IF volumes[s].type = "dynamic" THEN n ELSE @]

AttachAuto ==
  /\ cmd.op = "attach" /\ cmd.phase = "auto" /\ cmd.todo = << >>
  /\ volumes' = Resized(cmd.slot, cmd.n)
  /\ cmd' = Idle
  /\ UNCHANGED <<flash, vtbl, cnt, ro, refused, bounds>>

(***************************************************************************)
(* "ubi create": verify_mkvol_req() and ubi_create_volume().               *)
(***************************************************************************)
Create(name, type, n) ==
  LET s == Min({u \in Slot : ~Exists(u)}) IN
  /\ cmd = Idle /\ ~ro
  /\ \E u \in Slot : ~Exists(u)
  /\ \A u \in Slot : Exists(u) => volumes[u].name # name
  /\ n <= cnt.avail
  /\ cnt' = [cnt EXCEPT !.avail = @ - n]
  /\ vtbl' = [vtbl EXCEPT ![s] = [EmptyRec EXCEPT !.pebs = n, !.type = type, !.name = name]]
  /\ cmd' = Command("create", s, "table", TableSteps, n)
  /\ UNCHANGED <<flash, volumes, ro, refused, bounds>>

\* Mutant: the name is not copied to the volume.
CreateEndUnnamed ==
  /\ cmd.op = "create" /\ cmd.todo = << >>
  /\ volumes' = [volumes EXCEPT ![cmd.slot] =
                   [pebs |-> cmd.n, type |-> vtbl[cmd.slot].type, name |-> NoName,
                    mark |-> FALSE, updating |-> FALSE, corrupted |-> FALSE,
                    eba |-> "live", used |-> 0]]
  /\ cmd' = Idle
  /\ UNCHANGED <<flash, vtbl, cnt, ro, refused, bounds>>

CreateEnd ==
  /\ cmd.op = "create" /\ cmd.todo = << >>
  /\ volumes' = [volumes EXCEPT ![cmd.slot] =
                   LET r == vtbl[cmd.slot] IN
                   [pebs |-> r.pebs, type |-> r.type, name |-> r.name, mark |-> FALSE,
                    updating |-> FALSE, corrupted |-> FALSE, eba |-> "live",
                    used |-> IF r.type = "dynamic" THEN r.pebs ELSE 0]]
  /\ cmd' = Idle
  /\ UNCHANGED <<flash, vtbl, cnt, ro, refused, bounds>>

(***************************************************************************)
(* "ubi remove": ubi_remove_vol().                                         *)
(***************************************************************************)
RemoveVol(s) ==
  /\ cmd = Idle /\ ~ro /\ Exists(s)
  /\ vtbl' = [vtbl EXCEPT ![s] = EmptyRec]
  /\ cmd' = Command("remove", s, "table", TableSteps, 0)
  /\ UNCHANGED <<flash, volumes, cnt, ro, refused, bounds>>

\* Mutant: the loop over the LEBs starts again at its end.
RemoveUnmapAgain ==
  /\ cmd.op = "remove" /\ cmd.phase = "table" /\ cmd.todo = << >>
  /\ cmd' = [cmd EXCEPT !.todo = UnmapSteps(cmd.slot, 0, volumes[cmd.slot].pebs)]
  /\ UNCHANGED <<flash, ram, refused, bounds>>

RemoveUnmap ==
  /\ cmd.op = "remove" /\ cmd.phase = "table" /\ cmd.todo = << >>
  /\ cmd' = [cmd EXCEPT !.phase = "unmap",
                        !.todo = UnmapSteps(cmd.slot, 0, volumes[cmd.slot].pebs)]
  /\ UNCHANGED <<flash, ram, refused, bounds>>

RemoveEnd ==
  /\ cmd.op = "remove" /\ cmd.phase = "unmap" /\ cmd.todo = << >>
  /\ volumes' = [volumes EXCEPT ![cmd.slot] = NoVol]
  /\ cnt' = Release(cnt, volumes[cmd.slot].pebs)
  /\ cmd' = Idle
  /\ UNCHANGED <<flash, vtbl, ro, refused, bounds>>

(***************************************************************************)
(* "ubi write": ubi_volume_write(), that is ubi_start_update() followed by *)
(* one ubi_more_update_data() with all the data.                           *)
(***************************************************************************)
Wipe(s) == UnmapSteps(s, 0, volumes[s].pebs)

\* Mutant: the update marker is not set.
UpdateUnmarked(s, n) ==
  /\ cmd = Idle /\ Exists(s) /\ n <= volumes[s].pebs /\ images < MaxImages
  /\ images' = images + 1
  /\ volumes' = [volumes EXCEPT ![s].updating = TRUE]
  /\ cmd' = Command("update", s, "wipe", Wipe(s), n)
  /\ UNCHANGED <<flash, vtbl, cnt, ro, refused, errs, cuts>>

\* ubi_start_update() up to the end of set_update_marker()'s RAM changes.
Update(s, n) ==
  /\ cmd = Idle /\ Exists(s) /\ n <= volumes[s].pebs /\ images < MaxImages
  /\ images' = images + 1
  /\ volumes' = [volumes EXCEPT ![s].updating = TRUE]
  /\ \/ /\ volumes[s].mark
        /\ cmd' = Command("update", s, "wipe", Wipe(s), n)
        /\ UNCHANGED vtbl
     \/ /\ ~volumes[s].mark
        /\ vtbl' = [vtbl EXCEPT ![s].mark = TRUE]
        /\ cmd' = Command("update", s, "mark", TableSteps, n)
  /\ UNCHANGED <<flash, cnt, ro, refused, errs, cuts>>

InUpdate(phase) == cmd.op = "update" /\ cmd.phase = phase /\ cmd.todo = << >>

UpdateMarked ==
  /\ InUpdate("mark")
  /\ volumes' = [volumes EXCEPT ![cmd.slot].mark = TRUE]
  /\ cmd' = [cmd EXCEPT !.phase = "wipe", !.todo = Wipe(cmd.slot)]
  /\ UNCHANGED <<flash, vtbl, cnt, ro, refused, bounds>>

\* Mutant: a static volume keeps its old size.
ClearedSameSize(v, n) == [v EXCEPT !.corrupted = FALSE]

\* clear_update_marker() before its table change.
Cleared(v, n) ==
  IF v.type = "static" THEN [v EXCEPT !.used = n, !.corrupted = FALSE] ELSE v
ClearMarker(phase) ==
  /\ vtbl' = [vtbl EXCEPT ![cmd.slot].mark = FALSE]
  /\ volumes' = [volumes EXCEPT ![cmd.slot] = Cleared(@, cmd.n)]
  /\ cmd' = [cmd EXCEPT !.phase = phase, !.todo = TableSteps]

\* The volume is wiped out; an update of zero bytes ends here with a first
\* clear_update_marker(), and goes on all the same.
UpdateWiped ==
  /\ InUpdate("wipe")
  /\ \/ cmd.n = 0 /\ ClearMarker("wipe+clear")
     \/ /\ cmd.n > 0
        /\ cmd' = [cmd EXCEPT !.phase = "data", !.todo = StoreSteps(cmd.slot, cmd.n)]
        /\ UNCHANGED <<vtbl, volumes>>
  /\ UNCHANGED <<flash, cnt, ro, refused, bounds>>

UpdateNothing ==
  /\ InUpdate("wipe+clear")
  /\ volumes' = [volumes EXCEPT ![cmd.slot].mark = FALSE, ![cmd.slot].updating = FALSE]
  /\ cmd' = [cmd EXCEPT !.phase = "data"]
  /\ UNCHANGED <<flash, vtbl, cnt, ro, refused, bounds>>

\* All the data are written: ubi_more_update_data() clears the marker.
UpdateWritten ==
  /\ InUpdate("data")
  /\ ClearMarker("clear")
  /\ UNCHANGED <<flash, cnt, ro, refused, bounds>>

\* Mutant: the marker is cleared in the table but not in the volume.
UpdateEndMarked ==
  /\ InUpdate("clear")
  /\ volumes' = [volumes EXCEPT ![cmd.slot].updating = FALSE]
  /\ cmd' = Idle
  /\ UNCHANGED <<flash, vtbl, cnt, ro, refused, bounds>>

UpdateEnd ==
  /\ InUpdate("clear")
  /\ volumes' = [volumes EXCEPT ![cmd.slot].mark = FALSE, ![cmd.slot].updating = FALSE]
  /\ cmd' = Idle
  /\ UNCHANGED <<flash, vtbl, cnt, ro, refused, bounds>>

(***************************************************************************)
(* ubi_resize_volume().                                                    *)
(***************************************************************************)
Resize(s, n) ==
  LET more == n - volumes[s].pebs IN
  /\ "resize" \in Faults /\ cmd = Idle /\ ~ro /\ Exists(s) /\ more # 0
  /\ volumes[s].type = "static" => n >= volumes[s].used
  /\ more <= cnt.avail
  /\ cnt' = [cnt EXCEPT !.avail = IF more > 0 THEN @ - more ELSE @]
  /\ vtbl' = [vtbl EXCEPT ![s].pebs = n]
  /\ cmd' = Command("resize", s, "table", TableSteps, n)
  /\ UNCHANGED <<flash, volumes, ro, refused, bounds>>

\* The table is changed; the LEBs beyond a smaller end are unmapped after it.
ResizeUnmap ==
  /\ cmd.op = "resize" /\ cmd.phase = "table" /\ cmd.todo = << >>
  /\ cmd.n < volumes[cmd.slot].pebs
  /\ cmd' = [cmd EXCEPT !.phase = "unmap",
                        !.todo = UnmapSteps(cmd.slot, cmd.n, volumes[cmd.slot].pebs)]
  /\ UNCHANGED <<flash, ram, refused, bounds>>

ResizeEnd ==
  LET old == volumes[cmd.slot].pebs IN
  /\ cmd.op = "resize" /\ cmd.todo = << >>
  /\ cmd.phase = "unmap" \/ cmd.n > old
  /\ cnt' = IF cmd.n < old THEN Release(cnt, old - cmd.n) ELSE cnt
  /\ volumes' = Resized(cmd.slot, cmd.n)
  /\ cmd' = Idle
  /\ UNCHANGED <<flash, vtbl, ro, refused, bounds>>

(***************************************************************************)
(* The specification.                                                      *)
(***************************************************************************)
Init ==
  /\ \/ /\ \E t \in Factory : lay = [i \in {0, 1} |-> t]
        /\ blank = FALSE
     \/ /\ "blank" \in Faults
        /\ lay = [i \in {0, 1} |-> Absent]
        /\ blank = TRUE
  /\ data = [s \in Slot |-> [l \in Lnum |-> Unmapped]]
  /\ badPebs = 0
  /\ vtbl = EmptyTable /\ volumes = [s \in Slot |-> NoVol]
  /\ cnt = [good |-> 0, avail |-> 0, beb |-> 0]
  /\ ro = FALSE /\ cmd = Off /\ refused = FALSE
  /\ images = 0 /\ errs = 0 /\ cuts = 0

\* What the running command does next.
Progress ==
  \/ Step \/ StepReadOnly
  \/ AttachInit \/ AttachWl \/ AttachAuto
  \/ CreateEnd \/ RemoveUnmap \/ RemoveEnd
  \/ UpdateMarked \/ UpdateWiped \/ UpdateNothing \/ UpdateWritten \/ UpdateEnd
  \/ ResizeUnmap \/ ResizeEnd

Fault == StepGoesBad \/ StepFails \/ StepNoReserve \/ StepNoMem \/ PowerCut

Next ==
  \/ Attach \/ Detach
  \/ \E name \in Name, type \in Type, n \in 1 .. MaxLebs : Create(name, type, n)
  \/ \E s \in Slot : RemoveVol(s)
  \/ \E s \in Slot, n \in UpdSizes : Update(s, n)
  \/ \E s \in Slot, n \in 1 .. MaxLebs : Resize(s, n)
  \/ Progress \/ Fault

\* The processor goes on with the command it executes, and the boot script
\* attaches the device; whether a command is given is up to the user.
Spec == Init /\ [][Next]_vars /\ WF_vars(Progress) /\ WF_vars(Attach)
(***************************************************************************)
(* Properties.                                                             *)
(***************************************************************************)
\* What the next attach would find of volume s: nothing, or its record and its
\* data, which nobody can read while the update marker is set.
Shown(s) ==
  IF ~IsTable(Winner) \/ Winner[s].pebs = 0 THEN [pebs |-> 0]
  ELSE [pebs |-> Winner[s].pebs, type |-> Winner[s].type, name |-> Winner[s].name,
        data |-> IF Winner[s].mark THEN Damaged
                 ELSE [l \in 0 .. Winner[s].pebs - 1 |-> data[s][l]]]

\* The LEBs of a volume are those of one image from first to last and nothing
\* else (n = 0: the volume is empty).
Whole(s) ==
  \/ Mapped(s) = {}
  \/ \E v \in 1 .. MaxImages, n \in 1 .. MaxLebs, t \in Type :
       \A l \in Lnum : data[s][l] = IF l < n THEN Data(v, n, t) ELSE Unmapped

\* The table on flash is enough to attach: no power cut, failed operation or
\* order of commands makes ubi_attach_mtd_dev() refuse the device.
AttachOK == ~refused

\* A volume found without the update marker at the next attach has the data of
\* one complete update, or none: set_update_marker() reaches the flash before
\* the first LEB is wiped, clear_update_marker() after the last is written.
UpdateAtomic ==
  \A s \in Slot :
    IsTable(Winner) /\ Winner[s].pebs > 0 /\ ~Winner[s].mark => Whole(s)

\* What ubi_volume_read() agrees to read is complete: a volume in RAM that is
\* neither updating nor marked holds one whole image, known to be corrupted
\* or of the size in RAM.  A removal that fails half-way leaves the volume in
\* RAM without some of its LEBs, and the device read-only.
ReadsWhole ==
  cmd = Idle /\ ~ro =>
    \A s \in Slot :
      LET v == volumes[s] IN
      Exists(s) /\ ~v.updating /\ ~v.mark =>
        /\ Whole(s)
        /\ v.type = "static" => v.corrupted \/ Cardinality(Mapped(s)) = v.used

\* Between commands the available PEBs are exactly the good ones that no
\* volume, no internal need and no bad-PEB reserve has claimed.
Accounting ==
  cmd = Idle =>
    /\ cnt.avail >= 0
    /\ cnt.good = cnt.avail + cnt.beb + EbaReserved + WlReserved + LayoutEbs
                  + SumFunction([s \in Slot |-> volumes[s].pebs])

\* Between commands the table in RAM describes the volumes in RAM (the checks
\* of paranoid_check_volume()), as long as the table may be written again.
TableMatchesVolumes ==
  cmd = Idle /\ ~ro =>
    \A s \in Slot :
      IF ~Exists(s) THEN vtbl[s].pebs = 0
      ELSE /\ vtbl[s].pebs = volumes[s].pebs /\ vtbl[s].name = volumes[s].name
           /\ vtbl[s].type = volumes[s].type /\ vtbl[s].mark = volumes[s].mark
           /\ volumes[s].type = "dynamic" => volumes[s].used = volumes[s].pebs

\* The check of paranoid_check_volume() for "update marker and corrupted
\* simultaneously".
MarkedNotCorrupted ==
  \A s \in Slot : Exists(s) => ~(volumes[s].mark /\ volumes[s].corrupted)

\* Between commands every LEB on flash belongs to a volume and lies within it,
\* so that a volume created later in the same slot starts empty.
NoStrayLebs ==
  cmd = Idle /\ ~ro => \A s \in Slot : \A l \in Mapped(s) : l < volumes[s].pebs

\* The assertion of clear_update_marker(): the marker it clears is set.
ClearsSetMarker ==
  cmd.op = "update" =>
    (cmd.phase = "data" /\ cmd.todo = << >> =>
       volumes[cmd.slot].mark /\ vtbl[cmd.slot].mark)

\* The assertion of ubi_start_update(): no volume is left updating when the
\* next command may start.
NoUpdateLeft == cmd = Idle => \A s \in Slot : Exists(s) => ~volumes[s].updating

\* No volume keeps an EBA table that has been freed: ubi_eba_close() frees
\* vol->eba_tbl of every volume, and every LEB access goes through it.
EbaTableLive == \A s \in Slot : Exists(s) => volumes[s].eba = "live"

\* A command changes what a restart would find of its own volume only.
OthersKept ==
  [][\A s \in Slot : Busy /\ cmd.slot # s => Shown(s)' = Shown(s)]_vars

\* After any number of power cuts the device is attached again and every
\* command comes to an end.
Settles == []<>(cmd = Idle)

\* What a restart would find changes as if every command acted at once.
Store == INSTANCE VolumeStore WITH store <- [s \in Slot |-> Shown(s)]
StoreSpec == Store!Spec
=============================================================================
