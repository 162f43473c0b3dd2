------------------------------- MODULE UbiEba -------------------------------
(***************************************************************************)
(* The eraseblock association (EBA) unit of UBI together with the erase    *)
(* and wear-leveling (WL) workers it calls, power cuts, and attaching by   *)
(* scanning after them.                                                    *)
(*                                                                         *)
(* U-Boot has no threads: schedule_ubi_work() runs a work at once, inside  *)
(* the call that schedules it, and the locks of Linux are empty macros.    *)
(* So at most one EBA call is in progress (op), the workers run nested in  *)
(* it (wk; every nested call is the caller's last statement, so one        *)
(* program counter is enough), and the call continues when wk is idle.     *)
(* An action is the code from one flash operation to the next, so that a   *)
(* power cut can fall before, during and after each of them.               *)
(*                                                                         *)
(* Erase counters are left out: which free PEB is taken, which used PEB is *)
(* moved and when a protected PEB stops being protected is any choice.     *)
(***************************************************************************)
EXTENDS UbiMedia

CONSTANTS UBI_IO_RETRIES,  \* how many more PEBs are tried after a failed write
          Faults,          \* the I/O faults that may occur, see Fault
          MaxErr,          \* bound: I/O faults in a behaviour
          MaxCuts,         \* bound: power cuts in a behaviour
          MaxSqnum,        \* bound: no operation or move starts beyond it
          MaxLen           \* bound: chunks in a LEB

FaultKinds == {"write",    \* programming a fresh PEB ends in -EIO
               "append",   \* programming a mapped PEB ends in -EIO
               "erase",    \* erasing, or writing the EC header, ends in -EIO
               "io",       \* any of them ends in an error other than -EIO
               "bitflip",  \* a read reports a corrected bit-flip
               "novid",    \* a VID header reads back as missing or broken
               "mismatch"} \* data silently reads back as something else

ASSUME EbaAssumption ==
  /\ UBI_IO_RETRIES \in Nat /\ Faults \subseteq FaultKinds
  /\ MaxErr \in Nat /\ MaxCuts \in Nat /\ MaxSqnum \in Nat /\ MaxLen \in Nat

VARIABLES flash,         \* the PEBs
          up,            \* "off": not attached, "init": attaching, "on"
          eba_tbl,       \* vol->eba_tbl of all the volumes
          tree,          \* where the WL unit keeps each PEB
          global_sqnum,
          ro_mode,
          op,            \* the EBA call in progress
          wk,            \* the worker running nested in it
          may,           \* history: what a LEB may read as after a reboot
          errs, cuts     \* how many faults and power cuts have happened

vars == <<flash, up, eba_tbl, tree, global_sqnum, ro_mode, op, wk, may, errs, cuts>>

Trees == {"free", "used", "prot", "scrub",  \* the trees of wl.c
          "move",                           \* move_from or move_to
          "erase",                          \* with the erase worker
          "todo",                           \* to be erased while attaching
          "gone",                           \* its WL entry has been freed
          "bad"}

OpPc == {"idle", "unmapped", "get", "vid", "data", "remap", "retry",
         "append", "rget", "rvid", "rdata", "rretry", "rdone", "rfail"}

WkPc == {"idle", "erase", "ec", "bad", "ensure", "mread", "mvid", "mdata"}

OpState == [pc: OpPc, kind: {"none", "unmap", "change0", "write", "change"},
            lnum: LEB \cup {None}, pnum: PEB \cup {None}, from: PEB \cup {None},
            buf: Contents, want: Contents, sqnum: Nat, tries: Nat]

WkState == [pc: WkPc, e1: PEB \cup {None}, e2: PEB \cup {None}, scrub: BOOLEAN,
            sqnum: Nat]

IdleOp == [pc |-> "idle", kind |-> "none", lnum |-> None, pnum |-> None, from |-> None,
           buf |-> << >>, want |-> << >>, sqnum |-> 0, tries |-> 0]

IdleWk == [pc |-> "idle", e1 |-> None, e2 |-> None, scrub |-> FALSE,
           sqnum |-> 0]

\* Every variable has its type.
TypeOK ==
  /\ flash \in [PEB -> PebState]
  /\ up \in {"off", "init", "on"}
  /\ eba_tbl \in [LEB -> PEB \cup {None}]
  /\ tree \in [PEB -> Trees]
  /\ global_sqnum \in Nat
  /\ ro_mode \in BOOLEAN
  /\ op \in OpState
  /\ wk \in WkState
  /\ may \in [LEB -> SUBSET Contents]
  /\ errs \in Nat /\ cuts \in Nat

-----------------------------------------------------------------------------
(* Helpers. *)

In(t) == {p \in PEB : tree[p] = t}

\* What reading LEB l returns: ubi_eba_read_leb(), 0xFF when it is not mapped.
Content(l) == IF eba_tbl[l] = None THEN << >> ELSE flash[eba_tbl[l]].data

\* The PEBs the scan finds to hold some LEB, or LEB l.
Seen == {p \in PEB : ScanClass(flash[p]) = "used"}

Copies(l) == {p \in Seen : flash[p].lnum = l}

\* p is the PEB the scan decides for; None when there is no copy of l.
IsWinner(l, p) ==
  \/ p = None /\ Copies(l) = {}
  \/ p \in Copies(l) /\ \A q \in Copies(l) \ {p} : Beats(flash[p], flash[q])

DataOf(p) == IF p = None THEN << >> ELSE flash[p].data

ScanFails == \E l \in LEB : \E p, q \in Copies(l) : p # q /\ CompareFails(flash[p], flash[q])

\* si->max_sqnum
IsMaxSqnum(m) ==
  /\ m \in {0} \cup {flash[p].sqnum : p \in Seen}
  /\ \A p \in Seen : flash[p].sqnum <= m

\* Mutants of AfterScan: the greatest number is given out again, or less.
AfterScanReused(m) == m

AfterScanMinus(m) == m - 1

\* global_sqnum, from si->max_sqnum
AfterScan(m) == m + 1

Fault(f) == f \in Faults /\ errs < MaxErr /\ errs' = errs + 1

\* Mutant of PutPeb: the erase work is not scheduled.
PutPebNoWork(p, next, failed) ==
  /\ tree' = [tree EXCEPT ![p] = "erase"]
  /\ op' = next
  /\ UNCHANGED <<wk, ro_mode>>

\* ubi_wl_put_peb(): the PEB leaves its tree and the erase worker is called;
\* the caller goes on at next.  A PEB in no tree is an internal error, which
\* the caller goes on with at failed.
PutPeb(p, next, failed) ==
  IF tree[p] \in {"used", "scrub", "prot"}
    THEN /\ tree' = [tree EXCEPT ![p] = "erase"]
         /\ wk' = [IdleWk EXCEPT !.pc = "erase", !.e1 = p]
         /\ op' = next
         /\ UNCHANGED ro_mode
    ELSE /\ ro_mode' = TRUE
         /\ op' = failed
         /\ UNCHANGED <<tree, wk>>

\* The EBA call returns zero: from now on LEB op.lnum holds op.want.
Succeed ==
  /\ op' = IdleOp
  /\ may' = [may EXCEPT ![op.lnum] = {op.want}]

\* The EBA call fails after ubi_ro_mode().
FailRo ==
  /\ ro_mode' = TRUE
  /\ op' = IdleOp
  /\ UNCHANGED may

Ready == up = "on" /\ op.pc = "idle" /\ wk.pc = "idle"

Running(pc) == up = "on" /\ op.pc = pc /\ wk.pc = "idle"

-----------------------------------------------------------------------------
(* The EBA calls: what they do before their first flash operation. *)

\* What an interrupted or failed write of d to a fresh PEB may leave behind.
Partial(d) == {<< >>, d} \cup Cut(d)

\* write_leb() or atomic_leb_change() has filled the VID header and loops.
Begin(l, kind, d, allowed) ==
  /\ op' = [IdleOp EXCEPT !.pc = "get", !.kind = kind, !.lnum = l, !.buf = d, !.want = d,
                          !.sqnum = global_sqnum]
  /\ global_sqnum' = global_sqnum + 1
  /\ may' = [may EXCEPT ![l] = @ \cup allowed]

\* ubi_eba_write_leb() on an unmapped LEB; d is empty for ubi_leb_map().
Write(l, d) ==
  /\ Ready /\ ~ro_mode /\ global_sqnum < MaxSqnum
  /\ eba_tbl[l] = None
  /\ Begin(l, "write", d, Partial(d))
  /\ UNCHANGED <<flash, up, eba_tbl, tree, ro_mode, wk, errs, cuts>>

\* ubi_eba_write_leb() on a mapped LEB, behind what it already holds.
AppendTo(l, d) ==
  /\ Ready /\ ~ro_mode /\ global_sqnum < MaxSqnum
  /\ eba_tbl[l] # None /\ Len(Content(l)) + Len(d) <= MaxLen
  /\ op' = [IdleOp EXCEPT !.pc = "append", !.kind = "write", !.lnum = l, !.buf = d,
                          !.from = eba_tbl[l], !.want = Content(l) \o d]
  /\ may' = [may EXCEPT ![l] = @ \cup {Content(l) \o x : x \in Partial(d)}]
  /\ UNCHANGED <<flash, up, eba_tbl, tree, global_sqnum, ro_mode, wk, errs, cuts>>

\* ubi_eba_atomic_leb_change() with data.  The old contents are preserved when
\* there are any; an unmapped LEB may be left partly written.
Change(l, d) ==
  /\ Ready /\ ~ro_mode /\ global_sqnum < MaxSqnum
  /\ Begin(l, "change", d, IF eba_tbl[l] = None THEN Partial(d) ELSE {d})
  /\ UNCHANGED <<flash, up, eba_tbl, tree, ro_mode, wk, errs, cuts>>

\* ubi_eba_unmap_leb(), alone or at the start of an atomic change to nothing.
Unmap(l, kind) ==
  /\ Ready /\ ~ro_mode /\ global_sqnum < MaxSqnum
  /\ eba_tbl[l] # None
  /\ eba_tbl' = [eba_tbl EXCEPT ![l] = None]
  /\ PutPeb(eba_tbl[l], [IdleOp EXCEPT !.pc = "unmapped", !.kind = kind, !.lnum = l], IdleOp)
  /\ may' = [may EXCEPT ![l] = @ \cup {<< >>} \cup Garbled(Content(l))]
  /\ UNCHANGED <<flash, up, global_sqnum, errs, cuts>>

\* ubi_eba_read_leb() meets a corrected bit-flip: ubi_wl_scrub_peb().
ReadScrub(l) ==
  /\ Ready /\ eba_tbl[l] # None
  /\ tree[eba_tbl[l]] # "scrub"
  /\ Fault("bitflip")
  /\ IF tree[eba_tbl[l]] \in {"used", "prot"}
       THEN /\ tree' = [tree EXCEPT ![eba_tbl[l]] = "scrub"]
            /\ wk' = [IdleWk EXCEPT !.pc = "ensure"]
            /\ UNCHANGED ro_mode
       ELSE /\ ro_mode' = TRUE
            /\ UNCHANGED <<tree, wk>>
  /\ UNCHANGED <<flash, up, eba_tbl, global_sqnum, op, may, cuts>>

-----------------------------------------------------------------------------
(* The steps of a call in progress. *)

\* The erasure of the unmapped PEB is over.  Its result does not reach the
\* caller; in read-only mode nothing is promised about the LEB.
OpUnmapped ==
  /\ Running("unmapped")
  /\ \/ /\ ro_mode
        /\ op' = IdleOp
        /\ UNCHANGED <<may, global_sqnum>>
     \/ /\ ~ro_mode /\ op.kind = "unmap"
        /\ Succeed
        /\ UNCHANGED global_sqnum
     \/ /\ ~ro_mode /\ op.kind = "change0"
        /\ Begin(op.lnum, "write", << >>, {<< >>})
  /\ UNCHANGED <<flash, up, eba_tbl, tree, ro_mode, wk, errs, cuts>>

\* ubi_wl_get_peb(): some free PEB, protected from being moved; -ENOSPC when
\* there is none, and the call fails.
OpGet ==
  /\ Running("get")
  /\ \/ /\ In("free") = {}
        /\ op' = IdleOp
        /\ UNCHANGED tree
     \/ \E p \in In("free") :
          /\ tree' = [tree EXCEPT ![p] = "prot"]
          /\ op' = [op EXCEPT !.pc = "vid", !.pnum = p]
  /\ UNCHANGED <<flash, up, eba_tbl, global_sqnum, ro_mode, wk, may, errs, cuts>>

\* Mutant of Written: the table is not updated.
WrittenNoMap == Succeed /\ UNCHANGED <<eba_tbl, tree, wk, ro_mode>>

\* Both writes to the new PEB are done.  An atomic change puts the old PEB
\* before it updates the table.
Written ==
  IF op.kind = "change" /\ eba_tbl[op.lnum] # None
    THEN /\ PutPeb(eba_tbl[op.lnum], [op EXCEPT !.pc = "remap"], IdleOp)
         /\ UNCHANGED <<eba_tbl, may>>
    ELSE /\ eba_tbl' = [eba_tbl EXCEPT ![op.lnum] = op.pnum]
         /\ Succeed
         /\ UNCHANGED <<tree, wk, ro_mode>>

\* write_error: with -EIO the PEB is put and another one is tried; any other
\* error, -EROFS included, switches to read-only mode and leaves the PEB.
WriteError(torn) ==
  /\ \/ /\ ~ro_mode /\ Fault("write")
        /\ \E r \in torn : flash' = [flash EXCEPT ![op.pnum] = r]
        /\ PutPeb(op.pnum, [op EXCEPT !.pc = "retry"], IdleOp)
        /\ UNCHANGED may
     \/ /\ ~ro_mode /\ Fault("io")
        /\ \E r \in torn : flash' = [flash EXCEPT ![op.pnum] = r]
        /\ FailRo
        /\ UNCHANGED <<tree, wk>>
     \/ /\ ro_mode
        /\ FailRo
        /\ UNCHANGED <<flash, tree, wk, errs>>
  /\ UNCHANGED <<up, eba_tbl, global_sqnum, cuts>>

\* ubi_io_write_vid_hdr()
OpVid ==
  /\ Running("vid")
  /\ LET good == WithVid(flash[op.pnum], op.lnum, op.sqnum, op.kind = "change",
                         IF op.kind = "change" THEN op.buf ELSE << >>)
     IN  \/ /\ ~ro_mode
            /\ flash' = [flash EXCEPT ![op.pnum] = good]
            /\ IF op.buf = << >>
                 THEN Written
                 ELSE /\ op' = [op EXCEPT !.pc = "data"]
                      /\ UNCHANGED <<eba_tbl, may, tree, wk, ro_mode>>
            /\ UNCHANGED <<up, global_sqnum, errs, cuts>>
         \/ WriteError(TornVid(flash[op.pnum]) \cup {good})

\* ubi_io_write_data()
OpData ==
  /\ Running("data")
  /\ \/ /\ ~ro_mode
        /\ flash' = [flash EXCEPT ![op.pnum] = WithData(@, op.buf)]
        /\ Written
        /\ UNCHANGED <<up, global_sqnum, errs, cuts>>
     \/ WriteError(TornData(flash[op.pnum], op.buf))

\* An atomic change: the old PEB has been put, the LEB is remapped.
OpRemap ==
  /\ Running("remap")
  /\ eba_tbl' = [eba_tbl EXCEPT ![op.lnum] = op.pnum]
  /\ Succeed
  /\ UNCHANGED <<flash, up, tree, global_sqnum, ro_mode, wk, errs, cuts>>

\* The failed PEB has been put.  When the retries are used up the code returns
\* the result of ubi_wl_put_peb(), which is zero.
OpRetry ==
  /\ Running("retry")
  /\ \/ /\ op.tries + 1 > UBI_IO_RETRIES
        /\ ro_mode' = TRUE
        /\ Succeed
        /\ UNCHANGED global_sqnum
     \/ /\ op.tries + 1 <= UBI_IO_RETRIES
        /\ op' = [op EXCEPT !.pc = "get", !.tries = @ + 1, !.sqnum = global_sqnum]
        /\ global_sqnum' = global_sqnum + 1
        /\ UNCHANGED <<ro_mode, may>>
  /\ UNCHANGED <<flash, up, eba_tbl, tree, wk, errs, cuts>>

-----------------------------------------------------------------------------
(* Writing to a mapped LEB, and recover_peb() when that fails. *)

\* ubi_io_write_data() to the mapped PEB.
OpAppend ==
  /\ Running("append")
  /\ \/ /\ ~ro_mode
        /\ flash' = [flash EXCEPT ![op.from] = WithData(@, op.buf)]
        /\ Succeed
        /\ UNCHANGED <<ro_mode, errs>>
     \/ /\ Fault("append")
        /\ \E r \in TornData(flash[op.from], op.buf) : flash' = [flash EXCEPT ![op.from] = r]
        /\ op' = [op EXCEPT !.pc = "rget"]
        /\ UNCHANGED <<ro_mode, may>>
     \/ /\ Fault("io")
        /\ \E r \in TornData(flash[op.from], op.buf) : flash' = [flash EXCEPT ![op.from] = r]
        /\ FailRo
  /\ UNCHANGED <<up, eba_tbl, tree, global_sqnum, wk, cuts>>

\* recover_peb() takes a new PEB and reads the VID header of the old one.  It
\* uses the PEB number it was called with, on every retry.
OpRecoverGet ==
  /\ Running("rget")
  /\ \/ /\ In("free") = {}
        /\ FailRo
        /\ UNCHANGED <<tree, wk, global_sqnum>>
     \/ \E p \in In("free") :
          /\ tree' = [tree EXCEPT ![p] = "prot"]
          /\ IF flash[op.from].vid = "ok"
               THEN /\ op' = [op EXCEPT !.pc = "rvid", !.pnum = p, !.sqnum = global_sqnum]
                    /\ global_sqnum' = global_sqnum + 1
               ELSE /\ op' = [op EXCEPT !.pc = "rfail", !.pnum = p]
                    /\ UNCHANGED global_sqnum
          /\ UNCHANGED <<wk, ro_mode, may>>
  /\ UNCHANGED <<flash, up, eba_tbl, errs, cuts>>

\* write_error of recover_peb(): any error puts the new PEB and tries again.
RecoverError(torn) ==
  /\ \/ /\ ~ro_mode /\ (Fault("write") \/ Fault("io"))
        /\ \E r \in torn : flash' = [flash EXCEPT ![op.pnum] = r]
     \/ /\ ro_mode
        /\ UNCHANGED <<flash, errs>>
  /\ PutPeb(op.pnum, [op EXCEPT !.pc = "rretry"], [op EXCEPT !.pc = "rretry"])
  /\ UNCHANGED <<up, eba_tbl, global_sqnum, may, cuts>>

\* The old VID header is written with a new sequence number and nothing else
\* changed; then everything before the failed write is read.
OpRecoverVid ==
  /\ Running("rvid")
  /\ LET o    == flash[op.from]
         good == WithVid(flash[op.pnum], o.lnum, op.sqnum, o.copy_flag, o.data_crc)
     IN  \/ /\ ~ro_mode
            /\ flash' = [flash EXCEPT ![op.pnum] = good]
            /\ op' = [op EXCEPT !.pc = IF ReadsClean(o.data, Len(op.want) - Len(op.buf))
                                         THEN "rdata" ELSE "rfail"]
            /\ UNCHANGED <<up, eba_tbl, tree, global_sqnum, ro_mode, wk, may, errs, cuts>>
         \/ RecoverError(TornVid(flash[op.pnum]) \cup {good})

\* The data before the failed write and the new data are written in one go, the
\* LEB is remapped and the old PEB is put.
OpRecoverData ==
  /\ Running("rdata")
  /\ LET d == ReadFirst(flash[op.from].data, Len(op.want) - Len(op.buf)) \o op.buf
     IN  \/ /\ ~ro_mode
            /\ flash' = [flash EXCEPT ![op.pnum] = WithData(@, d)]
            /\ eba_tbl' = [eba_tbl EXCEPT ![op.lnum] = op.pnum]
            /\ PutPeb(op.from, [op EXCEPT !.pc = "rdone"], [op EXCEPT !.pc = "rdone"])
            /\ UNCHANGED <<up, global_sqnum, may, errs, cuts>>
         \/ RecoverError(TornData(flash[op.pnum], d))

\* The old PEB is put, whatever comes of it: the data is recovered.
OpRecoverDone ==
  /\ Running("rdone")
  /\ Succeed
  /\ UNCHANGED <<flash, up, eba_tbl, tree, global_sqnum, ro_mode, wk, errs, cuts>>

\* The new PEB is put again after a failed write to it; the last failure is
\* returned and the caller switches to read-only mode.
OpRecoverRetry ==
  /\ Running("rretry")
  /\ \/ /\ op.tries + 1 > UBI_IO_RETRIES
        /\ FailRo
     \/ /\ op.tries + 1 <= UBI_IO_RETRIES
        /\ op' = [op EXCEPT !.pc = "rget", !.tries = @ + 1]
        /\ UNCHANGED <<ro_mode, may>>
  /\ UNCHANGED <<flash, up, eba_tbl, tree, global_sqnum, wk, errs, cuts>>

\* out_put: the old PEB could not be read.  The new one is put, and when that is
\* over the caller switches to read-only mode.
OpRecoverFail ==
  /\ Running("rfail")
  /\ IF op.pnum = None
       THEN /\ FailRo
            /\ UNCHANGED <<tree, wk>>
       ELSE /\ PutPeb(op.pnum, [op EXCEPT !.pnum = None], [op EXCEPT !.pnum = None])
            /\ UNCHANGED may
  /\ UNCHANGED <<flash, up, eba_tbl, global_sqnum, errs, cuts>>

-----------------------------------------------------------------------------
(* erase_worker(): sync_erase() erases the PEB and writes its EC header. *)

\* An erasure or the EC header fails.  With -EIO the PEB has gone bad; any other
\* error, -EROFS included, frees the WL entry and sets read-only mode.
EraseError(torn) ==
  /\ \/ /\ ~ro_mode /\ Fault("erase")
        /\ \E r \in torn : flash' = [flash EXCEPT ![wk.e1] = r]
        /\ wk' = [wk EXCEPT !.pc = "bad"]
        /\ UNCHANGED <<tree, ro_mode>>
     \/ /\ \/ /\ ~ro_mode /\ Fault("io")
              /\ \E r \in torn : flash' = [flash EXCEPT ![wk.e1] = r]
           \/ /\ ro_mode
              /\ UNCHANGED <<flash, errs>>
        /\ tree' = [tree EXCEPT ![wk.e1] = "gone"]
        /\ ro_mode' = TRUE
        /\ wk' = IdleWk

WkErase ==
  /\ wk.pc = "erase"
  /\ \/ /\ ~ro_mode
        /\ flash' = [flash EXCEPT ![wk.e1] = Blank]
        /\ wk' = [wk EXCEPT !.pc = "ec"]
        /\ UNCHANGED <<tree, ro_mode, errs>>
     \/ EraseError(TornErase(flash[wk.e1]))
  /\ UNCHANGED <<up, eba_tbl, global_sqnum, op, may, cuts>>

\* The PEB is free again, check_protection_over() gives some protected PEBs
\* back to the used tree, and ensure_wear_leveling() is called.
WkEc ==
  /\ wk.pc = "ec"
  /\ \/ /\ ~ro_mode
        /\ flash' = [flash EXCEPT ![wk.e1].ec = "ok"]
        /\ \E over \in SUBSET In("prot") :
             tree' = [p \in PEB |-> IF p = wk.e1 THEN "free"
                                    ELSE IF p \in over THEN "used" ELSE tree[p]]
        /\ wk' = [IdleWk EXCEPT !.pc = "ensure"]
        /\ UNCHANGED <<ro_mode, errs>>
     \/ EraseError(TornEc(flash[wk.e1]))
  /\ UNCHANGED <<up, eba_tbl, global_sqnum, op, may, cuts>>

\* The PEB is marked bad, unless no PEB is left in reserve for bad ones or
\* marking fails.
WkBad ==
  /\ wk.pc = "bad"
  /\ \/ /\ flash' = [flash EXCEPT ![wk.e1].bad = TRUE]
        /\ tree' = [tree EXCEPT ![wk.e1] = "bad"]
        /\ UNCHANGED ro_mode
     \/ /\ tree' = [tree EXCEPT ![wk.e1] = "gone"]
        /\ ro_mode' = TRUE
        /\ UNCHANGED flash
  /\ wk' = IdleWk
  /\ UNCHANGED <<up, eba_tbl, global_sqnum, op, may, errs, cuts>>

-----------------------------------------------------------------------------
(* wear_leveling_worker() and ubi_eba_copy_leb(). *)

\* No move is needed or possible.  While attaching there is nothing in the used
\* and scrub trees yet.
WkNoMove ==
  /\ wk.pc = "ensure"
  /\ \/ up = "init" \/ In("free") = {} \/ In("scrub") = {} \/ global_sqnum >= MaxSqnum
  /\ wk' = IdleWk
  /\ UNCHANGED <<flash, up, eba_tbl, tree, global_sqnum, ro_mode, op, may, errs, cuts>>

\* A PEB to scrub, or else a used one, is to be moved to a free one.
WkMove ==
  /\ wk.pc = "ensure" /\ up = "on" /\ global_sqnum < MaxSqnum
  /\ \E e1 \in (IF In("scrub") # {} THEN In("scrub") ELSE In("used")), e2 \in In("free") :
       /\ tree' = [tree EXCEPT ![e1] = "move", ![e2] = "move"]
       /\ wk' = [IdleWk EXCEPT !.pc = "mread", !.e1 = e1, !.e2 = e2,
                               !.scrub = (In("scrub") # {})]
  /\ UNCHANGED <<flash, up, eba_tbl, global_sqnum, ro_mode, op, may, errs, cuts>>

\* Mutant of NotMoved: the target is not erased.
NotMovedNoErase ==
  /\ tree' = [tree EXCEPT ![wk.e1] = IF wk.scrub THEN "scrub" ELSE "used", ![wk.e2] = "erase"]
  /\ wk' = IdleWk
  /\ UNCHANGED <<eba_tbl, ro_mode>>

\* out_not_moved: e1 goes back where it was, e2 is erased.
NotMoved ==
  /\ tree' = [tree EXCEPT ![wk.e1] = IF wk.scrub THEN "scrub" ELSE "used", ![wk.e2] = "erase"]
  /\ wk' = [IdleWk EXCEPT !.pc = "erase", !.e1 = wk.e2]
  /\ UNCHANGED <<eba_tbl, ro_mode>>

\* out_error: both WL entries are freed.
MoveError ==
  /\ tree' = [tree EXCEPT ![wk.e1] = "gone", ![wk.e2] = "gone"]
  /\ ro_mode' = TRUE
  /\ wk' = IdleWk
  /\ UNCHANGED eba_tbl

\* The LEB was "not moved for some reason", which is how the worker takes every
\* result greater than 1: e1 is protected and e2 counts as used.
MoveCancelled ==
  /\ tree' = [tree EXCEPT ![wk.e1] = "prot", ![wk.e2] = "used"]
  /\ wk' = IdleWk
  /\ UNCHANGED <<eba_tbl, ro_mode>>

\* Mutant of MoveDone: the wrong one of the two is erased.
MoveDoneSwapped ==
  /\ tree' = [tree EXCEPT ![wk.e1] = "used", ![wk.e2] = "erase"]
  /\ wk' = [IdleWk EXCEPT !.pc = "erase", !.e1 = wk.e2]
  /\ UNCHANGED ro_mode

\* The copy is complete: e2 is used and e1 is erased.
MoveDone ==
  /\ tree' = [tree EXCEPT ![wk.e1] = "erase", ![wk.e2] = "used"]
  /\ wk' = [IdleWk EXCEPT !.pc = "erase", !.e1 = wk.e1]
  /\ UNCHANGED ro_mode

\* The VID header and the data of e1 are read.  The LEB is not moved when it is
\* no longer mapped to e1 (or e1 has no VID header yet); the LEB lock does not
\* exist in U-Boot and leb_write_trylock() always succeeds.
WkRead ==
  /\ wk.pc = "mread"
  /\ LET r      == flash[wk.e1]
         mapped == r.vid = "ok" /\ eba_tbl[r.lnum] = wk.e1
         clean  == ReadsClean(r.data, Len(r.data))
     IN  \/ /\ r.vid # "bad" /\ ~mapped
            /\ NotMoved
            /\ UNCHANGED <<global_sqnum, errs>>
         \/ /\ mapped /\ clean
            /\ wk' = [wk EXCEPT !.pc = "mvid", !.sqnum = global_sqnum]
            /\ global_sqnum' = global_sqnum + 1
            /\ UNCHANGED <<tree, eba_tbl, ro_mode, errs>>
         \/ /\ \/ /\ r.vid = "bad" \/ (mapped /\ ~clean)
                  /\ UNCHANGED errs
               \/ Fault("io")
            /\ MoveError
            /\ UNCHANGED global_sqnum
  /\ UNCHANGED <<flash, up, op, may, cuts>>

\* Any error while programming the target or reading it back, -EROFS included.
CopyError(torn) ==
  /\ \/ /\ ~ro_mode /\ (Fault("write") \/ Fault("io"))
        /\ \E r \in torn : flash' = [flash EXCEPT ![wk.e2] = r]
     \/ /\ ro_mode
        /\ UNCHANGED <<flash, errs>>
  /\ MoveError

\* The VID header of e1 is written to e2 with a new sequence number, as a copy
\* with the CRC of the data when there is any, and read back.
WkVid ==
  /\ wk.pc = "mvid"
  /\ LET r    == flash[wk.e1]
         some == r.data # << >>
         good == WithVid(flash[wk.e2], r.lnum, wk.sqnum, some \/ r.copy_flag,
                         IF some THEN r.data ELSE r.data_crc)
     IN  \/ /\ ~ro_mode /\ some
            /\ flash' = [flash EXCEPT ![wk.e2] = good]
            /\ wk' = [wk EXCEPT !.pc = "mdata"]
            /\ UNCHANGED <<eba_tbl, tree, ro_mode, errs>>
         \/ /\ ~ro_mode /\ ~some
            /\ flash' = [flash EXCEPT ![wk.e2] = good]
            /\ eba_tbl' = [eba_tbl EXCEPT ![r.lnum] = wk.e2]
            /\ MoveDone
            /\ UNCHANGED errs
         \/ /\ ~ro_mode /\ Fault("bitflip")
            /\ flash' = [flash EXCEPT ![wk.e2] = good]
            /\ NotMoved
         \/ /\ ~ro_mode /\ Fault("novid")
            /\ \E s \in TornVid(flash[wk.e2]) : flash' = [flash EXCEPT ![wk.e2] = s]
            /\ MoveCancelled
         \/ CopyError(TornVid(flash[wk.e2]) \cup {good})
  /\ UNCHANGED <<up, global_sqnum, op, may, cuts>>

\* The data is written to e2, read back and compared.  When it differs the code
\* leaves the mapping alone but still returns zero.
WkData ==
  /\ wk.pc = "mdata"
  /\ LET r    == flash[wk.e1]
         good == [flash EXCEPT ![wk.e2] = WithData(@, r.data)]
     IN  \/ /\ ~ro_mode
            /\ flash' = good
            /\ eba_tbl' = [eba_tbl EXCEPT ![r.lnum] = wk.e2]
            /\ MoveDone
            /\ UNCHANGED errs
         \/ /\ ~ro_mode /\ Fault("bitflip")
            /\ flash' = good
            /\ NotMoved
         \/ /\ ~ro_mode /\ Fault("mismatch")
            /\ \E d \in Garbled(r.data) \cup {r.data} :
                 flash' = [flash EXCEPT ![wk.e2] = WithData(@, d)]
            /\ MoveDone
            /\ UNCHANGED eba_tbl
         \/ CopyError(TornData(flash[wk.e2], r.data))
  /\ UNCHANGED <<up, global_sqnum, op, may, cuts>>

-----------------------------------------------------------------------------
(* Power cuts and attaching. *)

\* What the flash may hold if the power fails now: the operation about to be
\* done has not begun, or was interrupted.
Interrupted ==
  LET At(p, rs) == {[flash EXCEPT ![p] = r] : r \in rs}
      Data == ReadFirst(flash[op.from].data, Len(op.want) - Len(op.buf)) \o op.buf
  IN  CASE wk.pc = "erase" -> At(wk.e1, TornErase(flash[wk.e1]))
        [] wk.pc = "ec"    -> At(wk.e1, TornEc(flash[wk.e1]))
        [] wk.pc = "mvid"  -> At(wk.e2, TornVid(flash[wk.e2]))
        [] wk.pc = "mdata" -> At(wk.e2, TornData(flash[wk.e2], flash[wk.e1].data))
        [] wk.pc = "idle" /\ op.pc \in {"vid", "rvid"} -> At(op.pnum, TornVid(flash[op.pnum]))
        [] wk.pc = "idle" /\ op.pc = "data"   -> At(op.pnum, TornData(flash[op.pnum], op.buf))
        [] wk.pc = "idle" /\ op.pc = "rdata"  -> At(op.pnum, TornData(flash[op.pnum], Data))
        [] wk.pc = "idle" /\ op.pc = "append" -> At(op.from, TornData(flash[op.from], op.buf))
        [] OTHER -> {flash}

PowerCut ==
  /\ up # "off" /\ cuts < MaxCuts
  /\ flash' \in Interrupted
  /\ up' = "off"
  /\ eba_tbl' = [l \in LEB |-> None]
  /\ tree' = [p \in PEB |-> "gone"]
  /\ global_sqnum' = 0
  /\ ro_mode' = FALSE
  /\ op' = IdleOp
  /\ wk' = IdleWk
  /\ cuts' = cuts + 1
  /\ UNCHANGED <<may, errs>>

\* ubi_scan(), ubi_eba_init_scan() and the lists ubi_wl_init_scan() works from.
\* A PEB with a bad EC header, or with bit-flips in its headers, is to be moved.
Attach ==
  /\ up = "off" /\ ~ScanFails
  /\ up' = "init"
  /\ \E winner \in [LEB -> PEB \cup {None}] :
       /\ \A l \in LEB : IsWinner(l, winner[l])
       /\ eba_tbl' = winner
       /\ may' = [l \in LEB |-> {DataOf(winner[l])}]
       /\ \E flip \in PEB \cup {None} :
            /\ IF flip = None THEN UNCHANGED errs ELSE Fault("bitflip")
            /\ tree' = [p \in PEB |->
                 LET c == ScanClass(flash[p])
                 IN  IF c \in {"bad", "free"} THEN c
                     ELSE IF c = "used" /\ winner[flash[p].lnum] = p
                       THEN IF flash[p].ec = "bad" \/ flip = p THEN "scrub" ELSE "used"
                       ELSE "todo"]
  /\ \E m \in {0} \cup {flash[p].sqnum : p \in Seen} :
       IsMaxSqnum(m) /\ global_sqnum' = AfterScan(m)
  /\ UNCHANGED <<flash, ro_mode, op, wk, cuts>>

\* ubi_wl_init_scan() erases the PEBs of the erase and corr lists one by one.
InitErase(p) ==
  /\ up = "init" /\ wk.pc = "idle" /\ tree[p] = "todo"
  /\ tree' = [tree EXCEPT ![p] = "erase"]
  /\ wk' = [IdleWk EXCEPT !.pc = "erase", !.e1 = p]
  /\ UNCHANGED <<flash, up, eba_tbl, global_sqnum, ro_mode, op, may, errs, cuts>>

\* Mutant of InitDone: the lists are not worked off before the device is used.
InitDoneEarly ==
  /\ up = "init" /\ wk.pc = "idle"
  /\ up' = "on"
  /\ wk' = [IdleWk EXCEPT !.pc = "ensure"]
  /\ UNCHANGED <<flash, eba_tbl, tree, global_sqnum, ro_mode, op, may, errs, cuts>>

InitDone ==
  /\ up = "init" /\ wk.pc = "idle" /\ In("todo") = {}
  /\ up' = "on"
  /\ wk' = [IdleWk EXCEPT !.pc = "ensure"]
  /\ UNCHANGED <<flash, eba_tbl, tree, global_sqnum, ro_mode, op, may, errs, cuts>>

-----------------------------------------------------------------------------
(* The specification.  The flash starts formatted and empty. *)

Init ==
  /\ flash = [p \in PEB |-> Formatted]
  /\ up = "off"
  /\ eba_tbl = [l \in LEB |-> None]
  /\ tree = [p \in PEB |-> "gone"]
  /\ global_sqnum = 0
  /\ ro_mode = FALSE
  /\ op = IdleOp
  /\ wk = IdleWk
  /\ may = [l \in LEB |-> {<< >>}]
  /\ errs = 0 /\ cuts = 0

Call ==
  \E l \in LEB :
    \/ Write(l, << >>)
    \/ \E c \in Chunk : Write(l, <<c>>) \/ AppendTo(l, <<c>>) \/ Change(l, <<c>>)
    \/ \E kind \in {"unmap", "change0"} : Unmap(l, kind)
    \/ ReadScrub(l)

OpStep == \/ OpUnmapped \/ OpGet \/ OpVid \/ OpData \/ OpRemap \/ OpRetry
          \/ OpAppend \/ OpRecoverGet \/ OpRecoverVid \/ OpRecoverData
          \/ OpRecoverDone \/ OpRecoverRetry \/ OpRecoverFail

WkStep == WkErase \/ WkEc \/ WkBad \/ WkNoMove \/ WkMove \/ WkRead \/ WkVid \/ WkData

AttachStep == Attach \/ (\E p \in PEB : InitErase(p)) \/ InitDone

Next == Call \/ OpStep \/ WkStep \/ AttachStep \/ PowerCut

Spec == Init /\ [][Next]_vars

-----------------------------------------------------------------------------
(* What must hold. *)

\* Whatever is on the flash now, attaching finds every LEB with contents its
\* callers were promised: the last contents written by a call that returned
\* zero or, while a call is in progress or after one failed, what that call
\* may leave.  compare_lebs() decides from sqnum, copy_flag and the data CRC.
CrashSafe ==
  \A l \in LEB : \A p \in PEB \cup {None} : IsWinner(l, p) => DataOf(p) \in may[l]

\* Between calls a LEB reads as what was written to it, whatever moves,
\* scrubbing, retries and recoveries took place.
ReadBack == Ready => \A l \in LEB : Content(l) \in may[l]

\* "Each VID header has a unique sequence number": no two PEBs the scan may
\* compare have the same one, and the next one to be given out is greater than
\* all of them, across reboots too.
SqnumUnique ==
  /\ \A p, q \in Seen : p # q => flash[p].sqnum # flash[q].sqnum
  /\ up # "off" => \A p \in Seen : flash[p].sqnum < global_sqnum

\* At no moment more than two PEBs hold the same LEB: the old one and the one
\* that replaces it.  compare_lebs() is right about two, not about three.
AtMostTwoCopies ==
  \A l \in LEB : \A p, q, r \in Copies(l) : p = q \/ q = r \/ p = r

\* The EBA table and the WL trees agree: a mapped PEB carries the VID header of
\* its LEB and is never free, being erased or bad.  Between the put of the old
\* PEB and the update of the table, an atomic change is excepted.
MapSound ==
  up = "on" => \A l \in LEB :
    \/ eba_tbl[l] = None
    \/ op.pc = "remap" /\ op.lnum = l
    \/ /\ flash[eba_tbl[l]].vid = "ok" /\ flash[eba_tbl[l]].lnum = l
       /\ tree[eba_tbl[l]] \in {"used", "prot", "scrub", "move", "gone"}

\* Between calls every good PEB is free or holds a mapped LEB: no failed write,
\* retry, cancelled move or interrupted erasure loses one, unless UBI has gone
\* read-only.
NoLeak ==
  Ready /\ ~ro_mode => \A p \in PEB : \/ tree[p] \in {"free", "bad"}
                                      \/ \E l \in LEB : eba_tbl[l] = p

\* "Physical eraseblocks returned by 'ubi_wl_get_peb()' have only erase counter
\* header. The rest of the physical eraseblock contains only 0xFF bytes": so is
\* every PEB in the free tree and every one taken from it but not yet written.
FreeIsErased ==
  up # "off" => \A p \in PEB :
    \/ tree[p] = "free"
    \/ wk.pc = "idle" /\ op.pc \in {"vid", "rvid"} /\ op.pnum = p
    \/ wk.pc \in {"mread", "mvid"} /\ wk.e2 = p
    => flash[p] = Formatted

\* "Otherwise the older one (P) is selected": an interrupted copy never keeps
\* the device from being attached.
AttachPossible == ~ScanFails

\* "This function guarantees that in case of an unclean reboot the old contents
\* is preserved": a power cut during an atomic change leaves the old contents
\* or the new ones.
AtomicChange ==
  [][\A l \in LEB :
       op.kind = "change" /\ op.lnum = l /\ up' = "off" =>
         \A p \in PEB \cup {None} :
           IsWinner(l, p)' => \/ DataOf(p)' = op.want
                              \/ op.pc # "remap" /\ DataOf(p)' = Content(l)]_vars

\* "If the LEB is already locked, we just do not move it": while recover_peb()
\* runs, the LEB it has locked stays on the PEB it recovers.
RecoveredStaysPut ==
  op.pc \in {"rget", "rvid", "rdata", "rretry"} => eba_tbl[op.lnum] = op.from
=============================================================================
