----------------------------- MODULE UbiEbaBase -----------------------------
(***************************************************************************)
(* Types, and sequence numbers that are unique and grow, across retries,   *)
(* recoveries, moves and reboots, for every number of PEBs and LEBs, every *)
(* set of faults and every bound.                                          *)
(***************************************************************************)
EXTENDS UbiEbaInv, TLAPS

-----------------------------------------------------------------------------
(* What the flash operations leave is a PEB state. *)

\* Erased and formatted PEBs (do_sync_erase, ubi_io_write_ec_hdr) are PEB states.
LEMMA BlankType == Blank \in PebState /\ Formatted \in PebState
  <1>1. << >> \in Contents
    BY DEF Contents
  <1>2. Blank \in PebState
    BY Zenon, <1>1 DEF Blank, PebState
  <1>. QED  BY Zenon, <1>2 DEF Formatted, PebState

\* Writing a VID header (ubi_io_write_vid_hdr) gives a PEB state.
LEMMA WithVidType ==
  ASSUME NEW r \in PebState, NEW l \in LEB \cup {None}, NEW sq \in Nat, NEW c \in BOOLEAN,
         NEW crc \in Contents
  PROVE  WithVid(r, l, sq, c, crc) \in PebState
  BY Zenon DEF WithVid, PebState

\* Writing data (ubi_io_write) behind what is there gives a PEB state.
LEMMA WithDataType ==
  ASSUME NEW r \in PebState, NEW d \in Contents
  PROVE  WithData(r, d) \in PebState
  <1>1. r.data \o d \in Contents
    BY DEF PebState, Contents
  <1>. QED  BY Zenon, <1>1 DEF WithData, PebState

\* A half-programmed chunk is contents.
LEMMA JunkType == \A j \in Torn : <<j>> \in Contents
  BY MediaAssumption DEF Contents

\* So is what was programmed before it.
LEMMA PrefixType ==
  ASSUME NEW d \in Contents, NEW k \in 0 .. Len(d) - 1
  PROVE  SubSeq(d, 1, k) \in Contents
  BY DEF Contents

\* And both together.
LEMMA CatType ==
  ASSUME NEW d \in Contents, NEW e \in Contents
  PROVE  d \o e \in Contents /\ Len(d \o e) = Len(d) + Len(e)
  BY DEF Contents

\* An unfinished VID header gives a PEB state.
LEMMA TornVidType ==
  ASSUME NEW r \in PebState
  PROVE  TornVid(r) \subseteq PebState
  BY DEF TornVid, PebState

\* An unfinished data write leaves contents.
LEMMA CutType ==
  ASSUME NEW d \in Contents
  PROVE  Cut(d) \subseteq Contents
  <1>1. ASSUME NEW k \in 0 .. Len(d) - 1, NEW j \in Torn
        PROVE  SubSeq(d, 1, k) \o <<j>> \in Contents
    BY Zenon, PrefixType, JunkType, CatType
  <1>2. SUFFICES ASSUME NEW x \in Cut(d)
                 PROVE  x \in Contents
    BY Zenon
  <1>3. PICK k \in 0 .. Len(d) - 1 : x \in {SubSeq(d, 1, k) \o <<j>> : j \in Torn}
    BY Zenon, <1>2 DEF Cut
  <1>. QED  BY Zenon, <1>1, <1>3

\* An unfinished data write gives a PEB state.
LEMMA TornDataType ==
  ASSUME NEW r \in PebState, NEW d \in Contents
  PROVE  TornData(r, d) \subseteq PebState
  BY Zenon, CutType, WithDataType DEF TornData

\* Data an unfinished erasure has spoilt is contents.
LEMMA GarbledType ==
  ASSUME NEW d \in Contents
  PROVE  Garbled(d) \subseteq Contents
  <1>1. ASSUME NEW j \in Torn
        PROVE  [i \in DOMAIN d |-> j] \in Contents
    <2>1. DOMAIN d = 1 .. Len(d) /\ Len(d) \in Nat
      BY DEF Contents
    <2>2. j \in Chunk \cup {Junk, EccBad}
      BY Zenon, MediaAssumption
    <2>. QED  BY <2>1, <2>2 DEF Contents
  <1>. QED  BY Zenon, <1>1 DEF Garbled

\* An unfinished erasure gives a PEB state.
LEMMA TornEraseType ==
  ASSUME NEW r \in PebState
  PROVE  TornErase(r) \subseteq PebState
  <1>1. r.data \in Contents
    BY Zenon DEF PebState
  <1>2. ASSUME NEW d \in Garbled(r.data)
        PROVE  /\ [r EXCEPT !.data = d] \in PebState
               /\ [r EXCEPT !.ec = "bad", !.data = d] \in PebState
    BY Zenon, <1>1, GarbledType DEF PebState
  <1>3. [Blank EXCEPT !.ec = "bad", !.vid = "bad"] \in PebState
    BY Zenon, BlankType DEF PebState
  <1>. QED  BY Zenon, <1>2, <1>3, BlankType DEF TornErase

\* An unfinished EC header gives a PEB state.
LEMMA TornEcType ==
  ASSUME NEW r \in PebState
  PROVE  TornEc(r) \subseteq PebState
  BY DEF TornEc, PebState

\* What recover_peb() reads from the old PEB is contents.
LEMMA ReadFirstType ==
  ASSUME NEW d \in Contents, NEW n \in Int
  PROVE  ReadFirst(d, n) \in Contents
  <1>1. CASE n \in Nat
    BY <1>1 DEF ReadFirst, Contents
  <1>2. CASE n \notin Nat
    <2>1. 1 .. n = 1 .. 0
      BY <1>2
    <2>. QED  BY <2>1 DEF ReadFirst, Contents
  <1>. QED  BY Zenon, <1>1, <1>2

\* What a failed write to a fresh PEB leaves is contents.
LEMMA PartialType ==
  ASSUME NEW d \in Contents
  PROVE  Partial(d) \subseteq Contents
  <1>1. << >> \in Contents
    BY DEF Contents
  <1>. QED  BY Zenon, <1>1, CutType DEF Partial

-----------------------------------------------------------------------------
(* Type correctness.  An action reads fields that are None in other states, *)
(* so the type invariant is proved with what each program counter says.     *)

USE MediaAssumption, EbaAssumption

\* No call and no work in progress are states of op and wk.
LEMMA IdleType == IdleOp \in OpState /\ IdleWk \in WkState
  BY DEF IdleOp, IdleWk, OpState, WkState, OpPc, WkPc, Contents

\* The formatted flash, before the first attach, satisfies the invariant.
LEMMA InitType == Init => TypeInv
  <1>. SUFFICES ASSUME Init PROVE TypeInv
    BY Zenon
  <1>1. flash \in [PEB -> PebState]
    BY Zenon, BlankType DEF Init
  <1>2. may \in [LEB -> SUBSET Contents]
    BY DEF Init, Contents
  <1>3. op \in OpState /\ wk \in WkState
    BY Zenon, IdleType DEF Init
  <1>4. Wf
    BY Zenon DEF Init, Wf, IdleOp, IdleWk
  <1>. QED  BY Zenon, <1>1, <1>2, <1>3, <1>4 DEF Init, TypeInv, TypeOK, Trees

\* The call ubi_eba_write_leb() or an atomic change sets out with is well formed.
LEMMA BeginType ==
  ASSUME TypeInv, NEW l \in LEB, NEW kind \in {"write", "change"}, NEW d \in Contents,
         NEW allowed \in SUBSET Contents, Begin(l, kind, d, allowed)
  PROVE  /\ op' \in OpState /\ op'.pc = "get" /\ op'.lnum = l
         /\ global_sqnum' \in Nat
         /\ may' \in [LEB -> SUBSET Contents]
  <1>1. may' \in [LEB -> SUBSET Contents] /\ global_sqnum' \in Nat
    BY DEF Begin, TypeInv, TypeOK
  <1>2. op' = [pc |-> "get", kind |-> kind, lnum |-> l, pnum |-> None, from |-> None,
               buf |-> d, want |-> d, sqnum |-> global_sqnum, tries |-> 0]
    BY Zenon DEF Begin, IdleOp
  <1>. QED  BY Zenon, <1>1, <1>2 DEF TypeInv, TypeOK, OpState, OpPc

\* ubi_eba_write_leb() on an unmapped LEB starts with the types kept.
LEMMA WriteType ==
  ASSUME TypeInv, NEW l \in LEB, NEW d \in Contents, Write(l, d)
  PROVE  TypeInv'
  <1>1. Partial(d) \subseteq Contents
    BY Zenon, PartialType
  <1>2. /\ op' \in OpState /\ op'.pc = "get" /\ op'.lnum = l
        /\ global_sqnum' \in Nat
        /\ may' \in [LEB -> SUBSET Contents]
    BY Zenon, <1>1, BeginType DEF Write
  <1>3. Wf'
    BY Zenon, <1>2 DEF Write, TypeInv, Wf
  <1>. QED  BY Zenon, <1>2, <1>3 DEF Write, TypeInv, TypeOK

\* Reading a LEB gives contents.
LEMMA ContentType ==
  ASSUME TypeInv, NEW l \in LEB
  PROVE  Content(l) \in Contents
  BY DEF Content, TypeInv, TypeOK, PebState, Contents

\* ubi_eba_write_leb() on a mapped LEB starts with the types kept.
LEMMA AppendType ==
  ASSUME TypeInv, NEW l \in LEB, NEW d \in Contents, AppendTo(l, d)
  PROVE  TypeInv'
  <1>1. Content(l) \in Contents /\ Partial(d) \subseteq Contents
    BY Zenon, ContentType, PartialType
  <1>2. \A x \in Partial(d) : Content(l) \o x \in Contents
    BY Zenon, <1>1, CatType
  <1>3. Content(l) \o d \in Contents
    BY Zenon, <1>1, CatType
  <1>4. may' \in [LEB -> SUBSET Contents]
    BY ZenonT(30), <1>2 DEF AppendTo, TypeInv, TypeOK
  <1>5. op' \in OpState
    BY ZenonT(30), <1>3 DEF AppendTo, TypeInv, TypeOK, IdleOp, OpState, OpPc, Contents
  <1>6. Wf'
    BY DEF AppendTo, TypeInv, TypeOK, Wf, IdleOp
  <1>. QED  BY Zenon, <1>4, <1>5, <1>6 DEF AppendTo, TypeInv, TypeOK

\* ubi_wl_put_peb() keeps the types of what it changes.
LEMMA PutPebType ==
  ASSUME TypeInv, NEW p \in PEB, NEW next \in OpState, NEW failed \in OpState,
         PutPeb(p, next, failed)
  PROVE  /\ op' \in OpState /\ op' \in {next, failed}
         /\ wk' \in WkState
         /\ wk'.pc \in {"erase", "ec", "bad", "mread", "mvid", "mdata"} => wk'.e1 \in PEB
         /\ wk'.pc \in {"mread", "mvid", "mdata"} => wk'.e2 \in PEB
         /\ tree' \in [PEB -> Trees]
         /\ ro_mode' \in BOOLEAN
  <1>1. CASE tree[p] \in {"used", "scrub", "prot"}
    <2>1. wk' = [pc |-> "erase", e1 |-> p, e2 |-> None, scrub |-> FALSE, sqnum |-> 0]
      BY Zenon, <1>1 DEF PutPeb, IdleWk
    <2>. QED  BY Zenon, <1>1, <2>1 DEF PutPeb, TypeInv, TypeOK, WkState, WkPc, Trees
  <1>2. CASE tree[p] \notin {"used", "scrub", "prot"}
    BY Zenon, <1>2 DEF PutPeb, TypeInv, TypeOK, Wf
  <1>. QED  BY Zenon, <1>1, <1>2

\* ubi_eba_unmap_leb() keeps the types.
LEMMA UnmapType ==
  ASSUME TypeInv, NEW l \in LEB, NEW kind \in {"unmap", "change0"}, Unmap(l, kind)
  PROVE  TypeInv'
  <1>. DEFINE next == [IdleOp EXCEPT !.pc = "unmapped", !.kind = kind, !.lnum = l]
  <1>1. next \in OpState /\ next.pc = "unmapped" /\ next.lnum = l
    BY Zenon, IdleType DEF IdleOp, OpState, OpPc
  <1>2. IdleOp \in OpState /\ IdleOp.pc = "idle"
    BY Zenon, IdleType DEF IdleOp
  <1>3. eba_tbl[l] \in PEB /\ PutPeb(eba_tbl[l], next, IdleOp)
    BY Zenon DEF Unmap, TypeInv, TypeOK
  <1>. HIDE DEF next
  <1>4. /\ op' \in OpState /\ op' \in {next, IdleOp}
        /\ wk' \in WkState
        /\ wk'.pc \in {"erase", "ec", "bad", "mread", "mvid", "mdata"} => wk'.e1 \in PEB
        /\ wk'.pc \in {"mread", "mvid", "mdata"} => wk'.e2 \in PEB
        /\ tree' \in [PEB -> Trees]
        /\ ro_mode' \in BOOLEAN
    BY Zenon, <1>1, <1>2, <1>3, PutPebType
  <1>5. Wf'
    BY Zenon, <1>1, <1>2, <1>4 DEF Wf
  <1>6. may' \in [LEB -> SUBSET Contents]
    <2>1. Garbled(Content(l)) \subseteq Contents /\ << >> \in Contents
      BY ContentType, GarbledType DEF Contents
    <2>. QED  BY Zenon, <2>1 DEF Unmap, TypeInv, TypeOK
  <1>7. eba_tbl' \in [LEB -> PEB \cup {None}]
    BY Zenon DEF Unmap, TypeInv, TypeOK
  <1>. QED  BY Zenon, <1>4, <1>5, <1>6, <1>7 DEF Unmap, TypeInv, TypeOK

\* Counting a fault keeps the counter a number.
LEMMA FaultType ==
  ASSUME TypeInv, NEW f, Fault(f)
  PROVE  errs' \in Nat
  BY DEF Fault, TypeInv, TypeOK

\* ubi_eba_atomic_leb_change() starts with the types kept.
LEMMA ChangeType ==
  ASSUME TypeInv, NEW l \in LEB, NEW d \in Contents, Change(l, d)
  PROVE  TypeInv'
  <1>1. (IF eba_tbl[l] = None THEN Partial(d) ELSE {d}) \subseteq Contents
    BY Zenon, PartialType
  <1>2. /\ op' \in OpState /\ op'.pc = "get" /\ op'.lnum = l
        /\ global_sqnum' \in Nat
        /\ may' \in [LEB -> SUBSET Contents]
    BY <1>1, BeginType DEF Change
  <1>3. Wf'
    BY Zenon, <1>2 DEF Change, TypeInv, Wf
  <1>. QED  BY Zenon, <1>2, <1>3 DEF Change, TypeInv, TypeOK

\* ubi_wl_scrub_peb() keeps the types.
LEMMA ReadScrubType ==
  ASSUME TypeInv, NEW l \in LEB, ReadScrub(l)
  PROVE  TypeInv'
  <1>1. tree' \in [PEB -> Trees] /\ ro_mode' \in BOOLEAN
    BY Zenon DEF ReadScrub, TypeInv, TypeOK, Trees
  <1>2. wk' \in WkState /\ (wk' = wk \/ wk'.pc = "ensure")
    <2>1. [IdleWk EXCEPT !.pc = "ensure"] \in WkState /\ [IdleWk EXCEPT !.pc = "ensure"].pc = "ensure"
      BY Zenon, IdleType DEF IdleWk, WkState, WkPc
    <2>. QED  BY Zenon, <2>1 DEF ReadScrub, TypeInv, TypeOK
  <1>3. Wf'
    BY Zenon, <1>2 DEF ReadScrub, TypeInv, Wf
  <1>. QED  BY Zenon, <1>1, <1>2, <1>3, FaultType DEF ReadScrub, TypeInv, TypeOK

\* A call that returns zero leaves the types.
LEMMA SucceedType ==
  ASSUME TypeInv, op.pc # "idle", Succeed
  PROVE  op' \in OpState /\ op'.pc = "idle" /\ may' \in [LEB -> SUBSET Contents]
  <1>1. op' \in OpState /\ op'.pc = "idle"
    BY Zenon, IdleType DEF Succeed, IdleOp
  <1>2. op.want \in Contents
    BY Zenon DEF TypeInv, TypeOK, OpState
  <1>. QED  BY Zenon, <1>1, <1>2 DEF Succeed, TypeInv, TypeOK, Wf

\* So does one that fails into read-only mode.
LEMMA FailRoType ==
  ASSUME TypeInv, FailRo
  PROVE  /\ op' \in OpState /\ op'.pc = "idle" /\ may' \in [LEB -> SUBSET Contents]
         /\ ro_mode' \in BOOLEAN
  BY Zenon, IdleType DEF FailRo, IdleOp, TypeInv, TypeOK

\* The end of an unmap, or its going on as a write, keeps the types.
LEMMA OpUnmappedType ==
  ASSUME TypeInv, OpUnmapped
  PROVE  TypeInv'
  <1>1. op.lnum \in LEB /\ op.pc # "idle" /\ << >> \in Contents
    BY DEF OpUnmapped, Running, TypeInv, Wf, Contents
  <1>2. /\ op' \in OpState /\ global_sqnum' \in Nat /\ may' \in [LEB -> SUBSET Contents]
        /\ op'.pc = "idle" \/ (op'.pc = "get" /\ op'.lnum \in LEB)
    <2>1. CASE ro_mode /\ op' = IdleOp /\ UNCHANGED <<may, global_sqnum>>
      BY Zenon, <2>1, IdleType DEF IdleOp, TypeInv, TypeOK
    <2>2. CASE Succeed /\ UNCHANGED global_sqnum
      BY Zenon, <1>1, <2>2, SucceedType DEF TypeInv, TypeOK
    <2>3. CASE Begin(op.lnum, "write", << >>, {<< >>})
      BY <1>1, <2>3, BeginType
    <2>. QED  BY Zenon, <2>1, <2>2, <2>3 DEF OpUnmapped
  <1>3. Wf'
    BY Zenon, <1>2 DEF OpUnmapped, TypeInv, Wf
  <1>. QED  BY Zenon, <1>2, <1>3 DEF OpUnmapped, TypeInv, TypeOK

\* ubi_wl_get_peb() keeps the types and gives the call a PEB.
LEMMA OpGetType ==
  ASSUME TypeInv, OpGet
  PROVE  TypeInv'
  <1>1. CASE In("free") = {} /\ op' = IdleOp /\ UNCHANGED tree
    <2>1. op' \in OpState /\ Wf'
      BY Zenon, <1>1, IdleType DEF OpGet, IdleOp, TypeInv, Wf
    <2>. QED  BY Zenon, <1>1, <2>1 DEF OpGet, TypeInv, TypeOK
  <1>2. ASSUME NEW p \in In("free"), tree' = [tree EXCEPT ![p] = "prot"],
               op' = [op EXCEPT !.pc = "vid", !.pnum = p]
        PROVE  TypeInv'
    <2>1. p \in PEB
      BY Zenon DEF In
    <2>2. op' \in OpState /\ op'.pc = "vid" /\ op'.pnum = p /\ op'.lnum = op.lnum
      BY ZenonT(30), <1>2, <2>1 DEF TypeInv, TypeOK, OpState, OpPc
    <2>3. Wf'
      BY Zenon, <2>1, <2>2 DEF OpGet, Running, TypeInv, Wf
    <2>4. tree' \in [PEB -> Trees]
      BY Zenon, <1>2 DEF TypeInv, TypeOK, Trees
    <2>. QED  BY Zenon, <2>2, <2>3, <2>4 DEF OpGet, TypeInv, TypeOK
  <1>. QED  BY Zenon, <1>1, <1>2 DEF OpGet

\* What the steps that put a PEB leave in the variables the put may change.
PutDone ==
  /\ op' \in OpState
  /\ wk' \in WkState
  /\ tree' \in [PEB -> Trees]
  /\ ro_mode' \in BOOLEAN
  /\ may' \in [LEB -> SUBSET Contents]
  /\ eba_tbl' \in [LEB -> PEB \cup {None}]
  /\ Wf'

\* A call that only goes on to another point is well formed.
LEMMA OpAtType ==
  ASSUME TypeInv, op.pc # "idle", NEW pc \in OpPc
  PROVE  /\ [op EXCEPT !.pc = pc] \in OpState
         /\ [op EXCEPT !.pc = pc].pc = pc
         /\ [op EXCEPT !.pc = pc].lnum = op.lnum
         /\ [op EXCEPT !.pc = pc].pnum = op.pnum
         /\ [op EXCEPT !.pc = pc].from = op.from
  BY Zenon DEF TypeInv, TypeOK, OpState

\* The end of a write to a new PEB, old one put or not, keeps the types.
LEMMA WrittenType ==
  ASSUME TypeInv, op.pc \in {"vid", "data"}, Written
  PROVE  PutDone
  <1>1. op.lnum \in LEB /\ op.pnum \in PEB
    BY Zenon DEF TypeInv, Wf
  <1>2. CASE op.kind = "change" /\ eba_tbl[op.lnum] # None
    <2>. DEFINE next == [op EXCEPT !.pc = "remap"]
    <2>1. next \in OpState /\ next.pc = "remap" /\ next.lnum = op.lnum /\ next.pnum = op.pnum
      BY Zenon, OpAtType DEF OpPc
    <2>2. IdleOp \in OpState /\ IdleOp.pc = "idle"
      BY Zenon, IdleType DEF IdleOp
    <2>3. eba_tbl[op.lnum] \in PEB
      BY Zenon, <1>1, <1>2 DEF TypeInv, TypeOK
    <2>4. PutPeb(eba_tbl[op.lnum], next, IdleOp) /\ UNCHANGED <<eba_tbl, may>>
      BY Zenon, <1>2 DEF Written
    <2>. HIDE DEF next
    <2>5. /\ op' \in OpState /\ op' \in {next, IdleOp}
          /\ wk' \in WkState
          /\ wk'.pc \in {"erase", "ec", "bad", "mread", "mvid", "mdata"} => wk'.e1 \in PEB
          /\ wk'.pc \in {"mread", "mvid", "mdata"} => wk'.e2 \in PEB
          /\ tree' \in [PEB -> Trees]
          /\ ro_mode' \in BOOLEAN
      BY Zenon, <2>1, <2>2, <2>3, <2>4, PutPebType
    <2>6. Wf'
      BY Zenon, <1>1, <2>1, <2>2, <2>5 DEF Wf
    <2>. QED  BY Zenon, <2>4, <2>5, <2>6 DEF PutDone, TypeInv, TypeOK
  <1>3. CASE ~(op.kind = "change" /\ eba_tbl[op.lnum] # None)
    <2>1. /\ eba_tbl' = [eba_tbl EXCEPT ![op.lnum] = op.pnum] /\ Succeed
          /\ UNCHANGED <<tree, wk, ro_mode>>
      BY Zenon, <1>3 DEF Written
    <2>2. op' \in OpState /\ op'.pc = "idle" /\ may' \in [LEB -> SUBSET Contents]
      BY Zenon, <2>1, SucceedType
    <2>3. Wf'
      BY Zenon, <2>1, <2>2 DEF TypeInv, Wf
    <2>. QED  BY Zenon, <1>1, <2>1, <2>2, <2>3 DEF PutDone, TypeInv, TypeOK
  <1>. QED  BY Zenon, <1>2, <1>3

\* The write_error path of a write to a new PEB keeps the types.
LEMMA WriteErrorType ==
  ASSUME TypeInv, op.pc \in {"vid", "data"}, NEW torn \in SUBSET PebState, WriteError(torn)
  PROVE  TypeInv'
  <1>1. op.lnum \in LEB /\ op.pnum \in PEB
    BY Zenon DEF TypeInv, Wf
  <1>2. flash' \in [PEB -> PebState] /\ errs' \in Nat
    BY <1>1 DEF WriteError, Fault, TypeInv, TypeOK
  <1>3. CASE FailRo /\ UNCHANGED <<tree, wk>>
    <2>1. /\ op' \in OpState /\ op'.pc = "idle" /\ may' \in [LEB -> SUBSET Contents]
          /\ ro_mode' \in BOOLEAN
      BY Zenon, <1>3, FailRoType
    <2>2. Wf'
      BY Zenon, <1>3, <2>1 DEF TypeInv, Wf
    <2>. QED  BY Zenon, <1>2, <1>3, <2>1, <2>2 DEF WriteError, TypeInv, TypeOK
  <1>4. CASE PutPeb(op.pnum, [op EXCEPT !.pc = "retry"], IdleOp) /\ UNCHANGED may
    <2>. DEFINE next == [op EXCEPT !.pc = "retry"]
    <2>1. next \in OpState /\ next.pc = "retry" /\ next.lnum = op.lnum /\ next.pnum = op.pnum
      BY Zenon, OpAtType DEF OpPc
    <2>2. IdleOp \in OpState /\ IdleOp.pc = "idle"
      BY Zenon, IdleType DEF IdleOp
    <2>. HIDE DEF next
    <2>3. /\ op' \in OpState /\ op' \in {next, IdleOp}
          /\ wk' \in WkState
          /\ wk'.pc \in {"erase", "ec", "bad", "mread", "mvid", "mdata"} => wk'.e1 \in PEB
          /\ wk'.pc \in {"mread", "mvid", "mdata"} => wk'.e2 \in PEB
          /\ tree' \in [PEB -> Trees]
          /\ ro_mode' \in BOOLEAN
      BY Zenon, <1>1, <1>4, <2>1, <2>2, PutPebType DEF next
    <2>4. Wf'
      BY Zenon, <1>1, <2>1, <2>2, <2>3 DEF Wf
    <2>. QED  BY Zenon, <1>2, <1>4, <2>3, <2>4 DEF WriteError, TypeInv, TypeOK
  <1>. QED  BY Zenon, <1>3, <1>4 DEF WriteError

\* Writing the VID header of the new PEB keeps the types.
LEMMA OpVidType ==
  ASSUME TypeInv, OpVid
  PROVE  TypeInv'
  <1>1. op.pc = "vid" /\ op.lnum \in LEB /\ op.pnum \in PEB
    BY Zenon DEF OpVid, Running, TypeInv, Wf
  <1>. DEFINE crc == IF op.kind = "change" THEN op.buf ELSE << >>
              good == WithVid(flash[op.pnum], op.lnum, op.sqnum, op.kind = "change", crc)
              torn == TornVid(flash[op.pnum]) \cup {good}
  <1>2. crc \in Contents /\ op.sqnum \in Nat /\ flash[op.pnum] \in PebState
    BY <1>1 DEF TypeInv, TypeOK, OpState, Contents
  <1>3. good \in PebState /\ torn \in SUBSET PebState
    <2>1. op.lnum \in LEB \cup {None} /\ (op.kind = "change") \in BOOLEAN
      BY Zenon, <1>1
    <2>. HIDE DEF crc
    <2>2. good \in PebState
      BY Zenon, <1>2, <2>1, WithVidType
    <2>. QED  BY Zenon, <1>2, <2>2, TornVidType
  <1>4. \/ WriteError(torn)
        \/ /\ flash' = [flash EXCEPT ![op.pnum] = good]
           /\ \/ Written
              \/ /\ op' = [op EXCEPT !.pc = "data"]
                 /\ UNCHANGED <<eba_tbl, may, tree, wk, ro_mode>>
           /\ UNCHANGED <<up, global_sqnum, errs, cuts>>
    BY Zenon DEF OpVid
  <1>. HIDE DEF good, torn
  <1>5. CASE WriteError(torn)
    BY Zenon, <1>1, <1>3, <1>5, WriteErrorType
  <1>6. CASE ~WriteError(torn)
    <2>1. flash' \in [PEB -> PebState]
      BY Zenon, <1>1, <1>3, <1>4, <1>6 DEF TypeInv, TypeOK
    <2>2. PutDone
      <3>1. CASE Written
        BY Zenon, <1>1, <3>1, WrittenType
      <3>2. CASE op' = [op EXCEPT !.pc = "data"] /\ UNCHANGED <<eba_tbl, may, tree, wk, ro_mode>>
        <4>1. op' \in OpState /\ op'.pc = "data" /\ op'.lnum = op.lnum /\ op'.pnum = op.pnum
          BY Zenon, <1>1, <3>2, OpAtType DEF OpPc
        <4>2. Wf'
          BY Zenon, <1>1, <3>2, <4>1 DEF TypeInv, Wf
        <4>. QED  BY Zenon, <3>2, <4>1, <4>2 DEF PutDone, TypeInv, TypeOK
      <3>. QED  BY Zenon, <1>4, <1>6, <3>1, <3>2
    <2>. QED  BY Zenon, <1>4, <1>6, <2>1, <2>2 DEF PutDone, TypeInv, TypeOK
  <1>. QED  BY Zenon, <1>5, <1>6

\* Writing the data of the new PEB keeps the types.
LEMMA OpDataType ==
  ASSUME TypeInv, OpData
  PROVE  TypeInv'
  <1>1. op.pc = "data" /\ op.lnum \in LEB /\ op.pnum \in PEB
    BY Zenon DEF OpData, Running, TypeInv, Wf
  <1>2. flash[op.pnum] \in PebState /\ op.buf \in Contents
    BY Zenon, <1>1 DEF TypeInv, TypeOK, OpState
  <1>3. CASE WriteError(TornData(flash[op.pnum], op.buf))
    BY Zenon, <1>1, <1>2, <1>3, TornDataType, WriteErrorType
  <1>4. CASE ~WriteError(TornData(flash[op.pnum], op.buf))
    <2>1. flash' \in [PEB -> PebState]
      BY <1>1, <1>2, <1>4, WithDataType DEF OpData, TypeInv, TypeOK
    <2>2. PutDone
      BY Zenon, <1>1, <1>4, WrittenType DEF OpData
    <2>. QED  BY Zenon, <1>4, <2>1, <2>2 DEF OpData, PutDone, TypeInv, TypeOK
  <1>. QED  BY Zenon, <1>3, <1>4

\* Remapping at the end of an atomic change keeps the types.
LEMMA OpRemapType ==
  ASSUME TypeInv, OpRemap
  PROVE  TypeInv'
  <1>1. op.pc = "remap" /\ op.lnum \in LEB /\ op.pnum \in PEB
    BY Zenon DEF OpRemap, Running, TypeInv, Wf
  <1>2. op' \in OpState /\ op'.pc = "idle" /\ may' \in [LEB -> SUBSET Contents]
    BY Zenon, <1>1, SucceedType DEF OpRemap
  <1>3. Wf'
    BY Zenon, <1>2 DEF OpRemap, TypeInv, Wf
  <1>. QED  BY Zenon, <1>1, <1>2, <1>3 DEF OpRemap, TypeInv, TypeOK

\* Retrying with another PEB, or giving up, keeps the types.
LEMMA OpRetryType ==
  ASSUME TypeInv, OpRetry
  PROVE  TypeInv'
  <1>1. op.pc = "retry" /\ op.lnum \in LEB
    BY Zenon DEF OpRetry, Running, TypeInv, Wf
  <1>2. CASE ro_mode' = TRUE /\ Succeed /\ UNCHANGED global_sqnum
    <2>1. op' \in OpState /\ op'.pc = "idle" /\ may' \in [LEB -> SUBSET Contents]
      BY Zenon, <1>1, <1>2, SucceedType
    <2>2. Wf'
      BY Zenon, <2>1 DEF OpRetry, TypeInv, Wf
    <2>. QED  BY Zenon, <1>2, <2>1, <2>2 DEF OpRetry, TypeInv, TypeOK
  <1>3. CASE ~(ro_mode' = TRUE /\ Succeed /\ UNCHANGED global_sqnum)
    <2>1. /\ op' = [op EXCEPT !.pc = "get", !.tries = @ + 1, !.sqnum = global_sqnum]
          /\ global_sqnum' = global_sqnum + 1
          /\ UNCHANGED <<ro_mode, may>>
      BY Zenon, <1>3 DEF OpRetry
    <2>2. op' \in OpState /\ op'.pc = "get" /\ op'.lnum = op.lnum
      <3>1. op \in OpState /\ op.tries + 1 \in Nat /\ global_sqnum \in Nat
        BY DEF TypeInv, TypeOK, OpState
      <3>. QED  BY Zenon, <2>1, <3>1 DEF OpState, OpPc
    <2>3. Wf'
      BY Zenon, <1>1, <2>2 DEF OpRetry, TypeInv, Wf
    <2>. QED  BY <2>1, <2>2, <2>3 DEF OpRetry, TypeInv, TypeOK
  <1>. QED  BY Zenon, <1>2, <1>3

-----------------------------------------------------------------------------
(* Type correctness: writing to a mapped LEB and recover_peb(). *)

\* Writing behind the data of a mapped PEB keeps the types.
LEMMA OpAppendType ==
  ASSUME TypeInv, OpAppend
  PROVE  TypeInv'
  <1>1. op.pc = "append" /\ op.lnum \in LEB /\ op.from \in PEB
    BY Zenon DEF OpAppend, Running, TypeInv, Wf
  <1>2. flash[op.from] \in PebState /\ op.buf \in Contents
    BY Zenon, <1>1 DEF TypeInv, TypeOK, OpState
  <1>3. flash' \in [PEB -> PebState] /\ errs' \in Nat
    <2>1. TornData(flash[op.from], op.buf) \subseteq PebState
          /\ WithData(flash[op.from], op.buf) \in PebState
      BY Zenon, <1>2, TornDataType, WithDataType
    <2>. QED  BY <1>1, <2>1 DEF OpAppend, Fault, TypeInv, TypeOK
  <1>4. /\ op' \in OpState /\ may' \in [LEB -> SUBSET Contents] /\ ro_mode' \in BOOLEAN
        /\ op'.pc = "idle" \/ (op'.pc = "rget" /\ op'.lnum = op.lnum /\ op'.from = op.from)
    <2>1. CASE Succeed /\ UNCHANGED ro_mode
      BY Zenon, <1>1, <2>1, SucceedType DEF TypeInv, TypeOK
    <2>2. CASE op' = [op EXCEPT !.pc = "rget"] /\ UNCHANGED <<ro_mode, may>>
      <3>1. op' \in OpState /\ op'.pc = "rget" /\ op'.lnum = op.lnum /\ op'.from = op.from
        BY Zenon, <1>1, <2>2, OpAtType DEF OpPc
      <3>. QED  BY Zenon, <2>2, <3>1 DEF TypeInv, TypeOK
    <2>3. CASE FailRo
      BY Zenon, <2>3, FailRoType
    <2>. QED  BY Zenon, <2>1, <2>2, <2>3 DEF OpAppend
  <1>5. Wf'
    BY Zenon, <1>1, <1>4 DEF OpAppend, TypeInv, Wf
  <1>. QED  BY Zenon, <1>3, <1>4, <1>5 DEF OpAppend, TypeInv, TypeOK

\* recover_peb() taking its new PEB keeps the types.
LEMMA OpRecoverGetType ==
  ASSUME TypeInv, OpRecoverGet
  PROVE  TypeInv'
  <1>1. op.pc = "rget" /\ op.lnum \in LEB /\ op.from \in PEB
    BY Zenon DEF OpRecoverGet, Running, TypeInv, Wf
  <1>2. CASE FailRo /\ UNCHANGED <<tree, wk, global_sqnum>>
    <2>1. /\ op' \in OpState /\ op'.pc = "idle" /\ may' \in [LEB -> SUBSET Contents]
          /\ ro_mode' \in BOOLEAN
      BY Zenon, <1>2, FailRoType
    <2>2. Wf'
      BY Zenon, <1>2, <2>1 DEF TypeInv, Wf
    <2>. QED  BY Zenon, <1>2, <2>1, <2>2 DEF OpRecoverGet, TypeInv, TypeOK
  <1>3. CASE ~(FailRo /\ UNCHANGED <<tree, wk, global_sqnum>>)
    <2>1. PICK p \in In("free") :
            /\ tree' = [tree EXCEPT ![p] = "prot"]
            /\ IF flash[op.from].vid = "ok"
                 THEN /\ op' = [op EXCEPT !.pc = "rvid", !.pnum = p, !.sqnum = global_sqnum]
                      /\ global_sqnum' = global_sqnum + 1
                 ELSE /\ op' = [op EXCEPT !.pc = "rfail", !.pnum = p]
                      /\ UNCHANGED global_sqnum
            /\ UNCHANGED <<wk, ro_mode, may>>
      BY Zenon, <1>3 DEF OpRecoverGet
    <2>2. p \in PEB /\ op \in OpState /\ global_sqnum \in Nat
      BY Zenon DEF In, TypeInv, TypeOK
    <2>3. /\ op' \in OpState /\ op'.pc \in {"rvid", "rfail"} /\ op'.lnum = op.lnum
          /\ op'.from = op.from /\ op'.pnum = p
      <3>1. CASE flash[op.from].vid = "ok"
        <4>1. op' = [op EXCEPT !.pc = "rvid", !.pnum = p, !.sqnum = global_sqnum]
          BY Zenon, <2>1, <3>1
        <4>. QED  BY Zenon, <2>2, <4>1 DEF OpState, OpPc
      <3>2. CASE flash[op.from].vid # "ok"
        <4>1. op' = [op EXCEPT !.pc = "rfail", !.pnum = p]
          BY Zenon, <2>1, <3>2
        <4>. QED  BY Zenon, <2>2, <4>1 DEF OpState, OpPc
      <3>. QED  BY Zenon, <3>1, <3>2
    <2>4. global_sqnum' \in Nat /\ tree' \in [PEB -> Trees]
      BY <2>1, <2>2 DEF TypeInv, TypeOK, Trees
    <2>5. Wf'
      BY Zenon, <1>1, <2>1, <2>2, <2>3 DEF TypeInv, Wf
    <2>. QED  BY Zenon, <2>1, <2>3, <2>4, <2>5 DEF OpRecoverGet, TypeInv, TypeOK
  <1>. QED  BY Zenon, <1>2, <1>3

\* Putting a PEB in the middle of recover_peb(), which goes on in any case.
LEMMA PutAnyType ==
  ASSUME TypeInv, NEW p \in PEB, NEW next \in OpState, PutPeb(p, next, next),
         next.lnum \in LEB, next.from \in PEB, next.pnum \in PEB \/ next.pc = "rfail"
  PROVE  /\ op' = next
         /\ wk' \in WkState /\ tree' \in [PEB -> Trees] /\ ro_mode' \in BOOLEAN
         /\ Wf'
  <1>1. /\ op' \in {next, next}
        /\ wk' \in WkState
        /\ wk'.pc \in {"erase", "ec", "bad", "mread", "mvid", "mdata"} => wk'.e1 \in PEB
        /\ wk'.pc \in {"mread", "mvid", "mdata"} => wk'.e2 \in PEB
        /\ tree' \in [PEB -> Trees]
        /\ ro_mode' \in BOOLEAN
    BY Zenon, PutPebType
  <1>. QED  BY Zenon, <1>1 DEF Wf

\* The write_error path of recover_peb() keeps the types.
LEMMA RecoverErrorType ==
  ASSUME TypeInv, op.pc \in {"rvid", "rdata"}, NEW torn \in SUBSET PebState, RecoverError(torn)
  PROVE  TypeInv'
  <1>1. op.lnum \in LEB /\ op.pnum \in PEB /\ op.from \in PEB
    BY Zenon DEF TypeInv, Wf
  <1>2. flash' \in [PEB -> PebState] /\ errs' \in Nat
    BY <1>1 DEF RecoverError, Fault, TypeInv, TypeOK
  <1>. DEFINE next == [op EXCEPT !.pc = "rretry"]
  <1>3. /\ next \in OpState /\ next.lnum = op.lnum /\ next.pnum = op.pnum
        /\ next.from = op.from
    BY Zenon, OpAtType DEF OpPc
  <1>4. PutPeb(op.pnum, next, next)
    BY Zenon DEF RecoverError
  <1>. HIDE DEF next
  <1>5. /\ op' = next
        /\ wk' \in WkState /\ tree' \in [PEB -> Trees] /\ ro_mode' \in BOOLEAN
        /\ Wf'
    BY Zenon, <1>1, <1>3, <1>4, PutAnyType
  <1>. QED  BY Zenon, <1>2, <1>3, <1>5 DEF RecoverError, TypeInv, TypeOK

\* recover_peb() writing the VID header keeps the types.
LEMMA OpRecoverVidType ==
  ASSUME TypeInv, OpRecoverVid
  PROVE  TypeInv'
  <1>1. op.pc = "rvid" /\ op.lnum \in LEB /\ op.pnum \in PEB /\ op.from \in PEB
    BY Zenon DEF OpRecoverVid, Running, TypeInv, Wf
  <1>2. flash[op.pnum] \in PebState /\ flash[op.from] \in PebState /\ op.sqnum \in Nat
    BY Zenon, <1>1 DEF TypeInv, TypeOK, OpState
  <1>. DEFINE o == flash[op.from]
              good == WithVid(flash[op.pnum], o.lnum, op.sqnum, o.copy_flag, o.data_crc)
              torn == TornVid(flash[op.pnum]) \cup {good}
  <1>3. o.lnum \in LEB \cup {None} /\ o.copy_flag \in BOOLEAN /\ o.data_crc \in Contents
    BY Zenon, <1>2 DEF PebState
  <1>4. good \in PebState /\ torn \in SUBSET PebState
    BY <1>2, <1>3, WithVidType, TornVidType
  <1>5. \/ RecoverError(torn)
        \/ /\ flash' = [flash EXCEPT ![op.pnum] = good]
           /\ \E pc \in {"rdata", "rfail"} : op' = [op EXCEPT !.pc = pc]
           /\ UNCHANGED <<up, eba_tbl, tree, global_sqnum, ro_mode, wk, may, errs, cuts>>
    BY Zenon DEF OpRecoverVid
  <1>. HIDE DEF good, torn
  <1>6. CASE RecoverError(torn)
    BY Zenon, <1>1, <1>4, <1>6, RecoverErrorType
  <1>7. CASE ~RecoverError(torn)
    <2>1. flash' \in [PEB -> PebState]
      BY Zenon, <1>1, <1>4, <1>5, <1>7 DEF TypeInv, TypeOK
    <2>2. PICK pc \in {"rdata", "rfail"} : op' = [op EXCEPT !.pc = pc]
      BY Zenon, <1>5, <1>7
    <2>3. op' \in OpState /\ op'.lnum = op.lnum /\ op'.pnum = op.pnum /\ op'.from = op.from
      BY <1>1, <2>2, OpAtType DEF OpPc
    <2>4. UNCHANGED <<up, eba_tbl, tree, global_sqnum, ro_mode, wk, may, errs, cuts>>
      BY Zenon, <1>5, <1>7
    <2>5. Wf'
      BY Zenon, <1>1, <2>3, <2>4 DEF TypeInv, Wf
    <2>. QED  BY Zenon, <2>1, <2>3, <2>4, <2>5 DEF TypeInv, TypeOK
  <1>. QED  BY Zenon, <1>6, <1>7

\* recover_peb() writing the data and remapping keeps the types.
LEMMA OpRecoverDataType ==
  ASSUME TypeInv, OpRecoverData
  PROVE  TypeInv'
  <1>1. op.pc = "rdata" /\ op.lnum \in LEB /\ op.pnum \in PEB /\ op.from \in PEB
    BY Zenon DEF OpRecoverData, Running, TypeInv, Wf
  <1>. DEFINE d == ReadFirst(flash[op.from].data, Len(op.want) - Len(op.buf)) \o op.buf
  <1>2. flash[op.pnum] \in PebState /\ d \in Contents
    <2>1. flash[op.pnum] \in PebState /\ flash[op.from].data \in Contents
      BY Zenon, <1>1 DEF TypeInv, TypeOK, PebState
    <2>2. op.buf \in Contents /\ Len(op.want) - Len(op.buf) \in Int
      BY DEF TypeInv, TypeOK, OpState, Contents
    <2>. QED  BY Zenon, <2>1, <2>2, ReadFirstType, CatType
  <1>3. CASE RecoverError(TornData(flash[op.pnum], d))
    <2>1. TornData(flash[op.pnum], d) \in SUBSET PebState
      BY Zenon, <1>2, TornDataType
    <2>. QED  BY Zenon, <1>1, <1>3, <2>1, RecoverErrorType
  <1>4. CASE ~RecoverError(TornData(flash[op.pnum], d))
    <2>1. /\ flash' = [flash EXCEPT ![op.pnum] = WithData(@, d)]
          /\ eba_tbl' = [eba_tbl EXCEPT ![op.lnum] = op.pnum]
          /\ PutPeb(op.from, [op EXCEPT !.pc = "rdone"], [op EXCEPT !.pc = "rdone"])
          /\ UNCHANGED <<up, global_sqnum, may, errs, cuts>>
      BY Zenon, <1>4 DEF OpRecoverData
    <2>2. flash' \in [PEB -> PebState] /\ eba_tbl' \in [LEB -> PEB \cup {None}]
      BY Zenon, <1>1, <1>2, <2>1, WithDataType DEF TypeInv, TypeOK
    <2>. DEFINE next == [op EXCEPT !.pc = "rdone"]
    <2>3. /\ next \in OpState /\ next.lnum = op.lnum /\ next.pnum = op.pnum
          /\ next.from = op.from
      BY Zenon, <1>1, OpAtType DEF OpPc
    <2>4. PutPeb(op.from, next, next)
      BY Zenon, <2>1
    <2>. HIDE DEF next
    <2>5. /\ op' = next
          /\ wk' \in WkState /\ tree' \in [PEB -> Trees] /\ ro_mode' \in BOOLEAN
          /\ Wf'
      BY Zenon, <1>1, <2>3, <2>4, PutAnyType
    <2>. QED  BY Zenon, <2>1, <2>2, <2>3, <2>5 DEF TypeInv, TypeOK
  <1>. QED  BY Zenon, <1>3, <1>4

\* The ends of recover_peb() keep the types.
LEMMA OpRecoverEndType ==
  ASSUME TypeInv, OpRecoverDone \/ OpRecoverRetry \/ OpRecoverFail
  PROVE  TypeInv'
  <1>1. CASE OpRecoverDone
    <2>1. op' \in OpState /\ op'.pc = "idle" /\ may' \in [LEB -> SUBSET Contents]
      BY Zenon, <1>1, SucceedType DEF OpRecoverDone, Running
    <2>2. Wf'
      BY Zenon, <1>1, <2>1 DEF OpRecoverDone, TypeInv, Wf
    <2>. QED  BY Zenon, <1>1, <2>1, <2>2 DEF OpRecoverDone, TypeInv, TypeOK
  <1>2. CASE OpRecoverRetry
    <2>1. op.pc = "rretry" /\ op.lnum \in LEB /\ op.from \in PEB
      BY Zenon, <1>2 DEF OpRecoverRetry, Running, TypeInv, Wf
    <2>2. CASE FailRo
      <3>1. /\ op' \in OpState /\ op'.pc = "idle" /\ may' \in [LEB -> SUBSET Contents]
            /\ ro_mode' \in BOOLEAN
        BY Zenon, <2>2, FailRoType
      <3>2. Wf'
        BY Zenon, <1>2, <3>1 DEF OpRecoverRetry, TypeInv, Wf
      <3>. QED  BY Zenon, <1>2, <3>1, <3>2 DEF OpRecoverRetry, TypeInv, TypeOK
    <2>3. CASE op' = [op EXCEPT !.pc = "rget", !.tries = @ + 1] /\ UNCHANGED <<ro_mode, may>>
      <3>1. op \in OpState /\ op.tries + 1 \in Nat
        BY DEF TypeInv, TypeOK, OpState
      <3>2. op' \in OpState /\ op'.pc = "rget" /\ op'.lnum = op.lnum /\ op'.from = op.from
        BY Zenon, <2>3, <3>1 DEF OpState, OpPc
      <3>3. Wf'
        BY Zenon, <1>2, <2>1, <3>2 DEF OpRecoverRetry, TypeInv, Wf
      <3>. QED  BY Zenon, <1>2, <2>3, <3>2, <3>3 DEF OpRecoverRetry, TypeInv, TypeOK
    <2>. QED  BY Zenon, <1>2, <2>2, <2>3 DEF OpRecoverRetry
  <1>3. CASE OpRecoverFail
    <2>1. op.pc = "rfail" /\ op.lnum \in LEB /\ op.from \in PEB
      BY Zenon, <1>3 DEF OpRecoverFail, Running, TypeInv, Wf
    <2>2. CASE op.pnum = None
      <3>1. /\ op' \in OpState /\ op'.pc = "idle" /\ may' \in [LEB -> SUBSET Contents]
            /\ ro_mode' \in BOOLEAN
        BY Zenon, <1>3, <2>2, FailRoType DEF OpRecoverFail
      <3>2. Wf'
        BY Zenon, <1>3, <2>2, <3>1 DEF OpRecoverFail, TypeInv, Wf
      <3>. QED  BY Zenon, <1>3, <2>2, <3>1, <3>2 DEF OpRecoverFail, TypeInv, TypeOK
    <2>3. CASE op.pnum # None
      <3>. DEFINE next == [op EXCEPT !.pnum = None]
      <3>1. /\ next \in OpState /\ next.lnum = op.lnum /\ next.pc = "rfail"
            /\ next.from = op.from
        BY Zenon, <2>1 DEF TypeInv, TypeOK, OpState
      <3>2. PutPeb(op.pnum, next, next) /\ op.pnum \in PEB
        BY Zenon, <1>3, <2>3 DEF OpRecoverFail, TypeInv, TypeOK, OpState
      <3>. HIDE DEF next
      <3>3. /\ op' = next
            /\ wk' \in WkState /\ tree' \in [PEB -> Trees] /\ ro_mode' \in BOOLEAN
            /\ Wf'
        BY Zenon, <2>1, <3>1, <3>2, PutAnyType
      <3>. QED  BY Zenon, <1>3, <2>3, <3>1, <3>3 DEF OpRecoverFail, TypeInv, TypeOK
    <2>. QED  BY Zenon, <2>2, <2>3
  <1>. QED  BY Zenon, <1>1, <1>2, <1>3

-----------------------------------------------------------------------------
(* Type correctness: the workers. *)

\* A work that only goes on to another point is well formed.
LEMMA WkAtType ==
  ASSUME NEW w \in WkState, NEW pc \in WkPc
  PROVE  /\ [w EXCEPT !.pc = pc] \in WkState
         /\ [w EXCEPT !.pc = pc].pc = pc
         /\ [w EXCEPT !.pc = pc].e1 = w.e1
         /\ [w EXCEPT !.pc = pc].e2 = w.e2
  BY Zenon DEF WkState

\* So is one that starts.
LEMMA WkStartType ==
  ASSUME NEW p \in PEB
  PROVE  /\ [IdleWk EXCEPT !.pc = "erase", !.e1 = p] \in WkState
         /\ [IdleWk EXCEPT !.pc = "erase", !.e1 = p].pc = "erase"
         /\ [IdleWk EXCEPT !.pc = "erase", !.e1 = p].e1 = p
         /\ [IdleWk EXCEPT !.pc = "ensure"] \in WkState
         /\ [IdleWk EXCEPT !.pc = "ensure"].pc = "ensure"
         /\ IdleWk.pc = "idle"
  BY Zenon, IdleType DEF IdleWk, WkState, WkPc

\* What a step of the workers leaves in the variables it may change.
WkDone ==
  /\ wk' \in WkState
  /\ wk'.pc \in {"erase", "ec", "bad", "mread", "mvid", "mdata"} => wk'.e1 \in PEB
  /\ wk'.pc \in {"mread", "mvid", "mdata"} => wk'.e2 \in PEB
  /\ tree' \in [PEB -> Trees]
  /\ ro_mode' \in BOOLEAN

\* A work step with WkDone keeps the types.
LEMMA WkDoneType ==
  ASSUME TypeInv, WkDone, flash' \in [PEB -> PebState], errs' \in Nat, global_sqnum' \in Nat,
         eba_tbl' \in [LEB -> PEB \cup {None}], up' \in {"off", "init", "on"},
         UNCHANGED <<op, may, cuts>>
  PROVE  TypeInv'
  <1>1. Wf'
    BY Zenon DEF WkDone, TypeInv, Wf
  <1>. QED  BY Zenon, <1>1 DEF WkDone, TypeInv, TypeOK

\* The error paths of erase_worker() keep the types.
LEMMA EraseErrorType ==
  ASSUME TypeInv, wk.pc \in {"erase", "ec"}, NEW torn \in SUBSET PebState, EraseError(torn)
  PROVE  WkDone /\ flash' \in [PEB -> PebState] /\ errs' \in Nat
  <1>1. wk.e1 \in PEB /\ wk \in WkState
    BY Zenon DEF TypeInv, TypeOK, Wf
  <1>2. flash' \in [PEB -> PebState] /\ errs' \in Nat
    BY <1>1 DEF EraseError, Fault, TypeInv, TypeOK
  <1>3. CASE wk' = [wk EXCEPT !.pc = "bad"] /\ UNCHANGED <<tree, ro_mode>>
    <2>1. wk' \in WkState /\ wk'.pc = "bad" /\ wk'.e1 = wk.e1
      BY Zenon, <1>1, <1>3, WkAtType DEF WkPc
    <2>. QED  BY Zenon, <1>1, <1>2, <1>3, <2>1 DEF WkDone, TypeInv, TypeOK
  <1>4. CASE wk' = IdleWk /\ ro_mode' = TRUE /\ tree' = [tree EXCEPT ![wk.e1] = "gone"]
    <2>1. wk' \in WkState /\ wk'.pc = "idle"
      BY Zenon, <1>4, IdleType DEF IdleWk
    <2>. QED  BY Zenon, <1>1, <1>2, <1>4, <2>1 DEF WkDone, TypeInv, TypeOK, Trees
  <1>. QED  BY Zenon, <1>3, <1>4 DEF EraseError

\* The erasure of sync_erase() keeps the types.
LEMMA WkEraseType ==
  ASSUME TypeInv, WkErase
  PROVE  TypeInv'
  <1>1. wk.pc = "erase" /\ wk.e1 \in PEB /\ wk \in WkState /\ flash[wk.e1] \in PebState
    BY Zenon DEF WkErase, TypeInv, TypeOK, Wf
  <1>2. WkDone /\ flash' \in [PEB -> PebState] /\ errs' \in Nat
    <2>1. CASE EraseError(TornErase(flash[wk.e1]))
      BY Zenon, <1>1, <2>1, TornEraseType, EraseErrorType
    <2>2. CASE /\ flash' = [flash EXCEPT ![wk.e1] = Blank]
               /\ wk' = [wk EXCEPT !.pc = "ec"]
               /\ UNCHANGED <<tree, ro_mode, errs>>
      <3>1. wk' \in WkState /\ wk'.pc = "ec" /\ wk'.e1 = wk.e1
        BY Zenon, <1>1, <2>2, WkAtType DEF WkPc
      <3>. QED  BY Zenon, <1>1, <2>2, <3>1, BlankType DEF WkDone, TypeInv, TypeOK
    <2>. QED  BY Zenon, <2>1, <2>2 DEF WkErase
  <1>. QED  BY Zenon, <1>2, WkDoneType DEF WkErase, TypeInv, TypeOK

\* The EC header of sync_erase() keeps the types.
LEMMA WkEcType ==
  ASSUME TypeInv, WkEc
  PROVE  TypeInv'
  <1>1. wk.pc = "ec" /\ wk.e1 \in PEB /\ wk \in WkState /\ flash[wk.e1] \in PebState
    BY Zenon DEF WkEc, TypeInv, TypeOK, Wf
  <1>2. WkDone /\ flash' \in [PEB -> PebState] /\ errs' \in Nat
    <2>1. CASE EraseError(TornEc(flash[wk.e1]))
      BY Zenon, <1>1, <2>1, TornEcType, EraseErrorType
    <2>2. CASE ~EraseError(TornEc(flash[wk.e1]))
      <3>1. PICK over \in SUBSET In("prot") :
              /\ flash' = [flash EXCEPT ![wk.e1].ec = "ok"]
              /\ tree' = [p \in PEB |-> IF p = wk.e1 THEN "free"
                                        ELSE IF p \in over THEN "used" ELSE tree[p]]
              /\ wk' = [IdleWk EXCEPT !.pc = "ensure"]
              /\ UNCHANGED <<ro_mode, errs>>
        BY Zenon, <2>2 DEF WkEc
      <3>2. wk' \in WkState /\ wk'.pc = "ensure"
        BY Zenon, <1>1, <3>1, WkStartType
      <3>3. tree' \in [PEB -> Trees]
        BY Zenon, <3>1 DEF TypeInv, TypeOK, Trees
      <3>4. [flash[wk.e1] EXCEPT !.ec = "ok"] \in PebState
        BY Zenon, <1>1 DEF PebState
      <3>5. flash' \in [PEB -> PebState]
        BY Zenon, <1>1, <3>1, <3>4 DEF TypeInv, TypeOK
      <3>. QED  BY Zenon, <3>1, <3>2, <3>3, <3>5 DEF WkDone, TypeInv, TypeOK
    <2>. QED  BY Zenon, <2>1, <2>2
  <1>. QED  BY Zenon, <1>2, WkDoneType DEF WkEc, TypeInv, TypeOK

\* Marking a PEB bad keeps the types.
LEMMA WkBadType ==
  ASSUME TypeInv, WkBad
  PROVE  TypeInv'
  <1>1. wk.e1 \in PEB /\ flash[wk.e1] \in PebState /\ wk' \in WkState /\ wk'.pc = "idle"
    BY Zenon, IdleType DEF WkBad, TypeInv, TypeOK, Wf, IdleWk
  <1>2. [flash[wk.e1] EXCEPT !.bad = TRUE] \in PebState
    BY Zenon, <1>1 DEF PebState
  <1>3. flash' \in [PEB -> PebState]
    BY Zenon, <1>1, <1>2 DEF WkBad, TypeInv, TypeOK
  <1>4. WkDone
    BY Zenon, <1>1 DEF WkBad, WkDone, TypeInv, TypeOK, Trees
  <1>. QED  BY Zenon, <1>3, <1>4, WkDoneType DEF WkBad, TypeInv, TypeOK

\* wear_leveling_worker() choosing what to move keeps the types.
LEMMA WkMoveType ==
  ASSUME TypeInv, WkNoMove \/ WkMove
  PROVE  TypeInv'
  <1>1. CASE WkNoMove
    <2>1. wk' \in WkState /\ wk'.pc = "idle"
      BY Zenon, <1>1, IdleType DEF WkNoMove, IdleWk
    <2>2. WkDone
      BY Zenon, <1>1, <2>1 DEF WkNoMove, WkDone, TypeInv, TypeOK
    <2>. QED  BY Zenon, <1>1, <2>2, WkDoneType DEF WkNoMove, TypeInv, TypeOK
  <1>2. CASE WkMove
    <2>1. PICK e1 \in PEB, e2 \in PEB :
            /\ tree' = [tree EXCEPT ![e1] = "move", ![e2] = "move"]
            /\ wk' = [IdleWk EXCEPT !.pc = "mread", !.e1 = e1, !.e2 = e2,
                                    !.scrub = (In("scrub") # {})]
      BY Zenon, <1>2 DEF WkMove, In
    <2>2. wk' \in WkState /\ wk'.e1 \in PEB /\ wk'.e2 \in PEB
      BY Zenon, <2>1 DEF IdleWk, WkState, WkPc
    <2>3. tree' \in [PEB -> Trees]
      BY Zenon, <2>1 DEF TypeInv, TypeOK, Trees
    <2>4. WkDone
      BY Zenon, <1>2, <2>2, <2>3 DEF WkMove, WkDone, TypeInv, TypeOK
    <2>. QED  BY Zenon, <1>2, <2>4, WkDoneType DEF WkMove, TypeInv, TypeOK
  <1>. QED  BY Zenon, <1>1, <1>2

\* The four ends of wear_leveling_worker() keep the types.
LEMMA MoveEndType ==
  ASSUME TypeInv, wk.pc \in {"mread", "mvid", "mdata"}, NotMoved \/ MoveCancelled \/ MoveError \/ MoveDone
  PROVE  WkDone
  <1>1. wk.e1 \in PEB /\ wk.e2 \in PEB
    BY Zenon DEF TypeInv, Wf
  <1>2. tree' \in [PEB -> Trees] /\ ro_mode' \in BOOLEAN
    BY Zenon, <1>1 DEF NotMoved, MoveCancelled, MoveError, MoveDone, TypeInv, TypeOK, Trees
  <1>3. /\ wk' \in WkState
        /\ wk'.pc = "idle" \/ (wk'.pc = "erase" /\ wk'.e1 \in PEB)
    <2>1. CASE NotMoved
      BY Zenon, <1>1, <2>1, WkStartType DEF NotMoved
    <2>2. CASE MoveError
      BY Zenon, <1>1, <2>2, WkStartType, IdleType DEF MoveError
    <2>3. CASE MoveDone
      BY Zenon, <1>1, <2>3, WkStartType DEF MoveDone
    <2>4. CASE MoveCancelled
      BY Zenon, <1>1, <2>4, WkStartType, IdleType DEF MoveCancelled
    <2>. QED  BY Zenon, <2>1, <2>2, <2>3, <2>4
  <1>. QED  BY Zenon, <1>2, <1>3 DEF WkDone

\* ubi_eba_copy_leb() reading the source keeps the types.
LEMMA WkReadType ==
  ASSUME TypeInv, WkRead
  PROVE  TypeInv'
  <1>1. wk.pc = "mread" /\ wk.e1 \in PEB /\ wk.e2 \in PEB /\ wk \in WkState
    BY Zenon DEF WkRead, TypeInv, TypeOK, Wf
  <1>2. errs' \in Nat
    BY DEF WkRead, Fault, TypeInv, TypeOK
  <1>3. WkDone /\ global_sqnum' \in Nat /\ eba_tbl' \in [LEB -> PEB \cup {None}]
    <2>1. CASE NotMoved /\ UNCHANGED global_sqnum
      BY Zenon, <1>1, <2>1, MoveEndType DEF NotMoved, TypeInv, TypeOK
    <2>2. CASE MoveError /\ UNCHANGED global_sqnum
      BY Zenon, <1>1, <2>2, MoveEndType DEF MoveError, TypeInv, TypeOK
    <2>3. CASE /\ wk' = [wk EXCEPT !.pc = "mvid", !.sqnum = global_sqnum]
               /\ global_sqnum' = global_sqnum + 1
               /\ UNCHANGED <<tree, eba_tbl, ro_mode>>
      <3>1. global_sqnum \in Nat
        BY Zenon DEF TypeInv, TypeOK
      <3>2. wk' \in WkState /\ wk'.e1 = wk.e1 /\ wk'.e2 = wk.e2
        BY Zenon, <1>1, <2>3, <3>1 DEF WkState, WkPc
      <3>. QED  BY <1>1, <2>3, <3>1, <3>2 DEF WkDone, TypeInv, TypeOK
    <2>. QED  BY Zenon, <2>1, <2>2, <2>3 DEF WkRead
  <1>. QED  BY Zenon, <1>2, <1>3, WkDoneType DEF WkRead, TypeInv, TypeOK

\* An error of ubi_eba_copy_leb() keeps the types.
LEMMA CopyErrorType ==
  ASSUME TypeInv, wk.pc \in {"mvid", "mdata"}, NEW torn \in SUBSET PebState, CopyError(torn)
  PROVE  /\ WkDone /\ flash' \in [PEB -> PebState] /\ errs' \in Nat
         /\ eba_tbl' \in [LEB -> PEB \cup {None}]
  <1>1. wk.e2 \in PEB
    BY Zenon DEF TypeInv, Wf
  <1>2. flash' \in [PEB -> PebState] /\ errs' \in Nat
    BY <1>1 DEF CopyError, Fault, TypeInv, TypeOK
  <1>3. WkDone
    BY Zenon, MoveEndType DEF CopyError
  <1>. QED  BY Zenon, <1>2, <1>3 DEF CopyError, MoveError, TypeInv, TypeOK

\* ubi_eba_copy_leb() writing the VID header keeps the types.
LEMMA WkVidType ==
  ASSUME TypeInv, WkVid
  PROVE  TypeInv'
  <1>1. /\ wk.pc = "mvid" /\ wk.e1 \in PEB /\ wk.e2 \in PEB /\ wk \in WkState
        /\ flash[wk.e1] \in PebState /\ flash[wk.e2] \in PebState
    BY Zenon DEF WkVid, TypeInv, TypeOK, Wf
  <1>. DEFINE r == flash[wk.e1]
              some == r.data # << >>
              good == WithVid(flash[wk.e2], r.lnum, wk.sqnum, some \/ r.copy_flag,
                              IF some THEN r.data ELSE r.data_crc)
              torn == TornVid(flash[wk.e2])
  <1>2. /\ r.lnum \in LEB \cup {None} /\ (some \/ r.copy_flag) \in BOOLEAN
        /\ (IF some THEN r.data ELSE r.data_crc) \in Contents /\ wk.sqnum \in Nat
    BY Zenon, <1>1 DEF PebState, WkState
  <1>3. good \in PebState /\ torn \in SUBSET PebState
    BY ZenonT(30), <1>1, <1>2, WithVidType, TornVidType
  <1>4. ASSUME NEW s \in PebState
        PROVE  [flash EXCEPT ![wk.e2] = s] \in [PEB -> PebState]
    BY Zenon, <1>1 DEF TypeInv, TypeOK
  <1>5. \/ /\ flash' = [flash EXCEPT ![wk.e2] = good] /\ wk' = [wk EXCEPT !.pc = "mdata"]
           /\ UNCHANGED <<eba_tbl, tree, ro_mode, errs>>
        \/ /\ flash' = [flash EXCEPT ![wk.e2] = good] /\ eba_tbl' = [eba_tbl EXCEPT ![r.lnum] = wk.e2]
           /\ MoveDone /\ UNCHANGED errs
        \/ flash' = [flash EXCEPT ![wk.e2] = good] /\ NotMoved /\ Fault("bitflip")
        \/ /\ \E s \in torn : flash' = [flash EXCEPT ![wk.e2] = s]
           /\ MoveCancelled /\ Fault("novid")
        \/ CopyError(torn \cup {good})
    BY Zenon DEF WkVid
  <1>. HIDE DEF good, torn
  <1>6. /\ WkDone /\ flash' \in [PEB -> PebState] /\ errs' \in Nat
        /\ eba_tbl' \in [LEB -> PEB \cup {None}]
    <2>1. CASE /\ flash' = [flash EXCEPT ![wk.e2] = good] /\ wk' = [wk EXCEPT !.pc = "mdata"]
               /\ UNCHANGED <<eba_tbl, tree, ro_mode, errs>>
      <3>1. wk' \in WkState /\ wk'.e1 = wk.e1 /\ wk'.e2 = wk.e2
        BY Zenon, <1>1, <2>1, WkAtType DEF WkPc
      <3>. QED  BY Zenon, <1>1, <1>3, <1>4, <2>1, <3>1 DEF WkDone, TypeInv, TypeOK
    <2>2. CASE /\ flash' = [flash EXCEPT ![wk.e2] = good]
               /\ eba_tbl' = [eba_tbl EXCEPT ![r.lnum] = wk.e2]
               /\ MoveDone /\ UNCHANGED errs
      BY Zenon, <1>1, <1>3, <1>4, <2>2, MoveEndType DEF TypeInv, TypeOK
    <2>3. CASE flash' = [flash EXCEPT ![wk.e2] = good] /\ NotMoved /\ Fault("bitflip")
      BY Zenon, <1>1, <1>3, <1>4, <2>3, MoveEndType, FaultType DEF NotMoved, TypeInv, TypeOK
    <2>4. CASE /\ \E s \in torn : flash' = [flash EXCEPT ![wk.e2] = s]
               /\ MoveCancelled /\ Fault("novid")
      BY Zenon, <1>1, <1>3, <1>4, <2>4, MoveEndType, FaultType DEF MoveCancelled, TypeInv, TypeOK
    <2>5. CASE CopyError(torn \cup {good})
      <3>1. torn \cup {good} \in SUBSET PebState
        BY Zenon, <1>3
      <3>. QED  BY Zenon, <1>1, <2>5, <3>1, CopyErrorType
    <2>. QED  BY Zenon, <1>5, <2>1, <2>2, <2>3, <2>4, <2>5
  <1>. QED  BY Zenon, <1>6, WkDoneType DEF WkVid, TypeInv, TypeOK

\* ubi_eba_copy_leb() writing the data keeps the types.
LEMMA WkDataType ==
  ASSUME TypeInv, WkData
  PROVE  TypeInv'
  <1>1. /\ wk.pc = "mdata" /\ wk.e1 \in PEB /\ wk.e2 \in PEB
        /\ flash[wk.e1] \in PebState /\ flash[wk.e2] \in PebState
    BY Zenon DEF WkData, TypeInv, TypeOK, Wf
  <1>. DEFINE r == flash[wk.e1]
  <1>2. ASSUME NEW d \in Contents
        PROVE  [flash EXCEPT ![wk.e2] = WithData(@, d)] \in [PEB -> PebState]
    BY Zenon, <1>1, WithDataType DEF TypeInv, TypeOK
  <1>3. r.data \in Contents /\ Garbled(r.data) \subseteq Contents
    BY Zenon, <1>1, GarbledType DEF PebState
  <1>4. /\ WkDone /\ flash' \in [PEB -> PebState] /\ errs' \in Nat
        /\ eba_tbl' \in [LEB -> PEB \cup {None}]
    <2>1. CASE /\ flash' = [flash EXCEPT ![wk.e2] = WithData(@, r.data)]
               /\ eba_tbl' = [eba_tbl EXCEPT ![r.lnum] = wk.e2]
               /\ MoveDone /\ UNCHANGED errs
      BY Zenon, <1>1, <1>2, <1>3, <2>1, MoveEndType DEF TypeInv, TypeOK
    <2>2. CASE /\ flash' = [flash EXCEPT ![wk.e2] = WithData(@, r.data)]
               /\ NotMoved /\ Fault("bitflip")
      BY Zenon, <1>1, <1>2, <1>3, <2>2, MoveEndType, FaultType DEF NotMoved, TypeInv, TypeOK
    <2>3. CASE /\ \E d \in Garbled(r.data) \cup {r.data} :
                    flash' = [flash EXCEPT ![wk.e2] = WithData(@, d)]
               /\ MoveDone /\ Fault("mismatch") /\ UNCHANGED eba_tbl
      <3>1. PICK d \in Contents : flash' = [flash EXCEPT ![wk.e2] = WithData(@, d)]
        BY Zenon, <1>3, <2>3
      <3>2. flash' \in [PEB -> PebState]
        BY Zenon, <1>2, <3>1
      <3>3. errs' \in Nat
        BY Zenon, <2>3, FaultType
      <3>4. WkDone
        BY Zenon, <1>1, <2>3, MoveEndType
      <3>. QED  BY Zenon, <2>3, <3>2, <3>3, <3>4 DEF TypeInv, TypeOK
    <2>4. CASE CopyError(TornData(flash[wk.e2], r.data))
      BY Zenon, <1>1, <1>3, <2>4, TornDataType, CopyErrorType
    <2>. QED  BY Zenon, <2>1, <2>2, <2>3, <2>4 DEF WkData
  <1>. QED  BY Zenon, <1>4, WkDoneType DEF WkData, TypeInv, TypeOK

-----------------------------------------------------------------------------
(* Type correctness: power cuts and attaching. *)

\* Whatever operation a power cut interrupts, the flash keeps its type.
LEMMA InterruptedType ==
  ASSUME TypeInv
  PROVE  Interrupted \subseteq [PEB -> PebState]
  <1>. DEFINE At(p, rs) == {[flash EXCEPT ![p] = r] : r \in rs}
              Data == ReadFirst(flash[op.from].data, Len(op.want) - Len(op.buf)) \o op.buf
  <1>1. ASSUME NEW p \in PEB, NEW rs \in SUBSET PebState
        PROVE  At(p, rs) \subseteq [PEB -> PebState]
    BY DEF TypeInv, TypeOK
  <1>2. ASSUME NEW p \in PEB
        PROVE  flash[p] \in PebState /\ flash[p].data \in Contents
    BY Zenon DEF TypeInv, TypeOK, PebState
  <1>3. op.buf \in Contents /\ Len(op.want) - Len(op.buf) \in Int
    BY DEF TypeInv, TypeOK, OpState, Contents
  <1>4. CASE wk.pc = "erase"
    <2>1. wk.e1 \in PEB
      BY Zenon, <1>4 DEF TypeInv, Wf
    <2>2. TornErase(flash[wk.e1]) \in SUBSET PebState
      BY Zenon, <1>2, <2>1, TornEraseType
    <2>3. Interrupted = At(wk.e1, TornErase(flash[wk.e1]))
      BY Zenon, <1>4 DEF Interrupted
    <2>. QED  BY Zenon, <1>1, <2>1, <2>2, <2>3
  <1>5. CASE wk.pc = "ec"
    <2>1. wk.e1 \in PEB
      BY Zenon, <1>5 DEF TypeInv, Wf
    <2>2. TornEc(flash[wk.e1]) \in SUBSET PebState
      BY Zenon, <1>2, <2>1, TornEcType
    <2>3. Interrupted = At(wk.e1, TornEc(flash[wk.e1]))
      BY Zenon, <1>5 DEF Interrupted
    <2>. QED  BY Zenon, <1>1, <2>1, <2>2, <2>3
  <1>6. CASE wk.pc = "mvid"
    <2>1. wk.e2 \in PEB
      BY Zenon, <1>6 DEF TypeInv, Wf
    <2>2. TornVid(flash[wk.e2]) \in SUBSET PebState
      BY Zenon, <1>2, <2>1, TornVidType
    <2>3. Interrupted = At(wk.e2, TornVid(flash[wk.e2]))
      BY Zenon, <1>6 DEF Interrupted
    <2>. QED  BY Zenon, <1>1, <2>1, <2>2, <2>3
  <1>7. CASE wk.pc = "mdata"
    <2>1. wk.e2 \in PEB /\ wk.e1 \in PEB
      BY Zenon, <1>7 DEF TypeInv, Wf
    <2>2. TornData(flash[wk.e2], flash[wk.e1].data) \in SUBSET PebState
      BY Zenon, <1>2, <2>1, TornDataType
    <2>3. Interrupted = At(wk.e2, TornData(flash[wk.e2], flash[wk.e1].data))
      BY Zenon, <1>7 DEF Interrupted
    <2>. QED  BY Zenon, <1>1, <2>1, <2>2, <2>3
  <1>8. CASE wk.pc = "idle" /\ op.pc \in {"vid", "rvid"}
    <2>1. op.pnum \in PEB
      BY Zenon, <1>8 DEF TypeInv, Wf
    <2>2. TornVid(flash[op.pnum]) \in SUBSET PebState
      BY Zenon, <1>2, <2>1, TornVidType
    <2>3. Interrupted = At(op.pnum, TornVid(flash[op.pnum]))
      BY Zenon, <1>8 DEF Interrupted
    <2>. QED  BY Zenon, <1>1, <2>1, <2>2, <2>3
  <1>9. CASE wk.pc = "idle" /\ op.pc = "data"
    <2>1. op.pnum \in PEB
      BY Zenon, <1>9 DEF TypeInv, Wf
    <2>2. TornData(flash[op.pnum], op.buf) \in SUBSET PebState
      BY Zenon, <1>2, <1>3, <2>1, TornDataType
    <2>3. Interrupted = At(op.pnum, TornData(flash[op.pnum], op.buf))
      BY Zenon, <1>9 DEF Interrupted
    <2>. QED  BY Zenon, <1>1, <2>1, <2>2, <2>3
  <1>10. CASE wk.pc = "idle" /\ op.pc = "rdata"
    <2>1. op.pnum \in PEB /\ op.from \in PEB
      BY Zenon, <1>10 DEF TypeInv, Wf
    <2>2. Data \in Contents
      BY Zenon, <1>2, <1>3, <2>1, ReadFirstType, CatType
    <2>3. TornData(flash[op.pnum], Data) \in SUBSET PebState
      BY Zenon, <1>2, <2>1, <2>2, TornDataType
    <2>4. Interrupted = At(op.pnum, TornData(flash[op.pnum], Data))
      BY Zenon, <1>10 DEF Interrupted
    <2>. QED  BY Zenon, <1>1, <2>1, <2>3, <2>4
  <1>11. CASE wk.pc = "idle" /\ op.pc = "append"
    <2>1. op.from \in PEB
      BY Zenon, <1>11 DEF TypeInv, Wf
    <2>2. TornData(flash[op.from], op.buf) \in SUBSET PebState
      BY Zenon, <1>2, <1>3, <2>1, TornDataType
    <2>3. Interrupted = At(op.from, TornData(flash[op.from], op.buf))
      BY Zenon, <1>11 DEF Interrupted
    <2>. QED  BY Zenon, <1>1, <2>1, <2>2, <2>3
  <1>12. CASE /\ wk.pc \notin {"erase", "ec", "mvid", "mdata"}
              /\ ~(wk.pc = "idle" /\ op.pc \in {"vid", "rvid", "data", "rdata", "append"})
    <2>1. Interrupted = {flash}
      BY Zenon, <1>12 DEF Interrupted
    <2>. QED  BY Zenon, <2>1 DEF TypeInv, TypeOK
  <1>. QED  BY Zenon, <1>4, <1>5, <1>6, <1>7, <1>8, <1>9, <1>10, <1>11, <1>12

\* A power cut keeps the types.
LEMMA PowerCutType ==
  ASSUME TypeInv, PowerCut
  PROVE  TypeInv'
  <1>1. flash' \in [PEB -> PebState]
    BY Zenon, InterruptedType DEF PowerCut
  <1>2. op' \in OpState /\ wk' \in WkState /\ Wf'
    BY Zenon, IdleType DEF PowerCut, Wf, IdleOp, IdleWk
  <1>3. eba_tbl' \in [LEB -> PEB \cup {None}] /\ tree' \in [PEB -> Trees]
    BY Zenon DEF PowerCut, Trees
  <1>4. up' \in {"off", "init", "on"} /\ global_sqnum' \in Nat /\ ro_mode' \in BOOLEAN
    BY Zenon DEF PowerCut
  <1>5. may' \in [LEB -> SUBSET Contents] /\ errs' \in Nat /\ cuts' \in Nat
    BY DEF PowerCut, TypeInv, TypeOK
  <1>. QED  BY Zenon, <1>1, <1>2, <1>3, <1>4, <1>5 DEF TypeInv, TypeOK

\* Attaching by scanning keeps the types.
LEMMA AttachType ==
  ASSUME TypeInv, Attach
  PROVE  TypeInv'
  <1>1. PICK winner \in [LEB -> PEB \cup {None}] :
          /\ eba_tbl' = winner
          /\ may' = [l \in LEB |-> {DataOf(winner[l])}]
          /\ \E flip \in PEB \cup {None} :
               /\ IF flip = None THEN UNCHANGED errs ELSE Fault("bitflip")
               /\ tree' = [p \in PEB |->
                    LET c == ScanClass(flash[p])
                    IN  IF c \in {"bad", "free"} THEN c
                        ELSE IF c = "used" /\ winner[flash[p].lnum] = p
                          THEN IF flash[p].ec = "bad" \/ flip = p THEN "scrub" ELSE "used"
                          ELSE "todo"]
    BY Zenon DEF Attach
  <1>2. ASSUME NEW p \in PEB \cup {None}
        PROVE  DataOf(p) \in Contents
    BY DEF DataOf, TypeInv, TypeOK, PebState, Contents
  <1>3. may' \in [LEB -> SUBSET Contents]
    BY <1>1, <1>2
  <1>4. tree' \in [PEB -> Trees]
    BY Zenon, <1>1 DEF Trees
  <1>5. errs' \in Nat
    BY <1>1 DEF Fault, TypeInv, TypeOK
  <1>6. global_sqnum' \in Nat
    <2>1. PICK m \in {0} \cup {flash[p].sqnum : p \in Seen} : global_sqnum' = m + 1
      BY Zenon DEF Attach, AfterScan
    <2>2. ASSUME NEW p \in Seen
          PROVE  flash[p].sqnum \in Nat
      BY Zenon DEF Seen, TypeInv, TypeOK, PebState
    <2>3. m \in Nat
      BY <2>1, <2>2
    <2>. QED  BY <2>1, <2>3
  <1>7. Wf'
    BY Zenon DEF Attach, TypeInv, Wf
  <1>. QED  BY Zenon, <1>1, <1>3, <1>4, <1>5, <1>6, <1>7 DEF Attach, TypeInv, TypeOK

\* ubi_wl_init_scan() starting an erasure keeps the types.
LEMMA InitEraseType ==
  ASSUME TypeInv, NEW p \in PEB, InitErase(p)
  PROVE  TypeInv'
  <1>1. WkDone
    BY Zenon, WkStartType DEF InitErase, WkDone, TypeInv, TypeOK, Trees
  <1>. QED  BY Zenon, <1>1, WkDoneType DEF InitErase, TypeInv, TypeOK

\* The end of ubi_wl_init_scan() keeps the types.
LEMMA InitDoneType ==
  ASSUME TypeInv, InitDone
  PROVE  TypeInv'
  <1>1. wk' \in WkState /\ wk'.pc = "ensure"
    BY Zenon, IdleType DEF InitDone, IdleWk, WkState, WkPc
  <1>2. WkDone
    BY Zenon, <1>1 DEF InitDone, WkDone, TypeInv, TypeOK
  <1>. QED  BY Zenon, <1>2, WkDoneType DEF InitDone, TypeInv, TypeOK

\* Every step of the specification keeps the invariant.
LEMMA NextType == TypeInv /\ [Next]_vars => TypeInv'
  <1>. SUFFICES ASSUME TypeInv, [Next]_vars PROVE TypeInv'
    BY Zenon
  <1>1. ASSUME Call PROVE TypeInv'
    <2>1. << >> \in Contents /\ \A c \in Chunk : <<c>> \in Contents
      BY DEF Contents
    <2>. QED  BY Zenon, <1>1, <2>1, WriteType, AppendType, ChangeType, UnmapType, ReadScrubType DEF Call
  <1>2. ASSUME OpStep PROVE TypeInv'
    BY Zenon, <1>2, OpUnmappedType, OpGetType, OpVidType, OpDataType, OpRemapType, OpRetryType,
       OpAppendType, OpRecoverGetType, OpRecoverVidType, OpRecoverDataType, OpRecoverEndType
       DEF OpStep
  <1>3. ASSUME WkStep PROVE TypeInv'
    BY Zenon, <1>3, WkEraseType, WkEcType, WkBadType, WkMoveType, WkReadType, WkVidType, WkDataType
       DEF WkStep
  <1>4. ASSUME AttachStep PROVE TypeInv'
    BY Zenon, <1>4, AttachType, InitEraseType, InitDoneType DEF AttachStep
  <1>5. CASE UNCHANGED vars
    BY <1>5 DEF vars, TypeInv, TypeOK, Wf
  <1>. QED  BY Zenon, <1>1, <1>2, <1>3, <1>4, <1>5, PowerCutType DEF Next

-----------------------------------------------------------------------------
(* Sequence numbers: what a flash operation does to one PEB. *)

\* A PEB in state r has become s: it did not come to be seen by the scan, and
\* kept its number if it was.
Keeps(r, s) ==
  /\ Live(s) => Live(r) /\ s.sqnum = r.sqnum
  /\ s.vid = "ok" => s.ec # "none"

\* What the scan counts as used is what Live says.
LEMMA LiveIsSeen ==
  ASSUME TypeInv, NEW p \in PEB
  PROVE  p \in Seen <=> Live(flash[p])
  <1>1. flash[p] \in PebState
    BY Zenon DEF TypeInv, TypeOK
  <1>2. flash[p].ec \in {"none", "ok", "bad"} /\ flash[p].vid \in {"none", "ok", "bad"}
    BY Zenon, <1>1 DEF PebState
  <1>3. ScanClass(flash[p]) = "used" <=> Live(flash[p])
    BY Zenon, <1>1, <1>2 DEF ScanClass, Live, PebState
  <1>. QED  BY Zenon, <1>3 DEF Seen

\* A PEB the scan finds free has an EC header.
LEMMA FreeHasEc ==
  ASSUME NEW r \in PebState, ScanClass(r) = "free"
  PROVE  r.ec # "none"
  BY Zenon DEF ScanClass, PebState

\* An unfinished VID header adds nothing the scan would see.
LEMMA TornVidKeeps ==
  ASSUME NEW r \in PebState, r.vid = "ok" => r.ec # "none", NEW s \in TornVid(r)
  PROVE  Keeps(r, s) /\ s.ec = r.ec
  BY Zenon DEF TornVid, Keeps, Live, PebState

\* Writing data adds nothing the scan would see and keeps the number.
LEMMA WithDataKeeps ==
  ASSUME NEW r \in PebState, r.vid = "ok" => r.ec # "none", NEW d
  PROVE  Keeps(r, WithData(r, d)) /\ WithData(r, d).ec = r.ec
  BY Zenon DEF WithData, Keeps, Live, PebState

\* Nor does an unfinished data write.
LEMMA TornDataKeeps ==
  ASSUME NEW r \in PebState, r.vid = "ok" => r.ec # "none", NEW d, NEW s \in TornData(r, d)
  PROVE  Keeps(r, s) /\ s.ec = r.ec
  <1>1. CASE s = r
    BY Zenon, <1>1 DEF Keeps
  <1>2. CASE \E x \in Cut(d) \cup {d} : s = WithData(r, x)
    <2>1. PICK x \in Cut(d) \cup {d} : s = WithData(r, x)
      BY Zenon, <1>2
    <2>2. Keeps(r, WithData(r, x)) /\ WithData(r, x).ec = r.ec
      BY Zenon, WithDataKeeps
    <2>. QED  BY Zenon, <2>1, <2>2
  <1>. QED  BY Zenon, <1>1, <1>2 DEF TornData

\* Nor does an unfinished erasure.
LEMMA TornEraseKeeps ==
  ASSUME NEW r \in PebState, r.vid = "ok" => r.ec # "none", NEW s \in TornErase(r)
  PROVE  Keeps(r, s)
  <1>1. CASE s \in {r, Blank, [Blank EXCEPT !.ec = "bad", !.vid = "bad"]}
    <2>1. Blank.vid = "none" /\ [Blank EXCEPT !.ec = "bad", !.vid = "bad"].vid = "bad"
      BY Zenon DEF Blank
    <2>2. s = r \/ s.vid \in {"none", "bad"}
      BY Zenon, <1>1, <2>1
    <2>. QED  BY <2>2 DEF Keeps, Live
  <1>2. CASE \E d \in Garbled(r.data) : s = [r EXCEPT !.data = d]
    BY Zenon, <1>2 DEF Keeps, Live, PebState
  <1>3. CASE \E d \in Garbled(r.data) : s = [r EXCEPT !.ec = "bad", !.data = d]
    BY Zenon, <1>3 DEF Keeps, Live, PebState
  <1>. QED  BY Zenon, <1>1, <1>2, <1>3 DEF TornErase

\* Nor do an EC header, a bad-block mark and an erasure.
LEMMA TornEcKeeps ==
  ASSUME NEW r \in PebState, r.vid = "ok" => r.ec # "none",
         NEW s \in TornEc(r) \cup {[r EXCEPT !.ec = "ok"], [r EXCEPT !.bad = TRUE], Blank}
  PROVE  Keeps(r, s)
  BY DEF TornEc, Keeps, Live, PebState, Blank

\* A VID header carries the number it was written with.
LEMMA WithVidNumbers ==
  ASSUME NEW r \in PebState, r.ec # "none", NEW l, NEW n, NEW c, NEW crc
  PROVE  /\ WithVid(r, l, n, c, crc).sqnum = n
         /\ WithVid(r, l, n, c, crc).ec = r.ec
         /\ WithVid(r, l, n, c, crc).ec # "none"
  BY Zenon DEF WithVid, PebState

-----------------------------------------------------------------------------
(* Sequence numbers: what a step does to them. *)

\* No PEB comes to be seen by the scan.
AllKeep == \A p \in PEB : Keeps(flash[p], flash'[p])

Pending(o) == o.pc \in {"get", "vid", "rvid"}

\* A step that adds no VID header and takes numbers from next_sqnum() only
\* keeps the numbers unique.
LEMMA KeepNumbered ==
  ASSUME TypeInv, TypeInv', Numbered, AllKeep, up # "off", global_sqnum' >= global_sqnum,
         Pending(op') => \/ Pending(op) /\ op'.sqnum = op.sqnum
                         \/ op'.sqnum = global_sqnum /\ global_sqnum' = global_sqnum + 1,
         wk'.pc = "mvid" => \/ wk.pc = "mvid" /\ wk'.sqnum = wk.sqnum
                            \/ wk'.sqnum = global_sqnum /\ global_sqnum' = global_sqnum + 1
  PROVE  Numbered'
  <1>1. /\ global_sqnum \in Nat /\ global_sqnum' \in Nat
        /\ op.sqnum \in Nat /\ op'.sqnum \in Nat /\ wk.sqnum \in Nat /\ wk'.sqnum \in Nat
        /\ \A p \in PEB : flash[p].sqnum \in Nat /\ flash'[p].sqnum \in Nat
    BY DEF TypeInv, TypeOK, OpState, WkState, PebState
  <1>2. \A p \in PEB : Live(flash'[p]) => Live(flash[p]) /\ flash'[p].sqnum = flash[p].sqnum
    BY Zenon DEF AllKeep, Keeps
  <1>3. \A p \in PEB : Live(flash[p]) => flash[p].sqnum < global_sqnum
    BY Zenon DEF Numbered
  <1>4. ASSUME NEW n \in Nat, Fresh(n)
        PROVE  Fresh(n)'
    BY <1>1, <1>2, <1>4 DEF Fresh
  <1>5. ASSUME global_sqnum' = global_sqnum + 1, NEW n \in Nat, n = global_sqnum
        PROVE  n < global_sqnum' /\ \A p \in PEB : Live(flash'[p]) => flash'[p].sqnum # n
    BY <1>1, <1>2, <1>3, <1>5
  <1>6. Pending(op') => op'.sqnum < global_sqnum' /\ \A p \in PEB : Live(flash'[p]) => flash'[p].sqnum # op'.sqnum
    BY Zenon, <1>1, <1>4, <1>5 DEF Numbered, Pending, Fresh
  <1>7. wk'.pc = "mvid" => wk'.sqnum < global_sqnum' /\ \A p \in PEB : Live(flash'[p]) => flash'[p].sqnum # wk'.sqnum
    BY Zenon, <1>1, <1>4, <1>5 DEF Numbered, Fresh
  <1>8. \A p \in PEB : Live(flash'[p]) => flash'[p].sqnum < global_sqnum'
    BY <1>1, <1>2, <1>3
  <1>9. \A p, q \in PEB : p # q /\ Live(flash'[p]) /\ Live(flash'[q])
                             => flash'[p].sqnum # flash'[q].sqnum
    BY Zenon, <1>2 DEF Numbered
  <1>. QED  BY Zenon, <1>6, <1>7, <1>8, <1>9 DEF Numbered, Pending, Fresh, Live

\* A step that writes one VID header, with a fresh number nobody holds any
\* longer, keeps the numbers unique.
LEMMA NewNumbered ==
  ASSUME TypeInv, TypeInv', Numbered, up # "off", UNCHANGED global_sqnum,
         NEW x \in PEB, NEW n \in Nat, Fresh(n), flash'[x].sqnum = n,
         \A p \in PEB \ {x} : flash'[p] = flash[p],
         ~Pending(op'), wk'.pc # "mvid"
  PROVE  Numbered'
  <1>1. \A p \in PEB : Live(flash'[p]) => flash'[p].sqnum < global_sqnum'
    BY Zenon DEF Numbered, Fresh
  <1>2. \A p, q \in PEB : p # q /\ Live(flash'[p]) /\ Live(flash'[q])
                             => flash'[p].sqnum # flash'[q].sqnum
    BY DEF Numbered, Fresh
  <1>. QED  BY Zenon, <1>1, <1>2 DEF Numbered, Pending, Live

-----------------------------------------------------------------------------
(* Sequence numbers: the steps of the EBA calls. *)

\* No PEB becomes free, and a worker is called only where the call waits.
WkCalled ==
  /\ \A p \in PEB : tree'[p] = "free" => tree[p] = "free"
  /\ \/ wk'.pc = "idle"
     \/ wk'.pc = "ensure" /\ op'.pc \in Waits
     \/ wk'.pc = "erase" /\ op'.pc \in Waits /\ tree'[wk'.e1] # "free"

\* A step of an EBA call that adds no VID header keeps the invariant.
LEMMA OpKeep ==
  ASSUME TypeInv, TypeInv', SqInv, up = "on", up' = "on", wk.pc = "idle", WkCalled, AllKeep,
         \A p \in PEB : flash[p].ec # "none" => flash'[p].ec # "none",
         op'.pc \in {"vid", "rvid"} => tree[op'.pnum] = "free" /\ op'.pnum \in PEB,
         global_sqnum' >= global_sqnum,
         Pending(op') => \/ Pending(op) /\ op'.sqnum = op.sqnum
                         \/ op'.sqnum = global_sqnum /\ global_sqnum' = global_sqnum + 1
  PROVE  SqInv'
  <1>1. Numbered'
    BY Zenon, KeepNumbered DEF SqInv, WkCalled
  <1>2. EcKept'
    BY Zenon DEF SqInv, EcKept, WkCalled, AllKeep, Keeps
  <1>3. Nested'
    BY Zenon DEF Nested, WkCalled
  <1>. QED  BY Zenon, <1>1, <1>2, <1>3 DEF SqInv

\* A step of an EBA call that writes its VID header keeps the invariant.
LEMMA OpNew ==
  ASSUME TypeInv, TypeInv', SqInv, up = "on", up' = "on", wk.pc = "idle", WkCalled,
         UNCHANGED global_sqnum, NEW x \in PEB, NEW n \in Nat, Fresh(n), flash'[x].sqnum = n,
         flash'[x].ec # "none", \A p \in PEB \ {x} : flash'[p] = flash[p],
         op'.pc \notin {"get", "vid", "rvid"}
  PROVE  SqInv'
  <1>1. Numbered'
    BY Zenon, NewNumbered DEF SqInv, WkCalled, Pending
  <1>2. EcKept'
    BY Zenon DEF SqInv, EcKept, WkCalled
  <1>3. Nested'
    BY Zenon DEF Nested, WkCalled
  <1>. QED  BY Zenon, <1>1, <1>2, <1>3 DEF SqInv

\* ubi_wl_put_peb() frees nothing at once and calls the worker.
LEMMA PutCalled ==
  ASSUME TypeInv, wk.pc = "idle", NEW p \in PEB, NEW next, NEW failed, PutPeb(p, next, failed),
         next.pc \in Waits
  PROVE  WkCalled /\ op' \in {next, failed}
  <1>1. CASE tree[p] \in {"used", "scrub", "prot"}
    <2>1. wk' = [pc |-> "erase", e1 |-> p, e2 |-> None, scrub |-> FALSE, sqnum |-> 0]
      BY Zenon, <1>1 DEF PutPeb, IdleWk
    <2>2. tree' = [tree EXCEPT ![p] = "erase"] /\ op' = next
      BY Zenon, <1>1 DEF PutPeb
    <2>. QED  BY Zenon, <2>1, <2>2 DEF WkCalled, TypeInv, TypeOK
  <1>2. CASE tree[p] \notin {"used", "scrub", "prot"}
    BY Zenon, <1>2 DEF PutPeb, WkCalled
  <1>. QED  BY Zenon, <1>1, <1>2

\* A flash that does not change keeps what it had.
LEMMA SameKeeps ==
  ASSUME TypeInv, SqInv, UNCHANGED flash
  PROVE  AllKeep /\ \A p \in PEB : flash[p].ec # "none" => flash'[p].ec # "none"
  BY Zenon DEF SqInv, EcKept, AllKeep, Keeps

\* So does one in which one PEB changed to a state that keeps what it had.
LEMMA OneKeeps ==
  ASSUME TypeInv, SqInv, NEW x \in PEB, NEW s, flash' = [flash EXCEPT ![x] = s],
         Keeps(flash[x], s)
  PROVE  /\ AllKeep
         /\ s.ec = flash[x].ec => \A p \in PEB : flash[p].ec # "none" => flash'[p].ec # "none"
  BY Zenon DEF TypeInv, TypeOK, SqInv, EcKept, AllKeep, Keeps

\* PEB r has become s: it keeps what it had, or carries the number of the header
\* that was being written.
Takes(r, s) ==
  \/ Keeps(r, s) /\ s.ec = r.ec
  \/ op.pc \in {"vid", "rvid"} /\ s.sqnum = op.sqnum /\ s.ec # "none"

\* A write to the new PEB that ends the attempt, whatever it left behind.
LEMMA OpTakes ==
  ASSUME TypeInv, TypeInv', SqInv, up = "on", wk.pc = "idle", op.pnum \in PEB,
         UNCHANGED <<up, global_sqnum>>, NEW torn, \A s \in torn : Takes(flash[op.pnum], s),
         UNCHANGED flash \/ \E s \in torn : flash' = [flash EXCEPT ![op.pnum] = s],
         WkCalled, op'.pc \in {"idle", "retry", "rretry"}
  PROVE  SqInv'
  <1>1. global_sqnum \in Nat /\ op \in OpState /\ op.sqnum \in Nat
    BY Zenon DEF TypeInv, TypeOK, OpState
  <1>2. CASE AllKeep /\ \A p \in PEB : flash[p].ec # "none" => flash'[p].ec # "none"
    BY <1>1, <1>2, OpKeep DEF Pending
  <1>3. CASE UNCHANGED flash
    BY Zenon, <1>2, <1>3, SameKeeps
  <1>4. CASE ~UNCHANGED flash
    <2>1. PICK s \in torn : flash' = [flash EXCEPT ![op.pnum] = s]
      BY Zenon, <1>4
    <2>2. CASE Keeps(flash[op.pnum], s) /\ s.ec = flash[op.pnum].ec
      BY Zenon, <1>2, <2>1, <2>2, OneKeeps
    <2>3. CASE op.pc \in {"vid", "rvid"} /\ s.sqnum = op.sqnum /\ s.ec # "none"
      <3>1. /\ flash'[op.pnum].sqnum = op.sqnum /\ flash'[op.pnum].ec # "none"
            /\ \A p \in PEB \ {op.pnum} : flash'[p] = flash[p]
        BY Zenon, <2>1, <2>3 DEF TypeInv, TypeOK
      <3>2. Fresh(op.sqnum)
        BY Zenon, <2>3 DEF SqInv, Numbered
      <3>. QED  BY Zenon, <1>1, <3>1, <3>2, OpNew
    <2>. QED  BY Zenon, <2>1, <2>2, <2>3 DEF Takes
  <1>. QED  BY Zenon, <1>3, <1>4

\* The start of every EBA call keeps the invariant.
LEMMA CallSq ==
  ASSUME TypeInv, TypeInv', SqInv, Call
  PROVE  SqInv'
  <1>1. up = "on" /\ up' = "on" /\ op.pc = "idle" /\ wk.pc = "idle" /\ UNCHANGED flash
    BY ZenonT(30) DEF Call, Write, AppendTo, Change, Unmap, ReadScrub, Ready
  <1>2. global_sqnum \in Nat
    BY Zenon DEF TypeInv, TypeOK
  <1>3. ASSUME NEW l, NEW kind, NEW d, NEW allowed, Begin(l, kind, d, allowed),
               UNCHANGED <<tree, wk>>
        PROVE  SqInv'
    <2>1. op'.pc = "get" /\ op'.sqnum = global_sqnum /\ global_sqnum' = global_sqnum + 1
      BY Zenon, <1>3 DEF Begin, IdleOp
    <2>. QED  BY <1>1, <1>2, <1>3, <2>1, SameKeeps, OpKeep DEF WkCalled
  <1>4. ASSUME NEW l \in LEB, NEW d, AppendTo(l, d)
        PROVE  SqInv'
    <2>1. op'.pc = "append" /\ UNCHANGED <<tree, wk, global_sqnum>>
      BY Zenon, <1>4 DEF AppendTo, IdleOp
    <2>. QED  BY <1>1, <1>2, <2>1, SameKeeps, OpKeep DEF WkCalled, Pending
  <1>5. ASSUME NEW l \in LEB, NEW kind, Unmap(l, kind)
        PROVE  SqInv'
    <2>. DEFINE next == [IdleOp EXCEPT !.pc = "unmapped", !.kind = kind, !.lnum = l]
    <2>1. next.pc = "unmapped" /\ IdleOp.pc = "idle"
      BY Zenon DEF IdleOp
    <2>2. eba_tbl[l] \in PEB /\ PutPeb(eba_tbl[l], next, IdleOp) /\ UNCHANGED global_sqnum
      BY Zenon, <1>5 DEF Unmap, TypeInv, TypeOK
    <2>. HIDE DEF next
    <2>3. WkCalled /\ op' \in {next, IdleOp}
      BY Zenon, <1>1, <2>1, <2>2, PutCalled DEF Waits
    <2>. QED  BY <1>1, <1>2, <2>1, <2>2, <2>3, SameKeeps, OpKeep DEF Pending
  <1>6. ASSUME NEW l \in LEB, ReadScrub(l)
        PROVE  SqInv'
    <2>1. UNCHANGED <<global_sqnum, op>> /\ (wk' = wk \/ wk'.pc = "ensure")
      BY Zenon, <1>6 DEF ReadScrub, IdleWk
    <2>2. \A p \in PEB : tree'[p] = "free" => tree[p] = "free"
      BY Zenon, <1>6 DEF ReadScrub, TypeInv, TypeOK
    <2>. QED  BY <1>1, <1>2, <2>1, <2>2, SameKeeps, OpKeep DEF WkCalled, Pending, Waits
  <1>7. ASSUME NEW l \in LEB, NEW d, Write(l, d) \/ Change(l, d)
        PROVE  SqInv'
    BY Zenon, <1>3, <1>7 DEF Write, Change
  <1>. QED  BY ZenonT(30), <1>4, <1>5, <1>6, <1>7 DEF Call

\* The steps that do not touch the flash.
LEMMA PlainSq ==
  ASSUME TypeInv, TypeInv', SqInv,
         OpUnmapped \/ OpGet \/ OpRemap \/ OpRetry \/ OpRecoverGet \/ OpRecoverDone
           \/ OpRecoverRetry \/ OpRecoverFail
  PROVE  SqInv'
  <1>1. up = "on" /\ up' = "on" /\ wk.pc = "idle" /\ UNCHANGED flash
    BY Zenon DEF OpUnmapped, OpGet, OpRemap, OpRetry, OpRecoverGet, OpRecoverDone, OpRecoverRetry,
           OpRecoverFail, Running
  <1>2. global_sqnum \in Nat /\ IdleOp.pc = "idle" /\ op \in OpState
    BY Zenon DEF TypeInv, TypeOK, IdleOp
  <1>3. CASE OpUnmapped
    <2>1. \/ op'.pc = "idle" /\ UNCHANGED global_sqnum
          \/ op'.sqnum = global_sqnum /\ global_sqnum' = global_sqnum + 1 /\ op'.pc = "get"
      BY Zenon, <1>2, <1>3 DEF OpUnmapped, Succeed, Begin, IdleOp
    <2>. QED  BY <1>1, <1>2, <1>3, <2>1, SameKeeps, OpKeep DEF OpUnmapped, WkCalled, Pending
  <1>4. CASE OpGet
    <2>1. \/ op' = IdleOp /\ UNCHANGED tree
          \/ \E p \in PEB : /\ tree[p] = "free" /\ tree' = [tree EXCEPT ![p] = "prot"]
                            /\ op' = [op EXCEPT !.pc = "vid", !.pnum = p]
      BY ZenonT(30), <1>4 DEF OpGet, In
    <2>2. \/ op'.pc = "idle"
          \/ /\ op'.pc = "vid" /\ op'.sqnum = op.sqnum /\ op'.pnum \in PEB
             /\ tree[op'.pnum] = "free"
      BY ZenonT(30), <1>2, <2>1 DEF OpState
    <2>3. \A p \in PEB : tree'[p] = "free" => tree[p] = "free"
      BY Zenon, <2>1 DEF TypeInv, TypeOK
    <2>4. op.pc = "get" /\ UNCHANGED <<global_sqnum, wk>>
      BY Zenon, <1>4 DEF OpGet, Running
    <2>5. WkCalled
      BY Zenon, <1>1, <2>3, <2>4 DEF WkCalled
    <2>6. AllKeep /\ \A p \in PEB : flash[p].ec # "none" => flash'[p].ec # "none"
      BY Zenon, <1>1, SameKeeps
    <2>. QED  BY <1>1, <1>2, <2>2, <2>4, <2>5, <2>6, OpKeep DEF Pending
  <1>5. CASE OpRemap \/ OpRecoverDone
    BY <1>1, <1>2, <1>5, SameKeeps, OpKeep DEF OpRemap, OpRecoverDone, Succeed, WkCalled, Pending
  <1>6. CASE OpRetry
    <2>1. \/ op'.pc = "idle" /\ UNCHANGED global_sqnum
          \/ op'.sqnum = global_sqnum /\ global_sqnum' = global_sqnum + 1 /\ op'.pc = "get"
      BY Zenon, <1>2, <1>6 DEF OpRetry, Succeed, OpState
    <2>. QED  BY <1>1, <1>2, <1>6, <2>1, SameKeeps, OpKeep DEF OpRetry, WkCalled, Pending
  <1>7. CASE OpRecoverGet
    <2>1. CASE FailRo /\ UNCHANGED <<tree, wk, global_sqnum>>
      BY <1>1, <1>2, <2>1, SameKeeps, OpKeep DEF FailRo, WkCalled, Pending
    <2>2. CASE ~(FailRo /\ UNCHANGED <<tree, wk, global_sqnum>>)
      <3>1. PICK p \in In("free") :
              /\ tree' = [tree EXCEPT ![p] = "prot"]
              /\ IF flash[op.from].vid = "ok"
                   THEN /\ op' = [op EXCEPT !.pc = "rvid", !.pnum = p, !.sqnum = global_sqnum]
                        /\ global_sqnum' = global_sqnum + 1
                   ELSE /\ op' = [op EXCEPT !.pc = "rfail", !.pnum = p]
                        /\ UNCHANGED global_sqnum
              /\ UNCHANGED <<wk, ro_mode, may>>
        BY Zenon, <1>7, <2>2 DEF OpRecoverGet
      <3>2. p \in PEB /\ tree[p] = "free"
        BY Zenon DEF In
      <3>3. \/ op'.pc = "rfail" /\ UNCHANGED global_sqnum
            \/ /\ op'.pc = "rvid" /\ op'.pnum = p /\ op'.sqnum = global_sqnum
               /\ global_sqnum' = global_sqnum + 1
        BY Zenon, <1>2, <3>1 DEF OpState
      <3>4. \A q \in PEB : tree'[q] = "free" => tree[q] = "free"
        BY Zenon, <3>1 DEF TypeInv, TypeOK
      <3>. QED  BY <1>1, <1>2, <3>1, <3>2, <3>3, <3>4, SameKeeps, OpKeep DEF WkCalled, Pending
    <2>. QED  BY Zenon, <2>1, <2>2
  <1>8. CASE OpRecoverRetry
    <2>1. op'.pc \in {"idle", "rget"}
      BY Zenon, <1>2, <1>8 DEF OpRecoverRetry, FailRo, OpState
    <2>. QED  BY <1>1, <1>2, <1>8, <2>1, SameKeeps, OpKeep DEF OpRecoverRetry, WkCalled, Pending
  <1>9. CASE OpRecoverFail
    <2>1. CASE op.pnum = None
      BY <1>1, <1>2, <1>9, <2>1, SameKeeps, OpKeep DEF OpRecoverFail, FailRo, WkCalled, Pending
    <2>2. CASE op.pnum # None
      <3>. DEFINE next == [op EXCEPT !.pnum = None]
      <3>1. next.pc = "rfail"
        BY Zenon, <1>2, <1>9 DEF OpRecoverFail, Running, OpState
      <3>2. op.pnum \in PEB /\ PutPeb(op.pnum, next, next) /\ UNCHANGED global_sqnum
        BY Zenon, <1>2, <1>9, <2>2 DEF OpRecoverFail, OpState
      <3>. HIDE DEF next
      <3>3. WkCalled /\ op' \in {next, next}
        BY Zenon, <1>1, <3>1, <3>2, PutCalled DEF Waits
      <3>. QED  BY <1>1, <1>2, <3>1, <3>2, <3>3, SameKeeps, OpKeep DEF Pending
    <2>. QED  BY Zenon, <2>1, <2>2
  <1>. QED  BY Zenon, <1>3, <1>4, <1>5, <1>6, <1>7, <1>8, <1>9

\* The end of a write to a new PEB only ends the call or calls the worker.
LEMMA WrittenSq ==
  ASSUME TypeInv, wk.pc = "idle", op.pc \in {"vid", "data"}, Written
  PROVE  WkCalled /\ op'.pc \in {"idle", "remap"}
  <1>1. op \in OpState /\ op.lnum \in LEB /\ IdleOp.pc = "idle"
    BY Zenon DEF TypeInv, TypeOK, Wf, IdleOp
  <1>2. CASE op.kind = "change" /\ eba_tbl[op.lnum] # None
    <2>. DEFINE next == [op EXCEPT !.pc = "remap"]
    <2>1. next.pc = "remap"
      BY Zenon, <1>1 DEF OpState
    <2>2. eba_tbl[op.lnum] \in PEB /\ PutPeb(eba_tbl[op.lnum], next, IdleOp)
      BY Zenon, <1>1, <1>2 DEF Written, TypeInv, TypeOK
    <2>. HIDE DEF next
    <2>. QED  BY Zenon, <1>1, <2>1, <2>2, PutCalled DEF Waits
  <1>3. CASE ~(op.kind = "change" /\ eba_tbl[op.lnum] # None)
    BY Zenon, <1>1, <1>3 DEF Written, Succeed, WkCalled
  <1>. QED  BY Zenon, <1>2, <1>3

\* The write_error path keeps the invariant, the header written or not.
LEMMA WriteErrorSq ==
  ASSUME TypeInv, TypeInv', SqInv, up = "on", wk.pc = "idle", op.pc \in {"vid", "data"},
         NEW torn, \A s \in torn : Takes(flash[op.pnum], s),
         WriteError(torn)
  PROVE  SqInv'
  <1>1. op.pnum \in PEB /\ op \in OpState /\ global_sqnum \in Nat /\ IdleOp.pc = "idle"
    BY Zenon DEF TypeInv, TypeOK, Wf, IdleOp
  <1>2. UNCHANGED <<up, global_sqnum>>
    BY Zenon DEF WriteError
  <1>3. UNCHANGED flash \/ \E s \in torn : flash' = [flash EXCEPT ![op.pnum] = s]
    BY Zenon DEF WriteError
  <1>4. WkCalled /\ op'.pc \in {"idle", "retry"}
    <2>1. CASE FailRo /\ UNCHANGED <<tree, wk>>
      BY Zenon, <1>1, <2>1 DEF FailRo, WkCalled
    <2>2. CASE PutPeb(op.pnum, [op EXCEPT !.pc = "retry"], IdleOp)
      <3>1. [op EXCEPT !.pc = "retry"].pc = "retry"
        BY Zenon, <1>1 DEF OpState
      <3>2. WkCalled /\ op' \in {[op EXCEPT !.pc = "retry"], IdleOp}
        BY Zenon, <1>1, <2>2, <3>1, PutCalled DEF Waits
      <3>. QED  BY Zenon, <1>1, <3>1, <3>2
    <2>. QED  BY Zenon, <2>1, <2>2 DEF WriteError
  <1>. QED  BY Zenon, <1>1, <1>2, <1>3, <1>4, OpTakes

\* Writing the VID header of the new PEB keeps the invariant.
LEMMA OpVidSq ==
  ASSUME TypeInv, TypeInv', SqInv, OpVid
  PROVE  SqInv'
  <1>1. up = "on" /\ wk.pc = "idle" /\ op.pc = "vid" /\ op.pnum \in PEB /\ op \in OpState
    BY Zenon DEF OpVid, Running, TypeInv, TypeOK, Wf
  <1>2. /\ flash[op.pnum] \in PebState /\ flash[op.pnum].ec # "none" /\ op.sqnum \in Nat
        /\ Fresh(op.sqnum)
    BY ZenonT(30), <1>1 DEF TypeInv, TypeOK, OpState, SqInv, EcKept, Numbered
  <1>. DEFINE good == WithVid(flash[op.pnum], op.lnum, op.sqnum, op.kind = "change",
                              IF op.kind = "change" THEN op.buf ELSE << >>)
              torn == TornVid(flash[op.pnum]) \cup {good}
  <1>3. good.sqnum = op.sqnum /\ good.ec # "none"
    BY <1>2, WithVidNumbers
  <1>4. \/ WriteError(torn)
        \/ /\ flash' = [flash EXCEPT ![op.pnum] = good] /\ UNCHANGED <<up, global_sqnum>>
           /\ Written \/ (op' = [op EXCEPT !.pc = "data"] /\ UNCHANGED <<tree, wk>>)
    BY Zenon DEF OpVid
  <1>. HIDE DEF good
  <1>5. CASE WriteError(torn)
    <2>1. \A s \in torn : Takes(flash[op.pnum], s)
      BY Zenon, <1>1, <1>2, <1>3, TornVidKeeps DEF Takes
    <2>. HIDE DEF torn
    <2>. QED  BY Zenon, <1>1, <1>5, <2>1, WriteErrorSq
  <1>6. CASE ~WriteError(torn)
    <2>1. /\ flash'[op.pnum].sqnum = op.sqnum /\ flash'[op.pnum].ec # "none"
          /\ \A p \in PEB \ {op.pnum} : flash'[p] = flash[p]
      BY Zenon, <1>1, <1>3, <1>4, <1>6 DEF TypeInv, TypeOK
    <2>2. WkCalled /\ op'.pc \in {"idle", "remap", "data"}
      <3>1. CASE Written
        BY Zenon, <1>1, <3>1, WrittenSq
      <3>2. CASE op' = [op EXCEPT !.pc = "data"] /\ UNCHANGED <<tree, wk>>
        BY Zenon, <1>1, <3>2 DEF WkCalled, OpState
      <3>. QED  BY Zenon, <1>4, <1>6, <3>1, <3>2
    <2>. QED  BY Zenon, <1>1, <1>2, <1>4, <1>6, <2>1, <2>2, OpNew
  <1>. QED  BY Zenon, <1>5, <1>6

\* Writing the data of the new PEB keeps the invariant.
LEMMA OpDataSq ==
  ASSUME TypeInv, TypeInv', SqInv, OpData
  PROVE  SqInv'
  <1>1. up = "on" /\ wk.pc = "idle" /\ op.pc = "data" /\ op.pnum \in PEB /\ global_sqnum \in Nat
    BY Zenon DEF OpData, Running, TypeInv, TypeOK, Wf
  <1>2. /\ flash[op.pnum] \in PebState
        /\ flash[op.pnum].vid = "ok" => flash[op.pnum].ec # "none"
    BY Zenon, <1>1 DEF TypeInv, TypeOK, SqInv, EcKept
  <1>3. CASE WriteError(TornData(flash[op.pnum], op.buf))
    <2>1. \A s \in TornData(flash[op.pnum], op.buf) : Takes(flash[op.pnum], s)
      BY <1>2, TornDataKeeps DEF Takes
    <2>. QED  BY Zenon, <1>1, <1>3, <2>1, WriteErrorSq
  <1>4. CASE ~WriteError(TornData(flash[op.pnum], op.buf))
    <2>. DEFINE r == WithData(flash[op.pnum], op.buf)
    <2>1. flash' = [flash EXCEPT ![op.pnum] = r] /\ Written /\ UNCHANGED <<up, global_sqnum>>
      BY Zenon, <1>4 DEF OpData
    <2>2. Keeps(flash[op.pnum], r) /\ r.ec = flash[op.pnum].ec
      BY Zenon, <1>2, WithDataKeeps
    <2>. HIDE DEF r
    <2>3. AllKeep /\ \A p \in PEB : flash[p].ec # "none" => flash'[p].ec # "none"
      BY Zenon, <1>1, <2>1, <2>2, OneKeeps
    <2>4. WkCalled /\ op'.pc \in {"idle", "remap"}
      BY Zenon, <1>1, <2>1, WrittenSq
    <2>. QED  BY <1>1, <2>1, <2>3, <2>4, OpKeep DEF Pending
  <1>. QED  BY Zenon, <1>3, <1>4

\* Writing behind the data of a mapped PEB keeps the invariant.
LEMMA OpAppendSq ==
  ASSUME TypeInv, TypeInv', SqInv, OpAppend
  PROVE  SqInv'
  <1>1. /\ up = "on" /\ wk.pc = "idle" /\ op.pc = "append" /\ op.from \in PEB /\ op \in OpState
        /\ global_sqnum \in Nat /\ IdleOp.pc = "idle"
        /\ UNCHANGED <<up, tree, global_sqnum, wk>>
    BY Zenon DEF OpAppend, Running, TypeInv, TypeOK, Wf, IdleOp
  <1>2. /\ flash[op.from] \in PebState
        /\ flash[op.from].vid = "ok" => flash[op.from].ec # "none"
    BY Zenon, <1>1 DEF TypeInv, TypeOK, SqInv, EcKept
  <1>3. op'.pc \in {"idle", "rget"}
    BY Zenon, <1>1 DEF OpAppend, Succeed, FailRo, OpState
  <1>4. PICK s \in TornData(flash[op.from], op.buf) \cup {WithData(flash[op.from], op.buf)} :
          flash' = [flash EXCEPT ![op.from] = s]
    BY Zenon DEF OpAppend
  <1>5. Keeps(flash[op.from], s) /\ s.ec = flash[op.from].ec
    BY <1>2, TornDataKeeps, WithDataKeeps
  <1>6. AllKeep /\ \A p \in PEB : flash[p].ec # "none" => flash'[p].ec # "none"
    BY Zenon, <1>1, <1>4, <1>5, OneKeeps
  <1>. QED  BY <1>1, <1>3, <1>6, OpKeep DEF WkCalled, Pending

\* The write_error path of recover_peb() keeps the invariant.
LEMMA RecoverErrorSq ==
  ASSUME TypeInv, TypeInv', SqInv, up = "on", wk.pc = "idle", op.pc \in {"rvid", "rdata"},
         NEW torn, \A s \in torn : Takes(flash[op.pnum], s),
         RecoverError(torn)
  PROVE  SqInv'
  <1>1. op.pnum \in PEB /\ op \in OpState /\ global_sqnum \in Nat
    BY Zenon DEF TypeInv, TypeOK, Wf
  <1>2. UNCHANGED <<up, global_sqnum>>
    BY Zenon DEF RecoverError
  <1>3. UNCHANGED flash \/ \E s \in torn : flash' = [flash EXCEPT ![op.pnum] = s]
    BY Zenon DEF RecoverError
  <1>4. WkCalled /\ op'.pc = "rretry"
    <2>1. [op EXCEPT !.pc = "rretry"].pc = "rretry"
      BY Zenon, <1>1 DEF OpState
    <2>2. PutPeb(op.pnum, [op EXCEPT !.pc = "rretry"], [op EXCEPT !.pc = "rretry"])
      BY Zenon DEF RecoverError
    <2>3. WkCalled /\ op' \in {[op EXCEPT !.pc = "rretry"], [op EXCEPT !.pc = "rretry"]}
      BY Zenon, <1>1, <2>1, <2>2, PutCalled DEF Waits
    <2>. QED  BY Zenon, <2>1, <2>3
  <1>. QED  BY Zenon, <1>1, <1>2, <1>3, <1>4, OpTakes

\* recover_peb() writing the VID header keeps the invariant.
LEMMA OpRecoverVidSq ==
  ASSUME TypeInv, TypeInv', SqInv, OpRecoverVid
  PROVE  SqInv'
  <1>1. up = "on" /\ wk.pc = "idle" /\ op.pc = "rvid" /\ op.pnum \in PEB /\ op \in OpState
    BY Zenon DEF OpRecoverVid, Running, TypeInv, TypeOK, Wf
  <1>2. /\ flash[op.pnum] \in PebState /\ flash[op.pnum].ec # "none" /\ op.sqnum \in Nat
        /\ Fresh(op.sqnum)
    BY ZenonT(30), <1>1 DEF TypeInv, TypeOK, OpState, SqInv, EcKept, Numbered
  <1>. DEFINE o == flash[op.from]
              good == WithVid(flash[op.pnum], o.lnum, op.sqnum, o.copy_flag, o.data_crc)
              torn == TornVid(flash[op.pnum]) \cup {good}
  <1>3. good.sqnum = op.sqnum /\ good.ec # "none"
    BY <1>2, WithVidNumbers
  <1>4. \/ RecoverError(torn)
        \/ /\ flash' = [flash EXCEPT ![op.pnum] = good]
           /\ UNCHANGED <<up, tree, wk, global_sqnum>>
           /\ \E pc \in {"rdata", "rfail"} : op' = [op EXCEPT !.pc = pc]
    BY Zenon DEF OpRecoverVid
  <1>. HIDE DEF good
  <1>5. CASE RecoverError(torn)
    <2>1. \A s \in torn : Takes(flash[op.pnum], s)
      BY Zenon, <1>1, <1>2, <1>3, TornVidKeeps DEF Takes
    <2>. HIDE DEF torn
    <2>. QED  BY Zenon, <1>1, <1>5, <2>1, RecoverErrorSq
  <1>6. CASE ~RecoverError(torn)
    <2>1. /\ flash'[op.pnum].sqnum = op.sqnum /\ flash'[op.pnum].ec # "none"
          /\ \A p \in PEB \ {op.pnum} : flash'[p] = flash[p]
      BY Zenon, <1>1, <1>3, <1>4, <1>6 DEF TypeInv, TypeOK
    <2>2. op'.pc \in {"rdata", "rfail"}
      BY Zenon, <1>1, <1>4, <1>6 DEF OpState
    <2>. QED  BY Zenon, <1>1, <1>2, <1>4, <1>6, <2>1, <2>2, OpNew DEF WkCalled
  <1>. QED  BY Zenon, <1>5, <1>6

\* recover_peb() writing the data and remapping keeps the invariant.
LEMMA OpRecoverDataSq ==
  ASSUME TypeInv, TypeInv', SqInv, OpRecoverData
  PROVE  SqInv'
  <1>1. /\ up = "on" /\ wk.pc = "idle" /\ op.pc = "rdata" /\ op.pnum \in PEB /\ op.from \in PEB
        /\ op \in OpState /\ global_sqnum \in Nat
    BY Zenon DEF OpRecoverData, Running, TypeInv, TypeOK, Wf
  <1>2. /\ flash[op.pnum] \in PebState
        /\ flash[op.pnum].vid = "ok" => flash[op.pnum].ec # "none"
    BY Zenon, <1>1 DEF TypeInv, TypeOK, SqInv, EcKept
  <1>. DEFINE d == ReadFirst(flash[op.from].data, Len(op.want) - Len(op.buf)) \o op.buf
  <1>3. CASE RecoverError(TornData(flash[op.pnum], d))
    <2>1. \A s \in TornData(flash[op.pnum], d) : Takes(flash[op.pnum], s)
      BY ZenonT(30), <1>2, TornDataKeeps DEF Takes
    <2>. QED  BY Zenon, <1>1, <1>3, <2>1, RecoverErrorSq
  <1>4. CASE ~RecoverError(TornData(flash[op.pnum], d))
    <2>. DEFINE r == WithData(flash[op.pnum], d)
    <2>1. /\ flash' = [flash EXCEPT ![op.pnum] = r]
          /\ PutPeb(op.from, [op EXCEPT !.pc = "rdone"], [op EXCEPT !.pc = "rdone"])
          /\ UNCHANGED <<up, global_sqnum>>
      BY Zenon, <1>4 DEF OpRecoverData
    <2>2. Keeps(flash[op.pnum], r) /\ r.ec = flash[op.pnum].ec
      BY Zenon, <1>2, WithDataKeeps
    <2>. HIDE DEF r
    <2>3. AllKeep /\ \A p \in PEB : flash[p].ec # "none" => flash'[p].ec # "none"
      BY Zenon, <1>1, <2>1, <2>2, OneKeeps
    <2>4. [op EXCEPT !.pc = "rdone"].pc = "rdone"
      BY Zenon, <1>1 DEF OpState
    <2>5. WkCalled /\ op' \in {[op EXCEPT !.pc = "rdone"], [op EXCEPT !.pc = "rdone"]}
      BY Zenon, <1>1, <2>1, <2>4, PutCalled DEF Waits
    <2>6. op'.pc = "rdone"
      BY Zenon, <2>4, <2>5
    <2>7. up' = "on" /\ global_sqnum' >= global_sqnum
      BY <1>1, <2>1
    <2>. QED  BY Zenon, <1>1, <2>3, <2>5, <2>6, <2>7, OpKeep DEF Pending
  <1>. QED  BY Zenon, <1>3, <1>4

-----------------------------------------------------------------------------
(* Sequence numbers: the steps of the workers. *)

\* The steps of erase_worker() keep the invariant.
LEMMA EraseSq ==
  ASSUME TypeInv, TypeInv', SqInv, WkErase \/ WkEc \/ WkBad
  PROVE  SqInv'
  <1>1. /\ wk.pc \in {"erase", "ec", "bad"} /\ wk.e1 \in PEB /\ up # "off" /\ wk \in WkState
        /\ global_sqnum \in Nat /\ UNCHANGED <<up, op, global_sqnum>> /\ IdleWk.pc = "idle"
    BY Zenon DEF WkErase, WkEc, WkBad, TypeInv, TypeOK, Wf, SqInv, Nested, IdleWk
  <1>2. /\ flash[wk.e1] \in PebState
        /\ flash[wk.e1].vid = "ok" => flash[wk.e1].ec # "none"
        /\ op.pc \in Waits
    BY Zenon, <1>1 DEF TypeInv, TypeOK, SqInv, EcKept, Nested
  <1>3. \/ UNCHANGED flash
        \/ \E s : Keeps(flash[wk.e1], s) /\ flash' = [flash EXCEPT ![wk.e1] = s]
    <2>1. CASE WkErase
      <3>1. CASE UNCHANGED flash
        BY Zenon, <3>1
      <3>2. CASE \E s \in TornErase(flash[wk.e1]) \cup {Blank} : flash' = [flash EXCEPT ![wk.e1] = s]
        BY Zenon, <1>2, <3>2, TornEraseKeeps, TornEcKeeps
      <3>. QED  BY Zenon, <2>1, <3>1, <3>2 DEF WkErase, EraseError
    <2>2. CASE WkEc
      <3>1. CASE UNCHANGED flash
        BY Zenon, <3>1
      <3>2. CASE \E s \in TornEc(flash[wk.e1]) : flash' = [flash EXCEPT ![wk.e1] = s]
        BY Zenon, <1>2, <3>2, TornEcKeeps
      <3>3. CASE flash' = [flash EXCEPT ![wk.e1].ec = "ok"]
        <4>1. Keeps(flash[wk.e1], [flash[wk.e1] EXCEPT !.ec = "ok"])
          BY Zenon, <1>2, TornEcKeeps
        <4>2. flash' = [flash EXCEPT ![wk.e1] = [flash[wk.e1] EXCEPT !.ec = "ok"]]
          BY Zenon, <3>3
        <4>. QED  BY Zenon, <4>1, <4>2
      <3>. QED  BY Zenon, <2>2, <3>1, <3>2, <3>3 DEF WkEc, EraseError
    <2>3. CASE WkBad
      <3>1. Keeps(flash[wk.e1], [flash[wk.e1] EXCEPT !.bad = TRUE])
        BY Zenon, <1>2, TornEcKeeps
      <3>. QED  BY Zenon, <2>3, <3>1 DEF WkBad
    <2>. QED  BY Zenon, <2>1, <2>2, <2>3
  <1>4. AllKeep
    BY Zenon, <1>1, <1>3, SameKeeps, OneKeeps
  <1>5. wk'.pc \in {"idle", "ec", "bad", "ensure"} /\ (wk'.pc = "ec" => wk'.e1 = wk.e1)
    BY Zenon, <1>1 DEF WkErase, WkEc, WkBad, EraseError, IdleWk, WkState
  <1>6. Numbered'
    BY <1>1, <1>2, <1>4, <1>5, KeepNumbered DEF SqInv, Pending, Waits
  <1>7. \A p \in PEB : tree'[p] = "free" =>
          \/ p # wk.e1 /\ tree[p] = "free"
          \/ p = wk.e1 /\ flash'[p].ec # "none" /\ wk'.pc # "ec"
    <2>1. CASE WkErase
      BY Zenon, <1>1, <2>1 DEF WkErase, EraseError, TypeInv, TypeOK, SqInv, EcKept
    <2>2. CASE WkBad
      BY Zenon, <1>1, <2>2 DEF WkBad, TypeInv, TypeOK
    <2>3. CASE WkEc
      <3>1. CASE EraseError(TornEc(flash[wk.e1]))
        BY Zenon, <1>1, <2>3, <3>1 DEF WkEc, EraseError, TypeInv, TypeOK, SqInv, EcKept
      <3>2. CASE ~EraseError(TornEc(flash[wk.e1]))
        <4>1. /\ flash' = [flash EXCEPT ![wk.e1].ec = "ok"]
              /\ \E over \in SUBSET In("prot") :
                   tree' = [p \in PEB |-> IF p = wk.e1 THEN "free"
                                          ELSE IF p \in over THEN "used" ELSE tree[p]]
              /\ wk'.pc = "ensure"
          BY Zenon, <2>3, <3>2 DEF WkEc, IdleWk
        <4>2. flash'[wk.e1].ec = "ok"
          BY Zenon, <1>1, <1>2, <4>1 DEF TypeInv, TypeOK, PebState
        <4>. QED  BY Zenon, <1>1, <4>1, <4>2
      <3>. QED  BY Zenon, <3>1, <3>2
    <2>. QED  BY Zenon, <2>1, <2>2, <2>3
  <1>8. \A p \in PEB : p # wk.e1 => flash'[p] = flash[p]
    BY Zenon, <1>3 DEF TypeInv, TypeOK
  <1>9. EcKept'
    BY <1>1, <1>2, <1>4, <1>5, <1>7, <1>8 DEF SqInv, EcKept, AllKeep, Keeps, Waits
  <1>10. Nested'
    BY Zenon, <1>1, <1>2 DEF SqInv, Nested
  <1>. QED  BY Zenon, <1>6, <1>9, <1>10 DEF SqInv

\* wear_leveling_worker() choosing what to move keeps the invariant.
LEMMA MoveSq ==
  ASSUME TypeInv, TypeInv', SqInv, WkNoMove \/ WkMove
  PROVE  SqInv'
  <1>1. /\ wk.pc = "ensure" /\ up # "off" /\ UNCHANGED <<flash, up, op, global_sqnum>>
        /\ global_sqnum \in Nat /\ op.pc \in Waits
    BY Zenon DEF WkNoMove, WkMove, TypeInv, TypeOK, SqInv, Nested
  <1>2. AllKeep
    BY Zenon, <1>1, SameKeeps
  <1>3. /\ \A p \in PEB : tree'[p] = "free" => tree[p] = "free"
        /\ wk'.pc = "idle" \/ (wk'.pc = "mread" /\ wk'.e2 \in PEB /\ tree[wk'.e2] = "free")
    <2>1. CASE WkNoMove
      BY Zenon, <2>1 DEF WkNoMove, IdleWk
    <2>2. CASE WkMove
      <3>1. PICK e1 \in PEB, e2 \in PEB :
              /\ tree[e2] = "free"
              /\ tree' = [tree EXCEPT ![e1] = "move", ![e2] = "move"]
              /\ wk' = [IdleWk EXCEPT !.pc = "mread", !.e1 = e1, !.e2 = e2,
                                      !.scrub = (In("scrub") # {})]
        BY ZenonT(30), <2>2 DEF WkMove, In
      <3>2. wk'.pc = "mread" /\ wk'.e2 = e2
        BY Zenon, <3>1 DEF IdleWk
      <3>. QED  BY ZenonT(30), <3>1, <3>2 DEF TypeInv, TypeOK
    <2>. QED  BY Zenon, <2>1, <2>2
  <1>4. Numbered'
    BY <1>1, <1>2, <1>3, KeepNumbered DEF SqInv, Pending, Waits
  <1>5. EcKept'
    BY Zenon, <1>1, <1>3 DEF SqInv, EcKept, Waits
  <1>6. Nested'
    BY Zenon, <1>1 DEF SqInv, Nested
  <1>. QED  BY Zenon, <1>4, <1>5, <1>6 DEF SqInv

\* The end of a move, whichever way it ends, frees nothing.
LEMMA MoveEndSq ==
  ASSUME TypeInv, wk.pc \in {"mread", "mvid", "mdata"}, NotMoved \/ MoveCancelled \/ MoveError \/ MoveDone
  PROVE  /\ \A p \in PEB : tree'[p] = "free" => tree[p] = "free"
         /\ wk'.pc = "idle" \/ (wk'.pc = "erase" /\ tree'[wk'.e1] # "free")
  <1>1. wk.e1 \in PEB /\ wk.e2 \in PEB
    BY Zenon DEF TypeInv, Wf
  <1>2. \A p \in PEB : tree'[p] = "free" => tree[p] = "free"
    BY <1>1 DEF NotMoved, MoveCancelled, MoveError, MoveDone, TypeInv, TypeOK
  <1>3. CASE NotMoved
    <2>1. wk'.pc = "erase" /\ wk'.e1 = wk.e2
      BY Zenon, <1>3 DEF NotMoved, IdleWk
    <2>. QED  BY Zenon, <1>1, <1>2, <1>3, <2>1 DEF NotMoved, TypeInv, TypeOK
  <1>4. CASE MoveDone
    <2>1. wk'.pc = "erase" /\ wk'.e1 = wk.e1
      BY Zenon, <1>4 DEF MoveDone, IdleWk
    <2>. QED  BY Zenon, <1>1, <1>2, <1>4, <2>1 DEF MoveDone, TypeInv, TypeOK
  <1>5. CASE MoveCancelled \/ MoveError
    BY <1>2, <1>5 DEF MoveCancelled, MoveError, IdleWk
  <1>. QED  BY Zenon, <1>3, <1>4, <1>5

\* A step of a move that keeps the numbers and ends it or goes on.
LEMMA MoveKeep ==
  ASSUME TypeInv, TypeInv', SqInv, wk.pc \in {"mread", "mvid", "mdata"},
         UNCHANGED <<up, op>>, AllKeep, global_sqnum' >= global_sqnum,
         \A p \in PEB : flash[p].ec # "none" => flash'[p].ec # "none",
         \A p \in PEB : tree'[p] = "free" => tree[p] = "free",
         \/ wk'.pc \in {"idle", "mdata"}
         \/ wk'.pc = "erase" /\ tree'[wk'.e1] # "free"
         \/ /\ wk.pc = "mread" /\ wk'.pc = "mvid" /\ wk'.e2 = wk.e2
            /\ wk'.sqnum = global_sqnum /\ global_sqnum' = global_sqnum + 1
  PROVE  SqInv'
  <1>1. up # "off" /\ op.pc \in Waits /\ (wk.pc = "mread" => wk.e2 \in PEB)
    BY Zenon DEF SqInv, Nested, TypeInv, Wf
  <1>2. Numbered'
    BY Zenon, <1>1, KeepNumbered DEF SqInv, Pending, Waits
  <1>3. EcKept'
    BY Zenon, <1>1 DEF SqInv, EcKept, AllKeep, Keeps, Waits
  <1>4. Nested'
    BY Zenon, <1>1 DEF SqInv, Nested
  <1>. QED  BY Zenon, <1>2, <1>3, <1>4 DEF SqInv

\* ubi_eba_copy_leb() taking its number keeps the invariant.
LEMMA WkReadSq ==
  ASSUME TypeInv, TypeInv', SqInv, WkRead
  PROVE  SqInv'
  <1>1. wk.pc = "mread" /\ UNCHANGED <<flash, up, op>> /\ wk \in WkState /\ global_sqnum \in Nat
    BY Zenon DEF WkRead, TypeInv, TypeOK
  <1>2. AllKeep /\ \A p \in PEB : flash[p].ec # "none" => flash'[p].ec # "none"
    BY Zenon, <1>1, SameKeeps
  <1>3. CASE (NotMoved \/ MoveError) /\ UNCHANGED global_sqnum
    BY <1>1, <1>2, <1>3, MoveEndSq, MoveKeep
  <1>4. CASE /\ wk' = [wk EXCEPT !.pc = "mvid", !.sqnum = global_sqnum]
             /\ global_sqnum' = global_sqnum + 1
             /\ UNCHANGED tree
    <2>1. wk'.pc = "mvid" /\ wk'.e2 = wk.e2 /\ wk'.sqnum = global_sqnum
      BY Zenon, <1>1, <1>4 DEF WkState
    <2>. QED  BY <1>1, <1>2, <1>4, <2>1, MoveKeep
  <1>. QED  BY Zenon, <1>3, <1>4 DEF WkRead

\* ubi_eba_copy_leb() writing the VID header keeps the invariant.
LEMMA WkVidSq ==
  ASSUME TypeInv, TypeInv', SqInv, WkVid
  PROVE  SqInv'
  <1>1. /\ wk.pc = "mvid" /\ UNCHANGED <<up, op, global_sqnum>> /\ wk \in WkState
        /\ global_sqnum \in Nat /\ wk.e2 \in PEB /\ up # "off" /\ op.pc \in Waits
    BY Zenon DEF WkVid, TypeInv, TypeOK, Wf, SqInv, Nested
  <1>2. /\ flash[wk.e2] \in PebState /\ flash[wk.e2].ec # "none" /\ wk.sqnum \in Nat
        /\ Fresh(wk.sqnum)
    BY ZenonT(30), <1>1 DEF TypeInv, TypeOK, WkState, SqInv, EcKept, Numbered
  <1>. DEFINE r == flash[wk.e1]
              some == r.data # << >>
              good == WithVid(flash[wk.e2], r.lnum, wk.sqnum, some \/ r.copy_flag,
                              IF some THEN r.data ELSE r.data_crc)
  <1>3. good.sqnum = wk.sqnum /\ good.ec # "none"
    BY <1>2, WithVidNumbers
  <1>4. /\ \/ UNCHANGED flash
           \/ flash' = [flash EXCEPT ![wk.e2] = good]
           \/ \E s \in TornVid(flash[wk.e2]) : flash' = [flash EXCEPT ![wk.e2] = s]
        /\ \/ wk' = [wk EXCEPT !.pc = "mdata"] /\ UNCHANGED tree
           \/ NotMoved \/ MoveCancelled \/ MoveError \/ MoveDone
    BY Zenon DEF WkVid, CopyError
  <1>. HIDE DEF good
  <1>5. /\ \A p \in PEB : tree'[p] = "free" => tree[p] = "free"
        /\ wk'.pc \in {"idle", "mdata"} \/ (wk'.pc = "erase" /\ tree'[wk'.e1] # "free")
    <2>1. CASE wk' = [wk EXCEPT !.pc = "mdata"] /\ UNCHANGED tree
      BY Zenon, <1>1, <2>1 DEF WkState
    <2>2. CASE NotMoved \/ MoveCancelled \/ MoveError \/ MoveDone
      BY Zenon, <1>1, <2>2, MoveEndSq
    <2>. QED  BY Zenon, <1>4, <2>1, <2>2
  <1>6. CASE flash' = [flash EXCEPT ![wk.e2] = good]
    <2>1. /\ flash'[wk.e2].sqnum = wk.sqnum /\ flash'[wk.e2].ec # "none"
          /\ \A p \in PEB \ {wk.e2} : flash'[p] = flash[p]
      BY Zenon, <1>1, <1>3, <1>6 DEF TypeInv, TypeOK
    <2>2. Numbered'
      BY Zenon, <1>1, <1>2, <1>5, <2>1, NewNumbered DEF SqInv, Pending, Waits
    <2>3. EcKept'
      BY Zenon, <1>1, <1>2, <1>5, <2>1 DEF SqInv, EcKept, Waits
    <2>4. Nested'
      BY Zenon, <1>1 DEF SqInv, Nested
    <2>. QED  BY Zenon, <2>2, <2>3, <2>4 DEF SqInv
  <1>7. CASE flash' # [flash EXCEPT ![wk.e2] = good]
    <2>1. AllKeep /\ \A p \in PEB : flash[p].ec # "none" => flash'[p].ec # "none"
      <3>1. CASE UNCHANGED flash
        BY Zenon, <3>1, SameKeeps
      <3>2. CASE \E s \in TornVid(flash[wk.e2]) : flash' = [flash EXCEPT ![wk.e2] = s]
        <4>1. PICK s \in TornVid(flash[wk.e2]) : flash' = [flash EXCEPT ![wk.e2] = s]
          BY Zenon, <3>2
        <4>2. Keeps(flash[wk.e2], s) /\ s.ec = flash[wk.e2].ec
          BY Zenon, <1>2, TornVidKeeps
        <4>. QED  BY Zenon, <1>1, <4>1, <4>2, OneKeeps
      <3>. QED  BY Zenon, <1>4, <1>7, <3>1, <3>2
    <2>. QED  BY <1>1, <1>5, <2>1, MoveKeep
  <1>. QED  BY Zenon, <1>6, <1>7

\* ubi_eba_copy_leb() writing the data keeps the invariant.
LEMMA WkDataSq ==
  ASSUME TypeInv, TypeInv', SqInv, WkData
  PROVE  SqInv'
  <1>1. /\ wk.pc = "mdata" /\ UNCHANGED <<up, op, global_sqnum>>
        /\ global_sqnum \in Nat /\ wk.e2 \in PEB
    BY Zenon DEF WkData, TypeInv, TypeOK, Wf
  <1>2. /\ flash[wk.e2] \in PebState
        /\ flash[wk.e2].vid = "ok" => flash[wk.e2].ec # "none"
    BY Zenon, <1>1 DEF TypeInv, TypeOK, SqInv, EcKept
  <1>3. AllKeep /\ \A p \in PEB : flash[p].ec # "none" => flash'[p].ec # "none"
    <2>1. CASE UNCHANGED flash
      BY Zenon, <2>1, SameKeeps
    <2>2. CASE \E d : flash' = [flash EXCEPT ![wk.e2] = WithData(@, d)]
      <3>1. PICK d : flash' = [flash EXCEPT ![wk.e2] = WithData(flash[wk.e2], d)]
        BY Zenon, <2>2
      <3>2. Keeps(flash[wk.e2], WithData(flash[wk.e2], d))
            /\ WithData(flash[wk.e2], d).ec = flash[wk.e2].ec
        BY Zenon, <1>2, WithDataKeeps
      <3>. QED  BY Zenon, <1>1, <3>1, <3>2, OneKeeps
    <2>3. CASE \E s \in TornData(flash[wk.e2], flash[wk.e1].data) : flash' = [flash EXCEPT ![wk.e2] = s]
      <3>1. PICK s \in TornData(flash[wk.e2], flash[wk.e1].data) : flash' = [flash EXCEPT ![wk.e2] = s]
        BY Zenon, <2>3
      <3>2. Keeps(flash[wk.e2], s) /\ s.ec = flash[wk.e2].ec
        BY <1>2, TornDataKeeps
      <3>. QED  BY Zenon, <1>1, <3>1, <3>2, OneKeeps
    <2>. QED  BY Zenon, <2>1, <2>2, <2>3 DEF WkData, CopyError
  <1>4. NotMoved \/ MoveError \/ MoveDone
    BY Zenon DEF WkData, CopyError
  <1>. QED  BY <1>1, <1>3, <1>4, MoveEndSq, MoveKeep

-----------------------------------------------------------------------------
(* Sequence numbers: power cuts and attaching. *)

\* A power cut adds no VID header.
LEMMA InterruptedKeeps ==
  ASSUME TypeInv, SqInv, flash' \in Interrupted
  PROVE  AllKeep
  <1>1. \A p \in PEB : /\ flash[p] \in PebState
                       /\ flash[p].vid = "ok" => flash[p].ec # "none"
    BY Zenon DEF TypeInv, TypeOK, SqInv, EcKept
  <1>2. ASSUME NEW x \in PEB, NEW s, Keeps(flash[x], s), flash' = [flash EXCEPT ![x] = s]
        PROVE  AllKeep
    BY Zenon, <1>2, OneKeeps
  <1>3. CASE wk.pc = "erase"
    <2>1. wk.e1 \in PEB /\ \E s \in TornErase(flash[wk.e1]) : flash' = [flash EXCEPT ![wk.e1] = s]
      BY Zenon, <1>3 DEF Interrupted, TypeInv, Wf
    <2>. QED  BY Zenon, <1>1, <1>2, <2>1, TornEraseKeeps
  <1>4. CASE wk.pc = "ec"
    <2>1. wk.e1 \in PEB /\ \E s \in TornEc(flash[wk.e1]) : flash' = [flash EXCEPT ![wk.e1] = s]
      BY Zenon, <1>4 DEF Interrupted, TypeInv, Wf
    <2>. QED  BY Zenon, <1>1, <1>2, <2>1, TornEcKeeps
  <1>5. CASE wk.pc = "mvid"
    <2>1. wk.e2 \in PEB /\ \E s \in TornVid(flash[wk.e2]) : flash' = [flash EXCEPT ![wk.e2] = s]
      BY Zenon, <1>5 DEF Interrupted, TypeInv, Wf
    <2>. QED  BY Zenon, <1>1, <1>2, <2>1, TornVidKeeps
  <1>6. CASE wk.pc = "mdata"
    <2>1. /\ wk.e2 \in PEB
          /\ \E s \in TornData(flash[wk.e2], flash[wk.e1].data) : flash' = [flash EXCEPT ![wk.e2] = s]
      BY Zenon, <1>6 DEF Interrupted, TypeInv, Wf
    <2>2. PICK s \in TornData(flash[wk.e2], flash[wk.e1].data) : flash' = [flash EXCEPT ![wk.e2] = s]
      BY Zenon, <2>1
    <2>3. Keeps(flash[wk.e2], s)
      BY Zenon, <1>1, <2>1, TornDataKeeps
    <2>. QED  BY Zenon, <1>2, <2>1, <2>2, <2>3
  <1>7. CASE wk.pc = "idle" /\ op.pc \in {"vid", "rvid"}
    <2>1. op.pnum \in PEB /\ \E s \in TornVid(flash[op.pnum]) : flash' = [flash EXCEPT ![op.pnum] = s]
      BY Zenon, <1>7 DEF Interrupted, TypeInv, Wf
    <2>. QED  BY Zenon, <1>1, <1>2, <2>1, TornVidKeeps
  <1>8. CASE wk.pc = "idle" /\ op.pc \in {"data", "rdata"}
    <2>1. /\ op.pnum \in PEB
          /\ \E d : \E s \in TornData(flash[op.pnum], d) : flash' = [flash EXCEPT ![op.pnum] = s]
      BY Zenon, <1>8 DEF Interrupted, TypeInv, Wf
    <2>. QED  BY Zenon, <1>1, <1>2, <2>1, TornDataKeeps
  <1>9. CASE wk.pc = "idle" /\ op.pc = "append"
    <2>1. /\ op.from \in PEB
          /\ \E s \in TornData(flash[op.from], op.buf) : flash' = [flash EXCEPT ![op.from] = s]
      BY Zenon, <1>9 DEF Interrupted, TypeInv, Wf
    <2>. QED  BY Zenon, <1>1, <1>2, <2>1, TornDataKeeps
  <1>10. CASE /\ wk.pc \notin {"erase", "ec", "mvid", "mdata"}
              /\ ~(wk.pc = "idle" /\ op.pc \in {"vid", "rvid", "data", "rdata", "append"})
    <2>1. UNCHANGED flash
      BY Zenon, <1>10 DEF Interrupted
    <2>. QED  BY Zenon, <2>1, SameKeeps
  <1>. QED  BY Zenon, <1>3, <1>4, <1>5, <1>6, <1>7, <1>8, <1>9, <1>10

\* A power cut keeps the numbers on the flash unique.
LEMMA PowerCutSq ==
  ASSUME TypeInv, SqInv, PowerCut
  PROVE  SqInv'
  <1>1. AllKeep
    BY Zenon, InterruptedKeeps DEF PowerCut
  <1>2. up' = "off" /\ op'.pc = "idle" /\ wk'.pc = "idle" /\ \A p \in PEB : tree'[p] = "gone"
    BY Zenon DEF PowerCut, IdleOp, IdleWk
  <1>3. \A p, q \in PEB : p # q /\ Live(flash'[p]) /\ Live(flash'[q])
                            => flash'[p].sqnum # flash'[q].sqnum
    BY Zenon, <1>1 DEF SqInv, Numbered, AllKeep, Keeps
  <1>4. Numbered'
    BY Zenon, <1>2, <1>3 DEF Numbered, Live
  <1>5. EcKept'
    BY Zenon, <1>1, <1>2 DEF EcKept, AllKeep, Keeps
  <1>6. Nested'
    BY Zenon, <1>2 DEF Nested
  <1>. QED  BY Zenon, <1>4, <1>5, <1>6 DEF SqInv

\* ubi_eba_init_scan() starts beyond every number the scan has seen.
LEMMA AttachSq ==
  ASSUME TypeInv, SqInv, Attach
  PROVE  SqInv'
  <1>1. up = "off" /\ up' = "init" /\ op.pc = "idle" /\ wk.pc = "idle" /\ UNCHANGED <<flash, op, wk>>
    BY Zenon DEF Attach, SqInv, Nested
  <1>2. \A p \in PEB : Live(flash[p]) => flash[p].sqnum < global_sqnum'
    <2>1. PICK m \in {0} \cup {flash[p].sqnum : p \in Seen} :
            IsMaxSqnum(m) /\ global_sqnum' = AfterScan(m)
      BY Zenon DEF Attach
    <2>2. m \in Nat /\ \A p \in PEB : flash[p].sqnum \in Nat
      BY DEF Seen, TypeInv, TypeOK, PebState
    <2>3. SUFFICES ASSUME NEW p \in PEB, Live(flash[p])
                   PROVE  flash[p].sqnum < global_sqnum'
      BY Zenon
    <2>4. flash[p].sqnum <= m
      BY Zenon, <2>1, <2>3, LiveIsSeen DEF IsMaxSqnum
    <2>. QED  BY <2>1, <2>2, <2>4 DEF AfterScan
  <1>3. \A p \in PEB : tree'[p] = "free" => ScanClass(flash[p]) = "free"
    <2>1. \E winner \in [LEB -> PEB \cup {None}] : \E flip \in PEB \cup {None} :
            tree' = [p \in PEB |->
              LET c == ScanClass(flash[p])
              IN  IF c \in {"bad", "free"} THEN c
                  ELSE IF c = "used" /\ winner[flash[p].lnum] = p
                    THEN IF flash[p].ec = "bad" \/ flip = p THEN "scrub" ELSE "used"
                    ELSE "todo"]
      BY DEF Attach
    <2>. QED  BY Zenon, <2>1
  <1>4. \A p \in PEB : tree'[p] = "free" => flash[p].ec # "none"
    BY Zenon, <1>3, FreeHasEc DEF TypeInv, TypeOK
  <1>5. Numbered'
    BY Zenon, <1>1, <1>2 DEF SqInv, Numbered, Live
  <1>6. EcKept'
    BY Zenon, <1>1, <1>4 DEF SqInv, EcKept
  <1>7. Nested'
    BY Zenon, <1>1 DEF Nested
  <1>. QED  BY Zenon, <1>5, <1>6, <1>7 DEF SqInv

\* The steps of ubi_wl_init_scan() keep the invariant.
LEMMA InitStepSq ==
  ASSUME TypeInv, TypeInv', SqInv, (\E p \in PEB : InitErase(p)) \/ InitDone
  PROVE  SqInv'
  <1>1. /\ up = "init" /\ op.pc = "idle" /\ wk.pc = "idle" /\ global_sqnum \in Nat
        /\ up' \in {"init", "on"} /\ UNCHANGED <<flash, op, global_sqnum>>
    BY Zenon DEF InitErase, InitDone, SqInv, Nested, TypeInv, TypeOK
  <1>2. WkCalled /\ wk'.pc \in {"ensure", "erase"}
    <2>1. ASSUME NEW p \in PEB, InitErase(p)
          PROVE  WkCalled /\ wk'.pc = "erase"
      <3>1. wk'.pc = "erase" /\ wk'.e1 = p /\ tree' = [tree EXCEPT ![p] = "erase"]
        BY Zenon, <2>1 DEF InitErase, IdleWk
      <3>. QED  BY Zenon, <1>1, <3>1 DEF WkCalled, Waits, TypeInv, TypeOK
    <2>2. ASSUME InitDone
          PROVE  WkCalled /\ wk'.pc = "ensure"
      BY Zenon, <1>1, <2>2 DEF InitDone, IdleWk, WkCalled, Waits
    <2>. QED  BY Zenon, <2>1, <2>2
  <1>3. AllKeep
    BY Zenon, <1>1, SameKeeps
  <1>4. Numbered'
    BY <1>1, <1>2, <1>3, KeepNumbered DEF SqInv, Pending
  <1>5. EcKept'
    BY Zenon, <1>1, <1>2 DEF SqInv, EcKept, WkCalled
  <1>6. Nested'
    BY Zenon, <1>1, <1>2 DEF Nested, WkCalled, Waits
  <1>. QED  BY Zenon, <1>4, <1>5, <1>6 DEF SqInv

-----------------------------------------------------------------------------
(* Sequence numbers: the invariant. *)

\* The formatted flash carries no number.
LEMMA InitSq == Init => SqInv
  <1>. SUFFICES ASSUME Init PROVE SqInv
    BY Zenon
  <1>1. \A p \in PEB : flash[p].vid = "none" /\ tree[p] = "gone"
    BY Zenon DEF Init, Formatted, Blank
  <1>2. up = "off" /\ op.pc = "idle" /\ wk.pc = "idle"
    BY Zenon DEF Init, IdleOp, IdleWk
  <1>. QED  BY ZenonT(30), <1>1, <1>2 DEF SqInv, EcKept, Nested, Numbered, Live

\* Every step of the specification keeps the invariant.
LEMMA NextSq == TypeInv /\ TypeInv' /\ SqInv /\ [Next]_vars => SqInv'
  <1>. SUFFICES ASSUME TypeInv, TypeInv', SqInv, [Next]_vars PROVE SqInv'
    BY Zenon
  <1>1. CASE OpStep
    BY Zenon, <1>1, PlainSq, OpVidSq, OpDataSq, OpAppendSq, OpRecoverVidSq, OpRecoverDataSq DEF OpStep
  <1>2. CASE WkStep
    BY Zenon, <1>2, EraseSq, MoveSq, WkReadSq, WkVidSq, WkDataSq DEF WkStep
  <1>3. CASE AttachStep
    BY Zenon, <1>3, AttachSq, InitStepSq DEF AttachStep
  <1>4. CASE UNCHANGED vars
    <2>1. UNCHANGED <<flash, up, tree, global_sqnum, op, wk>>
      BY Zenon, <1>4 DEF vars
    <2>2. EcKept' /\ Nested'
      BY Zenon, <2>1 DEF SqInv, EcKept, Nested
    <2>3. Numbered'
      BY Zenon, <2>1 DEF SqInv, Numbered, Fresh, Live
    <2>. QED  BY Zenon, <2>2, <2>3 DEF SqInv
  <1>. QED  BY Zenon, <1>1, <1>2, <1>3, <1>4, CallSq, PowerCutSq DEF Next
=============================================================================
