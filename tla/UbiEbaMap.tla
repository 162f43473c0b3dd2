------------------------------ MODULE UbiEbaMap ------------------------------
(***************************************************************************)
(* The EBA table, the WL trees and the flash agree: mapped PEBs carry the  *)
(* header of their LEB, free PEBs are erased, no PEB is lost and no LEB is *)
(* on more than two of them, for every number of PEBs and LEBs and every   *)
(* bound.                                                                  *)
(***************************************************************************)
EXTENDS UbiEbaInv, TLAPS

-----------------------------------------------------------------------------
(* What a flash operation does to one PEB. *)

\* A PEB in state r has become s, with no VID header it did not have.
Ages(r, s) ==
  /\ Tidy(s)
  /\ s.vid = "ok" => r.vid = "ok" /\ s.lnum = r.lnum
  /\ Live(s) => Live(r)

\* An unfinished VID header adds none.
LEMMA TornVidAges ==
  ASSUME NEW r \in PebState, Tidy(r), NEW s \in TornVid(r)
  PROVE  Ages(r, s) /\ s.bad = r.bad
  BY Zenon DEF TornVid, Ages, Tidy, Live, PebState

\* Data behind a VID header leaves the header alone.
LEMMA WithDataAges ==
  ASSUME NEW r \in PebState, Tidy(r), r.vid = "ok", NEW d
  PROVE  Ages(r, WithData(r, d)) /\ WithData(r, d).vid = "ok" /\ WithData(r, d).lnum = r.lnum
         /\ WithData(r, d).bad = r.bad
  BY Zenon DEF WithData, Ages, Tidy, Live, PebState

\* So does unfinished data.
LEMMA TornDataAges ==
  ASSUME NEW r \in PebState, Tidy(r), r.vid = "ok", NEW d, NEW s \in TornData(r, d)
  PROVE  Ages(r, s) /\ s.vid = "ok" /\ s.lnum = r.lnum /\ s.bad = r.bad
  <1>1. CASE s = r
    BY Zenon, <1>1 DEF Ages, Tidy
  <1>2. CASE \E x \in Cut(d) \cup {d} : s = WithData(r, x)
    <2>1. PICK x \in Cut(d) \cup {d} : s = WithData(r, x)
      BY Zenon, <1>2
    <2>. QED  BY Zenon, <2>1, WithDataAges
  <1>. QED  BY Zenon, <1>1, <1>2 DEF TornData

\* No data is still no data after an unfinished erasure.
LEMMA GarbledEmpty ==
  ASSUME NEW d \in Garbled(<< >>)
  PROVE  d = << >>
  <1>1. PICK j \in Torn : d = [i \in DOMAIN << >> |-> j]
    BY Zenon DEF Garbled
  <1>2. DOMAIN << >> = {}
    OBVIOUS
  <1>3. d \in Seq(Torn) /\ Len(d) = 0
    BY <1>1
  <1>. QED  BY <1>3

\* An unfinished erasure adds no VID header.
LEMMA TornEraseAges ==
  ASSUME NEW r \in PebState, Tidy(r), r.vid = "ok" => r.ec # "none", NEW s \in TornErase(r)
  PROVE  Ages(r, s)
  <1>1. CASE s \in {r, Blank, [Blank EXCEPT !.ec = "bad", !.vid = "bad"]}
    <2>1. Tidy(Blank) /\ Blank.vid = "none" /\ [Blank EXCEPT !.ec = "bad", !.vid = "bad"].vid = "bad"
      BY Zenon DEF Blank, Tidy
    <2>. QED  BY Zenon, <1>1, <2>1 DEF Ages, Live, Tidy
  <1>2. CASE \E d \in Garbled(r.data) : s = [r EXCEPT !.data = d]
    <2>1. PICK d \in Garbled(r.data) : s = [r EXCEPT !.data = d]
      BY Zenon, <1>2
    <2>2. r.vid = "none" => d = << >>
      BY Zenon, GarbledEmpty DEF Tidy
    <2>. QED  BY Zenon, <2>1, <2>2 DEF Ages, Live, Tidy, PebState
  <1>3. CASE \E d \in Garbled(r.data) : s = [r EXCEPT !.ec = "bad", !.data = d]
    <2>1. PICK d \in Garbled(r.data) : s = [r EXCEPT !.ec = "bad", !.data = d]
      BY Zenon, <1>3
    <2>2. r.vid = "none" => d = << >>
      BY Zenon, GarbledEmpty DEF Tidy
    <2>3. /\ s.bad = r.bad /\ s.ec = "bad" /\ s.vid = r.vid /\ s.lnum = r.lnum /\ s.sqnum = r.sqnum
          /\ s.copy_flag = r.copy_flag /\ s.data_crc = r.data_crc /\ s.data = d
      BY Zenon, <2>1 DEF PebState
    <2>. QED  BY Zenon, <2>2, <2>3 DEF Ages, Live, Tidy, PebState
  <1>. QED  BY Zenon, <1>1, <1>2, <1>3 DEF TornErase

\* Nor does an erasure, nor an EC header or a bad-block mark on any PEB.
LEMMA MarkAges ==
  ASSUME NEW r \in PebState, Tidy(r), r.vid = "ok" => r.ec # "none",
         NEW s \in TornEc(r) \cup {[r EXCEPT !.ec = "ok"], [r EXCEPT !.bad = TRUE], Blank}
  PROVE  Ages(r, s)
  BY DEF TornEc, Ages, Live, Tidy, PebState, Blank

\* A new VID header names its LEB.
LEMMA WithVidCarries ==
  ASSUME NEW r \in PebState, NEW l \in LEB, NEW n, NEW c, NEW crc
  PROVE  /\ Tidy(WithVid(r, l, n, c, crc))
         /\ WithVid(r, l, n, c, crc).vid = "ok" /\ WithVid(r, l, n, c, crc).lnum = l
         /\ WithVid(r, l, n, c, crc).bad = r.bad /\ WithVid(r, l, n, c, crc).ec = r.ec
  BY Zenon DEF WithVid, Tidy, PebState

\* An erased PEB has no VID header.
LEMMA BlankBare ==
  /\ Formatted.vid = "none" /\ Formatted.ec = "ok" /\ ~Formatted.bad /\ Formatted.data = << >>
  /\ Blank.vid = "none" /\ Blank.data = << >> /\ Tidy(Formatted) /\ Tidy(Blank)
  /\ [Blank EXCEPT !.ec = "ok"] = Formatted
  BY Zenon DEF Formatted, Blank, Tidy

\* A PEB that has aged tells no more than it did.
LEMMA OneAges ==
  ASSUME TypeInv, NEW x \in PEB, NEW s, flash' = [flash EXCEPT ![x] = s]
  PROVE  flash'[x] = s /\ \A p \in PEB : p # x => flash'[p] = flash[p]
  BY Zenon DEF TypeInv, TypeOK

\* No three copies come of PEBs that only age.
LEMMA AgesNoThird ==
  ASSUME TypeInv, TypeInv', NoThird, \A p \in PEB : Ages(flash[p], flash'[p])
  PROVE  NoThird'
  <1>1. \A p \in PEB : Live(flash'[p]) => Live(flash[p]) /\ flash'[p].lnum = flash[p].lnum
    BY Zenon DEF Ages, Live
  <1>. QED  BY <1>1 DEF NoThird, Live

-----------------------------------------------------------------------------
(* The steps of the EBA calls. *)

\* A step of a call that only goes on, or ends it, keeps the invariant.
LEMMA QuietMap ==
  ASSUME TypeInv, TypeInv', SqInv, MapInv, UNCHANGED <<flash, tree, eba_tbl, up>>,
         wk.pc = "idle", wk'.pc \in {"idle", "ensure"}, op.pc # "remap", 
         ro_mode' \/ (~HasNew /\ op.pc \notin {"vid", "rvid"} /\ ~ro_mode),
         op'.pc \in {"idle", "get", "append"},
         op'.pc = "append" => ~ro_mode' /\ eba_tbl[op'.lnum] = op'.from,
         op'.pc = "get" => op'.kind = "change" \/ eba_tbl[op'.lnum] = None
  PROVE  MapInv'
  <1>1. Erased' 
    BY Zenon DEF MapInv, Erased
  <1>2. Entries'
    BY Zenon DEF MapInv, Entries
  <1>3. Mapped'
    BY Zenon DEF MapInv, Mapped, HasNew, Maps, Carries
  <1>4. Targets'
    BY Zenon DEF Targets
  <1>5. NoneLost'
    BY DEF MapInv, NoneLost, Found, Busy, Maps, HasNew
  <1>6. NoThird'
    BY DEF MapInv, NoThird, Live
  <1>. QED  BY Zenon, <1>1, <1>2, <1>3, <1>4, <1>5, <1>6 DEF MapInv

\* What ubi_wl_put_peb() does to p.
LEMMA PutDoes ==
  ASSUME TypeInv, wk.pc = "idle", NEW p \in PEB, NEW next, NEW failed, PutPeb(p, next, failed)
  PROVE  \/ /\ tree[p] \in {"used", "scrub", "prot"} /\ tree' = [tree EXCEPT ![p] = "erase"]
            /\ wk'.pc = "erase" /\ wk'.e1 = p /\ op' = next /\ ro_mode' = ro_mode
         \/ tree' = tree /\ wk' = wk /\ op' = failed /\ ro_mode' = TRUE
  BY Zenon DEF PutPeb, IdleWk

\* A step that puts x and leaves no LEB mapped to it keeps the invariant, when
\* every other PEB is still accounted for.
LEMMA PutMap ==
  ASSUME TypeInv, TypeInv', SqInv, MapInv, up = "on", UNCHANGED up, wk.pc = "idle",
         NEW x \in PEB,
         \/ tree' = [tree EXCEPT ![x] = "erase"] /\ wk'.pc = "erase" /\ wk'.e1 = x
         \/ tree' = tree /\ wk' = wk /\ ro_mode' /\ op'.pc # "remap",
         op'.pc \in {"idle", "unmapped", "remap", "retry", "rdone", "rfail"},
         op'.pc = "rfail" => op'.pnum = None,
         op'.pc = "unmapped" \/ (op'.pc = "retry" /\ op'.kind # "change")
           => eba_tbl'[op'.lnum] = None,
         \A p \in PEB : Tidy(flash'[p]) /\ (flash[p].bad => flash'[p].bad),
         \A p \in PEB : tree[p] = "free" => flash'[p] = flash[p],
         NoThird',
         \A l \in LEB, p \in PEB : Maps(l, p)' => Carries(p, l)' /\ p # x /\ tree[p] \in Kept,
         op'.pc = "remap" => /\ eba_tbl'[op'.lnum] = x /\ op'.pnum # x
                             /\ Carries(op.pnum, op.lnum)' /\ tree[op'.pnum] \in Kept,
         ~ro_mode' => ~ro_mode /\ 
           \A p \in PEB : p # x /\ Found(p) =>
             \/ tree[p] \in {"free", "bad"}
             \/ \E l \in LEB : Maps(l, p)'
             \/ op'.pc = "remap" /\ op'.pnum = p
             \/ "novid" \in Faults /\ flash'[p].vid # "ok"
  PROVE  MapInv'
  <1>0. tree \in [PEB -> Trees] /\ tree' \in [PEB -> Trees]
    BY Zenon DEF TypeInv, TypeOK
  <1>1. \A p \in PEB : p # x => tree'[p] = tree[p]
    BY Zenon, <1>0
  <1>2. \/ wk'.pc = "erase" /\ wk'.e1 = x /\ tree'[x] = "erase"
        \/ wk'.pc = "idle" /\ tree' = tree
    <2>1. tree' = [tree EXCEPT ![x] = "erase"] => tree'[x] = "erase"
      BY Zenon, <1>0
    <2>2. wk' = wk => wk'.pc = "idle"
      BY Zenon
    <2>. QED  BY Zenon, <2>1, <2>2
  <1>3. Erased'
    BY <1>1, <1>2 DEF MapInv, Erased
  <1>4. Entries'
    <2>1. \A p \in PEB : tree'[p] = "bad" => flash'[p].bad
      BY Zenon, <1>1, <1>2 DEF MapInv, Entries
    <2>. QED  BY Zenon, <1>2, <2>1 DEF Entries
  <1>5. Mapped'
    <2>1. op'.pc = "remap" => op'.pnum \in PEB /\ op'.lnum \in LEB
      BY Zenon DEF TypeInv, Wf
    <2>2. \A l \in LEB, p \in PEB : Maps(l, p)' => Carries(p, l)' /\ tree'[p] \in Kept
      BY Zenon, <1>1
    <2>3. HasNew' => /\ Carries(op.pnum, op.lnum)' /\ eba_tbl'[op'.lnum] # op'.pnum
                     /\ tree'[op'.pnum] \in Kept
      BY Zenon, <1>1, <2>1 DEF HasNew
    <2>4. op'.pc = "remap" => \A p \in PEB : eba_tbl'[op'.lnum] = p /\ Carries(p, op.lnum)'
                                             => tree'[p] \in {"erase", "bad", "gone"}
      BY <1>2
    <2>5. wk'.pc \notin {"mvid", "mdata"}
      BY Zenon, <1>2
    <2>. QED  BY Zenon, <2>2, <2>3, <2>4, <2>5 DEF Mapped
  <1>6. Targets'
    BY Zenon DEF Targets
  <1>7. NoneLost'
    BY Zenon, <1>1, <1>2 DEF MapInv, NoneLost, Found, Busy, HasNew
  <1>. QED  BY Zenon, <1>3, <1>4, <1>5, <1>6, <1>7 DEF MapInv

\* No LEB but l is mapped to the PEB of l, in any state the invariant allows.
LEMMA MapsOne ==
  ASSUME MapInv, NEW l \in LEB, NEW k \in LEB, NEW p \in PEB, Maps(l, p), Maps(k, p)
  PROVE  k = l
  BY DEF MapInv, Mapped, Carries

\* ubi_eba_unmap_leb() keeps the invariant.
LEMMA UnmapMap ==
  ASSUME TypeInv, TypeInv', SqInv, MapInv, NEW l \in LEB, NEW kind \in {"unmap", "change0"},
         Unmap(l, kind)
  PROVE  MapInv'
  <1>. DEFINE x == eba_tbl[l]
              next == [IdleOp EXCEPT !.pc = "unmapped", !.kind = kind, !.lnum = l]
  <1>1. /\ up = "on" /\ op.pc = "idle" /\ wk.pc = "idle" /\ ~ro_mode /\ UNCHANGED <<up, flash>>
        /\ eba_tbl' = [eba_tbl EXCEPT ![l] = None] /\ x \in PEB
        /\ PutPeb(x, next, IdleOp)
    <2>1. x \in PEB
      BY Zenon DEF Unmap, TypeInv, TypeOK
    <2>. QED  BY Zenon, <2>1 DEF Unmap, Ready
  <1>2. next.pc = "unmapped" /\ IdleOp.pc = "idle" /\ eba_tbl'[next.lnum] = None
    BY Zenon, <1>1 DEF IdleOp, TypeInv, TypeOK
  <1>3. \A k \in LEB, p \in PEB : eba_tbl'[k] = p => k # l /\ eba_tbl[k] = p
    BY Zenon, <1>1, MediaAssumption DEF TypeInv, TypeOK
  <1>4. \A k \in LEB : k # l => eba_tbl'[k] = eba_tbl[k]
    BY Zenon, <1>1 DEF TypeInv, TypeOK
  <1>. HIDE DEF x, next
  <1>5. op'.pc = "idle" \/ (op'.pc = "unmapped" /\ eba_tbl'[op'.lnum] = None)
    BY Zenon, <1>1, <1>2, PutDoes
  <1>6. \/ tree' = [tree EXCEPT ![x] = "erase"] /\ wk'.pc = "erase" /\ wk'.e1 = x
        \/ tree' = tree /\ wk' = wk /\ ro_mode' /\ op'.pc # "remap"
    BY Zenon, <1>1, <1>5, PutDoes
  <1>7. Maps(l, x)
    BY Zenon, <1>1 DEF Maps, x
  <1>8. \A k \in LEB, p \in PEB : Maps(k, p)' => Carries(p, k)' /\ p # x /\ tree[p] \in Kept
    BY <1>1, <1>3, <1>7, MapsOne DEF Maps, MapInv, Mapped, Carries
  <1>9. \A p \in PEB : p # x /\ Found(p) =>
             \/ tree[p] \in {"free", "bad"}
             \/ \E k \in LEB : Maps(k, p)'
             \/ "novid" \in Faults /\ flash'[p].vid # "ok"
    BY <1>1, <1>4, <1>5 DEF Found, Busy, HasNew, Maps, x
  <1>10. NoThird' /\ \A p \in PEB : Tidy(flash'[p])
    BY <1>1 DEF MapInv, NoThird, Erased, Live
  <1>. QED  BY Zenon, <1>1, <1>5, <1>6, <1>8, <1>9, <1>10, PutMap

\* ubi_wl_scrub_peb() keeps the invariant.
LEMMA ReadScrubMap ==
  ASSUME TypeInv, TypeInv', SqInv, MapInv, NEW l \in LEB, ReadScrub(l)
  PROVE  MapInv'
  <1>1. /\ up = "on" /\ op.pc = "idle" /\ wk.pc = "idle" /\ UNCHANGED <<up, flash, eba_tbl, op>>
        /\ wk'.pc \in {"idle", "ensure"} /\ (ro_mode => ro_mode')
    BY Zenon DEF ReadScrub, Ready, IdleWk
  <1>2. /\ \A p \in PEB : tree'[p] = tree[p] \/ (tree'[p] = "scrub" /\ tree[p] \in {"used", "prot"})
        /\ ro_mode \in BOOLEAN /\ ro_mode' \in BOOLEAN
    BY Zenon DEF ReadScrub, TypeInv, TypeOK
  <1>3. Erased'
    BY Zenon, <1>1, <1>2 DEF MapInv, Erased
  <1>4. Entries'
    BY Zenon, <1>1, <1>2 DEF MapInv, Entries
  <1>5. Mapped'
    BY <1>1, <1>2 DEF MapInv, Mapped, HasNew, Maps, Carries, Kept
  <1>6. Targets'
    BY Zenon, <1>1 DEF Targets
  <1>7. NoneLost'
    BY <1>1, <1>2 DEF MapInv, NoneLost, Found, Busy, Maps, HasNew
  <1>8. NoThird'
    BY <1>1 DEF MapInv, NoThird, Live
  <1>. QED  BY Zenon, <1>3, <1>4, <1>5, <1>6, <1>7, <1>8 DEF MapInv

\* The start of every EBA call keeps the invariant.
LEMMA CallMap ==
  ASSUME TypeInv, TypeInv', SqInv, MapInv, Call
  PROVE  MapInv'
  <1>1. ASSUME NEW l \in LEB, NEW d, Write(l, d) \/ Change(l, d)
        PROVE  MapInv'
    <2>1. /\ op.pc = "idle" /\ wk.pc = "idle" /\ ~ro_mode
          /\ UNCHANGED <<flash, tree, eba_tbl, up, wk>> /\ op'.pc = "get"
          /\ op'.kind = "change" \/ eba_tbl[op'.lnum] = None
      BY ZenonT(30), <1>1 DEF Write, Change, Begin, Ready, IdleOp
    <2>. QED  BY Zenon, <2>1, QuietMap DEF HasNew
  <1>2. ASSUME NEW l \in LEB, NEW d, AppendTo(l, d)
        PROVE  MapInv'
    <2>1. /\ op.pc = "idle" /\ wk.pc = "idle" /\ ~ro_mode
          /\ UNCHANGED <<flash, tree, eba_tbl, up, wk, ro_mode>>
          /\ op'.pc = "append" /\ op'.lnum = l /\ op'.from = eba_tbl[l]
      BY Zenon, <1>2 DEF AppendTo, Ready, IdleOp
    <2>. QED  BY Zenon, <2>1, QuietMap DEF HasNew
  <1>. QED  BY Zenon, <1>1, <1>2, UnmapMap, ReadScrubMap DEF Call

\* Taking a free PEB for a write or for recover_peb() keeps the invariant.
LEMMA GetMap ==
  ASSUME TypeInv, TypeInv', SqInv, MapInv, wk.pc = "idle", UNCHANGED <<flash, eba_tbl, up, wk, ro_mode>>,
         NEW x \in PEB, tree[x] = "free", tree' = [tree EXCEPT ![x] = "prot"],
         \/ op.pc = "get" /\ op'.pc = "vid"
         \/ op.pc = "rget" /\ op'.pc = "rvid",
         op'.lnum = op.lnum, op'.from = op.from, op'.kind = op.kind, op'.pnum = x
  PROVE  MapInv'
  <1>1. tree'[x] = "prot" /\ \A p \in PEB : p # x => tree'[p] = tree[p]
    BY Zenon DEF TypeInv, TypeOK
  <1>2. flash[x] = Formatted
    BY Zenon DEF MapInv, Erased
  <1>3. \A l \in LEB : eba_tbl[l] # x
    BY <1>2 DEF MapInv, Mapped, Maps, Kept
  <1>4. Erased'
    BY <1>1, <1>2 DEF MapInv, Erased
  <1>5. Entries'
    BY Zenon, <1>1 DEF MapInv, Entries
  <1>6. Mapped'
    BY <1>1, <1>3 DEF MapInv, Mapped, HasNew, Maps, Carries
  <1>7. Targets'
    BY Zenon DEF MapInv, Targets
  <1>8. NoneLost'
    BY <1>1 DEF MapInv, NoneLost, Found, Busy, Maps, HasNew
  <1>9. NoThird'
    BY DEF MapInv, NoThird, Live
  <1>. QED  BY Zenon, <1>4, <1>5, <1>6, <1>7, <1>8, <1>9 DEF MapInv

\* Mapping the new PEB at the end of an atomic change keeps the invariant.
LEMMA OpRemapMap ==
  ASSUME TypeInv, TypeInv', SqInv, MapInv, OpRemap
  PROVE  MapInv'
  <1>1. /\ up = "on" /\ op.pc = "remap" /\ wk.pc = "idle" /\ op.lnum \in LEB /\ op.pnum \in PEB
        /\ eba_tbl' = [eba_tbl EXCEPT ![op.lnum] = op.pnum] /\ op'.pc = "idle"
        /\ UNCHANGED <<flash, up, tree, ro_mode, wk>>
    BY Zenon DEF OpRemap, Running, Succeed, IdleOp, TypeInv, Wf
  <1>2. eba_tbl'[op.lnum] = op.pnum /\ \A l \in LEB : l # op.lnum => eba_tbl'[l] = eba_tbl[l]
    BY Zenon, <1>1 DEF TypeInv, TypeOK
  <1>3. Carries(op.pnum, op.lnum) /\ tree[op.pnum] \in Kept
    BY Zenon, <1>1 DEF MapInv, Mapped, HasNew
  <1>4. Erased'
    BY Zenon, <1>1 DEF MapInv, Erased
  <1>5. Entries'
    BY Zenon, <1>1 DEF MapInv, Entries
  <1>6. Mapped'
    BY <1>1, <1>2, <1>3 DEF MapInv, Mapped, HasNew, Maps, Carries
  <1>7. Targets'
    BY Zenon, <1>1 DEF Targets
  <1>8. NoneLost'
    <2>1. ASSUME NEW p \in PEB, Found(p)
          PROVE  Found(p)'
      <3>1. CASE p = op.pnum
        BY Zenon, <1>1, <1>2, <3>1 DEF Found, Maps
      <3>2. CASE p # op.pnum
        <4>1. ASSUME NEW l \in LEB, Maps(l, p)
              PROVE  Maps(l, p)'
          BY Zenon, <1>1, <1>2, <4>1 DEF Maps
        <4>. QED  BY Zenon, <1>1, <2>1, <3>2, <4>1 DEF Found, Busy, HasNew
      <3>. QED  BY Zenon, <3>1, <3>2
    <2>. QED  BY Zenon, <1>1, <2>1 DEF MapInv, NoneLost
  <1>9. NoThird'
    BY <1>1 DEF MapInv, NoThird, Live
  <1>. QED  BY Zenon, <1>4, <1>5, <1>6, <1>7, <1>8, <1>9 DEF MapInv

\* Giving up recover_peb() keeps the invariant.
LEMMA OpRecoverFailMap ==
  ASSUME TypeInv, TypeInv', SqInv, MapInv, OpRecoverFail
  PROVE  MapInv'
  <1>1. /\ up = "on" /\ op.pc = "rfail" /\ wk.pc = "idle" /\ op.lnum \in LEB /\ op \in OpState
        /\ UNCHANGED <<flash, up, eba_tbl>> /\ IdleOp.pc = "idle"
    BY Zenon DEF OpRecoverFail, Running, TypeInv, TypeOK, Wf, IdleOp
  <1>2. CASE op.pnum = None
    BY Zenon, <1>1, <1>2, QuietMap DEF OpRecoverFail, FailRo
  <1>3. CASE op.pnum # None
    <2>. DEFINE next == [op EXCEPT !.pnum = None]
    <2>1. next.pc = "rfail" /\ next.pnum = None /\ op.pnum \in PEB
      BY Zenon, <1>1, <1>3 DEF OpState
    <2>2. PutPeb(op.pnum, next, next)
      BY Zenon, <1>3 DEF OpRecoverFail
    <2>. HIDE DEF next
    <2>3. /\ op' = next
          /\ \/ /\ tree' = [tree EXCEPT ![op.pnum] = "erase"] /\ wk'.pc = "erase"
                /\ wk'.e1 = op.pnum /\ ro_mode' = ro_mode
             \/ tree' = tree /\ wk' = wk /\ ro_mode'
      BY Zenon, <1>1, <2>1, <2>2, PutDoes
    <2>4. \A l \in LEB : eba_tbl[l] # op.pnum
      BY <1>1, <1>3, <2>1 DEF MapInv, Mapped, HasNew, Maps, Carries
    <2>5. \A l \in LEB, p \in PEB : Maps(l, p)' => Carries(p, l)' /\ p # op.pnum /\ tree[p] \in Kept
      BY <1>1, <2>4 DEF MapInv, Mapped, Maps, Carries
    <2>6. \A p \in PEB : p # op.pnum /\ Found(p) =>
             \/ tree[p] \in {"free", "bad"}
             \/ \E l \in LEB : Maps(l, p)'
             \/ "novid" \in Faults /\ flash'[p].vid # "ok"
      BY Zenon, <1>1, <2>1, <2>3 DEF Found, Busy, HasNew, Maps
    <2>7. NoThird' /\ \A p \in PEB : Tidy(flash'[p])
      BY <1>1 DEF MapInv, NoThird, Erased, Live
    <2>. QED  BY <1>1, <2>1, <2>3, <2>5, <2>6, <2>7, PutMap
  <1>. QED  BY Zenon, <1>2, <1>3

\* The steps that touch neither the flash nor the table keep the invariant.
LEMMA PlainMap ==
  ASSUME TypeInv, TypeInv', SqInv, MapInv,
         OpUnmapped \/ OpGet \/ OpRetry \/ OpRecoverGet \/ OpRecoverDone \/ OpRecoverRetry
  PROVE  MapInv'
  <1>1. /\ up = "on" /\ up' = "on" /\ wk.pc = "idle" /\ UNCHANGED <<flash, eba_tbl>>
        /\ op \in OpState /\ op.pc # "idle" /\ IdleOp.pc = "idle"
    BY Zenon DEF OpUnmapped, OpGet, OpRetry, OpRecoverGet, OpRecoverDone, OpRecoverRetry, Running,
           TypeInv, TypeOK, IdleOp
  <1>2. CASE OpUnmapped \/ OpRetry \/ OpRecoverDone
    <2>1. /\ op.pc \in {"unmapped", "retry", "rdone"} /\ op'.pc \in {"idle", "get"}
          /\ UNCHANGED <<tree, wk>> /\ (ro_mode => ro_mode')
          /\ op'.pc = "get" => op'.kind = "change" \/ eba_tbl[op'.lnum] = None
      <3>1. CASE OpUnmapped
        <4>1. op.pc = "unmapped" /\ UNCHANGED <<tree, wk, ro_mode>>
          BY Zenon, <3>1 DEF OpUnmapped, Running
        <4>2. op'.pc = "idle" \/ (op'.pc = "get" /\ op'.lnum = op.lnum)
          BY Zenon, <1>1, <3>1 DEF OpUnmapped, Succeed, Begin, IdleOp
        <4>. QED  BY Zenon, <4>1, <4>2 DEF MapInv, Targets
      <3>2. CASE OpRetry
        <4>1. op.pc = "retry" /\ UNCHANGED <<tree, wk>> /\ (ro_mode => ro_mode')
          BY <3>2 DEF OpRetry, Running
        <4>2. op' = IdleOp \/ op' = [op EXCEPT !.pc = "get", !.tries = @ + 1, !.sqnum = global_sqnum]
          BY Zenon, <3>2 DEF OpRetry, Succeed
        <4>3. \/ op'.pc = "idle"
              \/ op'.pc = "get" /\ op'.kind = op.kind /\ op'.lnum = op.lnum
          BY Zenon, <1>1, <4>2 DEF OpState
        <4>. QED  BY Zenon, <4>1, <4>3 DEF MapInv, Targets
      <3>3. CASE OpRecoverDone
        BY Zenon, <1>1, <3>3 DEF OpRecoverDone, Running, Succeed
      <3>. QED  BY Zenon, <1>2, <3>1, <3>2, <3>3
    <2>. QED  BY Zenon, <1>1, <2>1, QuietMap DEF HasNew
  <1>3. CASE OpGet
    <2>1. CASE op' = IdleOp /\ UNCHANGED tree
      BY Zenon, <1>1, <1>3, <2>1, QuietMap DEF OpGet, Running, HasNew
    <2>2. CASE ~(op' = IdleOp /\ UNCHANGED tree)
      <3>1. PICK p \in In("free") : /\ tree' = [tree EXCEPT ![p] = "prot"]
                                    /\ op' = [op EXCEPT !.pc = "vid", !.pnum = p]
        BY Zenon, <1>3, <2>2 DEF OpGet
      <3>2. p \in PEB /\ tree[p] = "free"
        BY Zenon DEF In
      <3>3. /\ op'.pc = "vid" /\ op'.pnum = p /\ op'.lnum = op.lnum /\ op'.from = op.from
            /\ op'.kind = op.kind
        BY Zenon, <1>1, <3>1 DEF OpState
      <3>4. op.pc = "get" /\ UNCHANGED <<flash, eba_tbl, up, wk, ro_mode>>
        BY Zenon, <1>3 DEF OpGet, Running
      <3>. QED  BY Zenon, <1>1, <3>1, <3>2, <3>3, <3>4, GetMap
    <2>. QED  BY Zenon, <2>1, <2>2
  <1>4. CASE OpRecoverGet
    <2>1. op.pc = "rget" /\ op.lnum \in LEB /\ op.from \in PEB /\ UNCHANGED up
      BY Zenon, <1>4 DEF OpRecoverGet, Running, TypeInv, Wf
    <2>2. CASE FailRo /\ UNCHANGED <<tree, wk>>
      BY Zenon, <1>1, <2>1, <2>2, QuietMap DEF FailRo
    <2>3. CASE ~(FailRo /\ UNCHANGED <<tree, wk>>)
      <3>1. flash[op.from].vid = "ok"
        BY Zenon, <2>1 DEF MapInv, Targets, Mapped, Maps, Carries
      <3>2. PICK p \in In("free") :
              /\ tree' = [tree EXCEPT ![p] = "prot"]
              /\ op' = [op EXCEPT !.pc = "rvid", !.pnum = p, !.sqnum = global_sqnum]
              /\ UNCHANGED <<wk, ro_mode>>
        BY Zenon, <1>4, <2>3, <3>1 DEF OpRecoverGet
      <3>3. p \in PEB /\ tree[p] = "free"
        BY Zenon DEF In
      <3>4. /\ op'.pc = "rvid" /\ op'.pnum = p /\ op'.lnum = op.lnum /\ op'.from = op.from
            /\ op'.kind = op.kind
        BY Zenon, <1>1, <3>2 DEF OpState
      <3>. QED  BY Zenon, <1>1, <2>1, <3>2, <3>3, <3>4, GetMap
    <2>. QED  BY Zenon, <2>2, <2>3
  <1>5. CASE OpRecoverRetry
    BY Zenon, <1>5 DEF OpRecoverRetry, Running, MapInv, Targets
  <1>. QED  BY Zenon, <1>2, <1>3, <1>4, <1>5

-----------------------------------------------------------------------------
(* The steps of a call that write. *)

\* A LEB whose VID header is written to x was on one PEB at most.
LEMMA NewNoThird ==
  ASSUME TypeInv, TypeInv', MapInv, up # "off", ~ro_mode, NEW x \in PEB, NEW l \in LEB,
         flash'[x].lnum = l, \A p \in PEB : p # x => flash'[p] = flash[p],
         \A p \in PEB : p # x /\ Busy(p) /\ Live(flash[p]) => flash[p].lnum # l
  PROVE  NoThird'
  <1>1. ASSUME NEW q \in PEB, q # x, Live(flash[q]), flash[q].lnum = l
        PROVE  q = eba_tbl[l]
    <2>1. Found(q) /\ ~Busy(q)
      BY Zenon, <1>1 DEF MapInv, NoneLost
    <2>2. flash[q].vid = "ok" /\ ~flash[q].bad
      BY Zenon, <1>1 DEF Live
    <2>3. tree[q] # "free" /\ tree[q] # "bad"
      BY Zenon, <2>2, BlankBare DEF MapInv, Erased, Entries
    <2>4. PICK k \in LEB : Maps(k, q)
      BY Zenon, <2>1, <2>2, <2>3 DEF Found
    <2>5. k = l
      BY Zenon, <1>1, <2>4 DEF MapInv, Mapped, Carries
    <2>. QED  BY Zenon, <2>4, <2>5 DEF Maps
  <1>2. \A q, s \in PEB : q # x /\ s # x /\ Live(flash'[q]) /\ Live(flash'[s])
                             /\ flash'[q].lnum = l /\ flash'[s].lnum = l => q = s
    BY Zenon, <1>1
  <1>3. \A p, q, s \in PEB : /\ p # x /\ q # x /\ s # x
                             /\ Live(flash'[p]) /\ Live(flash'[q]) /\ Live(flash'[s])
                             /\ flash'[p].lnum = flash'[q].lnum /\ flash'[q].lnum = flash'[s].lnum
                             => p = q \/ q = s \/ p = s
    BY DEF MapInv, NoThird
  <1>4. \A p, q, s \in PEB : /\ Live(flash'[p]) /\ Live(flash'[q]) /\ Live(flash'[s])
                             /\ flash'[p].lnum = flash'[q].lnum /\ flash'[q].lnum = flash'[s].lnum
                             => p = q \/ q = s \/ p = s
    <2>. SUFFICES ASSUME NEW p \in PEB, NEW q \in PEB, NEW s \in PEB,
                         Live(flash'[p]), Live(flash'[q]), Live(flash'[s]),
                         flash'[p].lnum = flash'[q].lnum, flash'[q].lnum = flash'[s].lnum,
                         p # q, q # s, p # s
                  PROVE  FALSE
      BY Zenon
    <2>. QED  BY Zenon, <1>2, <1>3
  <1>. QED  BY Zenon, <1>4 DEF NoThird, Live

\* No LEB is mapped to the PEB a call is writing.
LEMMA NewUnmapped ==
  ASSUME TypeInv, MapInv, op.pc \in {"vid", "data", "rvid", "rdata"}
  PROVE  op.pnum \in PEB /\ op.lnum \in LEB /\ \A l \in LEB : eba_tbl[l] # op.pnum
  <1>1. op.pnum \in PEB /\ op.lnum \in LEB
    BY Zenon DEF TypeInv, Wf
  <1>2. CASE op.pc \in {"vid", "rvid"}
    BY <1>1, <1>2, BlankBare DEF MapInv, Erased, Mapped, Maps, Carries
  <1>3. CASE op.pc \in {"data", "rdata"}
    BY <1>1, <1>3 DEF MapInv, Mapped, Maps, Carries, HasNew
  <1>. QED  BY Zenon, <1>1, <1>2, <1>3

\* The VID header of the new PEB is written and there is more to do.
LEMMA NewMap ==
  ASSUME TypeInv, TypeInv', SqInv, MapInv, wk.pc = "idle",
         \/ op.pc = "vid" /\ op'.pc = "data"
         \/ op.pc = "rvid" /\ op'.pc \in {"rdata", "rfail"},
         op'.pnum = op.pnum, op'.lnum = op.lnum, op'.from = op.from, op'.kind = op.kind,
         UNCHANGED <<up, eba_tbl, tree, wk, ro_mode>>,
         \A p \in PEB : p # op.pnum => flash'[p] = flash[p],
         Carries(op.pnum, op.lnum)', Tidy(flash'[op.pnum]), NoThird'
  PROVE  MapInv'
  <1>1. op.pnum \in PEB /\ op.lnum \in LEB /\ \A l \in LEB : eba_tbl[l] # op.pnum
    BY Zenon, NewUnmapped
  <1>2. tree[op.pnum] = "prot"
    BY Zenon DEF MapInv, Entries
  <1>3. Erased'
    BY Zenon, <1>1, <1>2 DEF MapInv, Erased
  <1>4. Entries'
    BY Zenon, <1>1, <1>2 DEF MapInv, Entries
  <1>5. Mapped'
    BY <1>1, <1>2 DEF MapInv, Mapped, HasNew, Maps, Carries, Kept
  <1>6. Targets'
    BY Zenon DEF MapInv, Targets
  <1>7. NoneLost'
    <2>1. ASSUME NEW p \in PEB, Found(p)
          PROVE  Found(p)'
      <3>1. CASE p = op.pnum
        BY Zenon, <1>1, <3>1, MediaAssumption DEF Found, Busy, HasNew
      <3>2. CASE p # op.pnum
        <4>1. \A l \in LEB : Maps(l, p) => Maps(l, p)'
          BY Zenon DEF Maps
        <4>. QED  BY Zenon, <2>1, <3>2, <4>1 DEF Found, Busy, HasNew
      <3>. QED  BY Zenon, <3>1, <3>2
    <2>. QED  BY Zenon, <2>1 DEF MapInv, NoneLost
  <1>. QED  BY Zenon, <1>3, <1>4, <1>5, <1>6, <1>7 DEF MapInv

\* The end of a write to a new PEB keeps the invariant.
LEMMA WrittenMap ==
  ASSUME TypeInv, TypeInv', SqInv, MapInv, up = "on", wk.pc = "idle", ~ro_mode,
         op.pc \in {"vid", "data"}, Written, UNCHANGED up,
         \A p \in PEB : p # op.pnum => flash'[p] = flash[p],
         flash'[op.pnum].vid = "ok" /\ flash'[op.pnum].lnum = op.lnum,
         Tidy(flash'[op.pnum]), flash[op.pnum].bad => flash'[op.pnum].bad, NoThird'
  PROVE  MapInv'
  <1>1. op.pnum \in PEB /\ op.lnum \in LEB /\ \A l \in LEB : eba_tbl[l] # op.pnum
    BY Zenon, NewUnmapped
  <1>2. tree[op.pnum] = "prot" /\ op \in OpState /\ IdleOp.pc = "idle"
    BY Zenon DEF MapInv, Entries, TypeInv, TypeOK, IdleOp
  <1>3. CASE op.kind = "change" /\ eba_tbl[op.lnum] # None
    <2>. DEFINE x == eba_tbl[op.lnum]
                next == [op EXCEPT !.pc = "remap"]
    <2>1. next.pc = "remap" /\ next.pnum = op.pnum /\ next.lnum = op.lnum
      BY Zenon, <1>2 DEF OpState
    <2>2. x \in PEB
      BY Zenon, <1>1, <1>3 DEF TypeInv, TypeOK
    <2>3. PutPeb(x, next, IdleOp) /\ UNCHANGED eba_tbl
      BY Zenon, <1>3 DEF Written
    <2>4. Maps(op.lnum, x)
      BY Zenon DEF Maps
    <2>. HIDE DEF x, next
    <2>5. \/ /\ tree' = [tree EXCEPT ![x] = "erase"] /\ wk'.pc = "erase" /\ wk'.e1 = x
             /\ op'.pc = "remap" /\ op'.pnum = op.pnum /\ op'.lnum = op.lnum /\ ~ro_mode'
          \/ tree' = tree /\ wk' = wk /\ ro_mode' /\ op'.pc = "idle"
      BY ZenonT(30), <1>2, <2>1, <2>2, <2>3, PutDoes
    <2>6. x # op.pnum
      BY Zenon, <1>1 DEF x
    <2>7. \A l \in LEB, p \in PEB : op'.pc = "remap" /\ Maps(l, p)' =>
                                       Carries(p, l)' /\ p # x /\ tree[p] \in Kept
      <3>1. SUFFICES ASSUME NEW l \in LEB, NEW p \in PEB, op'.pc = "remap", Maps(l, p)'
                     PROVE  Carries(p, l)' /\ p # x /\ tree[p] \in Kept
        BY Zenon
      <3>2. l # op.lnum /\ Maps(l, p)
        BY Zenon, <2>3, <2>5, <3>1 DEF Maps
      <3>3. p # x /\ p # op.pnum
        BY Zenon, <1>1, <2>2, <2>4, <3>2, MapsOne DEF Maps
      <3>. QED  BY <3>2, <3>3 DEF MapInv, Mapped, Carries
    <2>8. CASE op'.pc = "idle"
      <3>1. tree' = tree /\ wk' = wk /\ ro_mode'
        BY Zenon, <2>5, <2>8
      <3>2. Erased'
        BY Zenon, <1>1, <1>2, <2>8, <3>1 DEF MapInv, Erased
      <3>3. Entries'
        BY Zenon, <1>1, <1>2, <2>8, <3>1 DEF MapInv, Entries
      <3>4. Mapped'
        BY <1>1, <2>3, <2>8, <3>1 DEF MapInv, Mapped, HasNew, Maps, Carries
      <3>5. Targets' /\ NoneLost'
        BY Zenon, <2>8, <3>1 DEF Targets, NoneLost
      <3>. QED  BY Zenon, <3>2, <3>3, <3>4, <3>5 DEF MapInv
    <2>9. CASE op'.pc = "remap"
      <3>1. \A p \in PEB : p # x /\ Found(p) =>
               \/ tree[p] \in {"free", "bad"}
               \/ \E l \in LEB : Maps(l, p)'
               \/ op'.pc = "remap" /\ op'.pnum = p
               \/ "novid" \in Faults /\ flash'[p].vid # "ok"
        BY Zenon, <1>1, <2>3, <2>5, <2>9 DEF Found, Busy, HasNew, Maps, x
      <3>2. \A p \in PEB : Tidy(flash'[p]) /\ (flash[p].bad => flash'[p].bad)
        BY Zenon DEF MapInv, Erased
      <3>3. \A p \in PEB : tree[p] = "free" => flash'[p] = flash[p]
        BY Zenon, <1>2
      <3>4. eba_tbl'[op'.lnum] = x /\ op'.pnum # x /\ Carries(op.pnum, op.lnum)'
            /\ tree[op'.pnum] \in Kept
        BY Zenon, <1>2, <2>3, <2>5, <2>6, <2>9 DEF x, Kept, Carries
      <3>. QED  BY Zenon, <2>2, <2>5, <2>7, <2>9, <3>1, <3>2, <3>3, <3>4, PutMap
    <2>. QED  BY Zenon, <2>5, <2>8, <2>9
  <1>4. CASE ~(op.kind = "change" /\ eba_tbl[op.lnum] # None)
    <2>1. /\ eba_tbl' = [eba_tbl EXCEPT ![op.lnum] = op.pnum] /\ op'.pc = "idle"
          /\ UNCHANGED <<tree, wk, ro_mode>>
      BY Zenon, <1>2, <1>4 DEF Written, Succeed
    <2>2. eba_tbl'[op.lnum] = op.pnum /\ \A l \in LEB : l # op.lnum => eba_tbl'[l] = eba_tbl[l]
      BY Zenon, <1>1, <2>1 DEF TypeInv, TypeOK
    <2>3. Erased'
      BY Zenon, <1>1, <1>2, <2>1 DEF MapInv, Erased
    <2>4. Entries'
      BY Zenon, <1>1, <1>2, <2>1 DEF MapInv, Entries
    <2>5. Mapped'
      <3>1. ASSUME NEW l \in LEB, NEW p \in PEB, eba_tbl'[l] = p
            PROVE  Carries(p, l)' /\ tree'[p] \in Kept
        <4>1. CASE l = op.lnum
          BY <1>2, <2>1, <2>2, <3>1, <4>1 DEF Kept, Carries
        <4>2. CASE l # op.lnum
          <5>1. Maps(l, p) /\ p # op.pnum
            BY Zenon, <1>1, <2>2, <3>1, <4>2 DEF Maps
          <5>. QED  BY <2>1, <5>1 DEF MapInv, Mapped, Carries
        <4>. QED  BY Zenon, <4>1, <4>2
      <3>. QED  BY Zenon, <2>1, <3>1 DEF Mapped, HasNew, Maps
    <2>6. Targets'
      BY Zenon, <2>1 DEF Targets
    <2>7. NoneLost'
      <3>1. eba_tbl[op.lnum] = None
        BY Zenon, <1>4 DEF MapInv, Targets
      <3>2. ASSUME NEW p \in PEB, Found(p)
            PROVE  Found(p)'
        <4>1. CASE p = op.pnum
          BY Zenon, <1>1, <2>1, <2>2, <4>1 DEF Found, Maps
        <4>2. CASE p # op.pnum
          <5>1. ASSUME NEW l \in LEB, Maps(l, p)
                PROVE  Maps(l, p)'
            BY Zenon, <2>1, <2>2, <3>1, <5>1, MediaAssumption DEF Maps
          <5>. QED  BY Zenon, <2>1, <3>2, <4>2, <5>1 DEF Found, Busy, HasNew
        <4>. QED  BY Zenon, <4>1, <4>2
      <3>. QED  BY Zenon, <3>2 DEF MapInv, NoneLost
    <2>. QED  BY Zenon, <2>3, <2>4, <2>5, <2>6, <2>7 DEF MapInv
  <1>. QED  BY Zenon, <1>3, <1>4

\* A call that fails into read-only mode keeps the invariant.
LEMMA FailMap ==
  ASSUME TypeInv, TypeInv', SqInv, MapInv, wk.pc = "idle", op.pc # "remap", op'.pc = "idle", ro_mode',
         UNCHANGED <<up, eba_tbl, tree, wk>>, NoThird',
         \A p \in PEB : Tidy(flash'[p]) /\ (flash[p].bad => flash'[p].bad),
         \A p \in PEB : tree[p] = "free" => flash'[p] = flash[p],
         \A l \in LEB, p \in PEB : Maps(l, p) => Carries(p, l)'
  PROVE  MapInv'
  <1>1. Erased'
    BY Zenon DEF MapInv, Erased
  <1>2. Entries'
    BY Zenon DEF MapInv, Entries
  <1>3. \A l \in LEB, p \in PEB : Maps(l, p)' => Maps(l, p)
    BY Zenon DEF Maps
  <1>4. Mapped'
    BY Zenon, <1>3 DEF MapInv, Mapped, HasNew
  <1>5. Targets' /\ NoneLost'
    BY Zenon DEF Targets, NoneLost
  <1>. QED  BY Zenon, <1>1, <1>2, <1>4, <1>5 DEF MapInv

\* The write_error path of a write to a new PEB keeps the invariant.
LEMMA WriteErrorMap ==
  ASSUME TypeInv, TypeInv', SqInv, MapInv, up = "on", wk.pc = "idle", op.pc \in {"vid", "data"},
         NEW torn, \A s \in torn : Tidy(s) /\ (flash[op.pnum].bad => s.bad), WriteError(torn),
         NoThird'
  PROVE  MapInv'
  <1>1. op.pnum \in PEB /\ op.lnum \in LEB /\ \A l \in LEB : eba_tbl[l] # op.pnum
    BY Zenon, NewUnmapped
  <1>2. /\ tree[op.pnum] = "prot" /\ op \in OpState /\ IdleOp.pc = "idle"
        /\ UNCHANGED <<up, eba_tbl>>
    BY Zenon DEF MapInv, Entries, TypeInv, TypeOK, IdleOp, WriteError
  <1>3. \A p \in PEB : p # op.pnum => flash'[p] = flash[p]
    BY Zenon DEF WriteError, TypeInv, TypeOK
  <1>4. Tidy(flash'[op.pnum]) /\ (flash[op.pnum].bad => flash'[op.pnum].bad)
    <2>1. CASE UNCHANGED flash
      BY Zenon, <1>1, <2>1 DEF MapInv, Erased
    <2>2. CASE \E s \in torn : flash' = [flash EXCEPT ![op.pnum] = s]
      BY Zenon, <1>1, <2>2 DEF TypeInv, TypeOK
    <2>. QED  BY Zenon, <2>1, <2>2 DEF WriteError
  <1>5. \A p \in PEB : Tidy(flash'[p]) /\ (flash[p].bad => flash'[p].bad)
    BY Zenon, <1>3, <1>4 DEF MapInv, Erased
  <1>6. \A p \in PEB : tree[p] = "free" => flash'[p] = flash[p]
    BY Zenon, <1>2, <1>3
  <1>7. ASSUME NEW l \in LEB, NEW p \in PEB, eba_tbl[l] = p
        PROVE  Carries(p, l)' /\ p # op.pnum /\ tree[p] \in Kept
    <2>1. Maps(l, p) /\ p # op.pnum
      BY Zenon, <1>1, <1>7 DEF Maps
    <2>. QED  BY <1>3, <2>1 DEF MapInv, Mapped, Carries
  <1>8. CASE FailRo /\ UNCHANGED <<tree, wk>>
    BY Zenon, <1>2, <1>5, <1>6, <1>7, <1>8, FailMap DEF FailRo, Maps
  <1>9. CASE ~ro_mode /\ PutPeb(op.pnum, [op EXCEPT !.pc = "retry"], IdleOp)
    <2>. DEFINE next == [op EXCEPT !.pc = "retry"]
    <2>1. next.pc = "retry" /\ next.lnum = op.lnum /\ next.kind = op.kind
      BY Zenon, <1>2 DEF OpState
    <2>2. PutPeb(op.pnum, next, IdleOp)
      BY Zenon, <1>9
    <2>. HIDE DEF next
    <2>3. \/ /\ tree' = [tree EXCEPT ![op.pnum] = "erase"] /\ wk'.pc = "erase" /\ wk'.e1 = op.pnum
             /\ op'.pc = "retry" /\ op'.lnum = op.lnum /\ op'.kind = op.kind
          \/ tree' = tree /\ wk' = wk /\ ro_mode' /\ op'.pc = "idle"
      BY ZenonT(30), <1>1, <1>2, <2>1, <2>2, PutDoes
    <2>4. op'.pc = "retry" /\ op'.kind # "change" => eba_tbl'[op'.lnum] = None
      BY Zenon, <1>2, <2>3 DEF MapInv, Targets
    <2>5. \A l \in LEB, p \in PEB : Maps(l, p)' => Carries(p, l)' /\ p # op.pnum /\ tree[p] \in Kept
      BY Zenon, <1>2, <1>7 DEF Maps
    <2>6. \A p \in PEB : p # op.pnum /\ Found(p) =>
             \/ tree[p] \in {"free", "bad"}
             \/ \E l \in LEB : Maps(l, p)'
             \/ "novid" \in Faults /\ flash'[p].vid # "ok"
      <3>1. \A l \in LEB, p \in PEB : Maps(l, p) => Maps(l, p)'
        BY Zenon, <1>2, <2>3 DEF Maps
      <3>. QED  BY Zenon, <1>3, <3>1 DEF Found, Busy, HasNew
    <2>. QED  BY Zenon, <1>1, <1>2, <1>5, <1>6, <1>9, <2>3, <2>4, <2>5, <2>6, PutMap
  <1>. QED  BY Zenon, <1>8, <1>9 DEF WriteError

\* Writing the VID header of the new PEB keeps the invariant.
LEMMA OpVidMap ==
  ASSUME TypeInv, TypeInv', SqInv, MapInv, OpVid
  PROVE  MapInv'
  <1>1. /\ up = "on" /\ wk.pc = "idle" /\ op.pc = "vid" /\ op.pnum \in PEB /\ op \in OpState
        /\ op.lnum \in LEB /\ flash[op.pnum] \in PebState /\ flash[op.pnum] = Formatted
    BY Zenon DEF OpVid, Running, TypeInv, TypeOK, Wf, MapInv, Erased
  <1>. DEFINE good == WithVid(flash[op.pnum], op.lnum, op.sqnum, op.kind = "change",
                              IF op.kind = "change" THEN op.buf ELSE << >>)
              torn == TornVid(flash[op.pnum]) \cup {good}
  <1>2. Tidy(good) /\ good.vid = "ok" /\ good.lnum = op.lnum /\ good.bad = flash[op.pnum].bad
    BY <1>1, WithVidCarries
  <1>3. \/ WriteError(torn)
        \/ /\ flash' = [flash EXCEPT ![op.pnum] = good] /\ UNCHANGED up /\ ~ro_mode
           /\ \/ Written
              \/ op' = [op EXCEPT !.pc = "data"] /\ UNCHANGED <<eba_tbl, tree, wk, ro_mode>>
    BY Zenon DEF OpVid
  <1>. HIDE DEF good
  <1>4. \A s \in torn : Tidy(s) /\ (flash[op.pnum].bad => s.bad)
    BY Zenon, <1>1, <1>2, TornVidAges, BlankBare DEF Ages
  <1>5. ASSUME flash' = [flash EXCEPT ![op.pnum] = good], ~ro_mode
        PROVE  /\ NoThird' /\ flash'[op.pnum] = good
               /\ \A p \in PEB : p # op.pnum => flash'[p] = flash[p]
    <2>1. flash'[op.pnum] = good /\ \A p \in PEB : p # op.pnum => flash'[p] = flash[p]
      BY Zenon, <1>1, <1>5, OneAges
    <2>2. \A p \in PEB : p # op.pnum => ~Busy(p)
      BY Zenon, <1>1 DEF Busy, HasNew
    <2>. QED  BY Zenon, <1>1, <1>2, <1>5, <2>1, <2>2, NewNoThird
  <1>6. CASE WriteError(torn)
    <2>1. CASE ~ro_mode /\ flash' = [flash EXCEPT ![op.pnum] = good]
      <3>. HIDE DEF torn
      <3>. QED  BY Zenon, <1>1, <1>4, <1>5, <1>6, <2>1, WriteErrorMap
    <2>2. CASE ~(~ro_mode /\ flash' = [flash EXCEPT ![op.pnum] = good])
      <3>1. UNCHANGED flash \/ \E s \in TornVid(flash[op.pnum]) : flash' = [flash EXCEPT ![op.pnum] = s]
        BY Zenon, <1>6, <2>2 DEF WriteError
      <3>2. \A p \in PEB : Ages(flash[p], flash'[p])
        <4>1. \A p \in PEB : Ages(flash[p], flash[p])
          BY Zenon DEF MapInv, Erased, Ages
        <4>2. \A s \in TornVid(flash[op.pnum]) : Ages(flash[op.pnum], s)
          BY Zenon, <1>1, TornVidAges, BlankBare
        <4>. QED  BY <1>1, <3>1, <4>1, <4>2, OneAges
      <3>3. NoThird'
        BY Zenon, <3>2, AgesNoThird DEF MapInv
      <3>. HIDE DEF torn
      <3>. QED  BY Zenon, <1>1, <1>4, <1>6, <3>3, WriteErrorMap
    <2>. QED  BY Zenon, <2>1, <2>2
  <1>7. CASE ~WriteError(torn)
    <2>1. flash' = [flash EXCEPT ![op.pnum] = good] /\ UNCHANGED up /\ ~ro_mode
      BY Zenon, <1>3, <1>7
    <2>2. CASE Written
      BY Zenon, <1>1, <1>2, <1>5, <2>1, <2>2, WrittenMap
    <2>3. CASE op' = [op EXCEPT !.pc = "data"] /\ UNCHANGED <<eba_tbl, tree, wk, ro_mode>>
      <3>1. /\ op'.pc = "data" /\ op'.pnum = op.pnum /\ op'.lnum = op.lnum /\ op'.from = op.from
            /\ op'.kind = op.kind
        BY Zenon, <1>1, <2>3 DEF OpState
      <3>2. Carries(op.pnum, op.lnum)' /\ Tidy(flash'[op.pnum])
        BY Zenon, <1>2, <1>5, <2>1, <3>1 DEF Carries
      <3>. QED  BY Zenon, <1>1, <1>5, <2>1, <2>3, <3>1, <3>2, NewMap
    <2>. QED  BY Zenon, <1>3, <1>7, <2>2, <2>3
  <1>. QED  BY Zenon, <1>6, <1>7

\* A PEB becomes a state that only aged: so has the flash.
LEMMA OneAged ==
  ASSUME TypeInv, MapInv, NEW x \in PEB, NEW s, Ages(flash[x], s), flash' = [flash EXCEPT ![x] = s]
  PROVE  \A p \in PEB : Ages(flash[p], flash'[p])
  <1>1. \A p \in PEB : Ages(flash[p], flash[p])
    BY Zenon DEF MapInv, Erased, Ages
  <1>. QED  BY Zenon, <1>1, OneAges

\* Writing the data of the new PEB keeps the invariant.
LEMMA OpDataMap ==
  ASSUME TypeInv, TypeInv', SqInv, MapInv, OpData
  PROVE  MapInv'
  <1>1. /\ up = "on" /\ wk.pc = "idle" /\ op.pc = "data" /\ op.pnum \in PEB
        /\ op.lnum \in LEB /\ flash[op.pnum] \in PebState
    BY Zenon DEF OpData, Running, TypeInv, TypeOK, Wf
  <1>2. flash[op.pnum].vid = "ok" /\ flash[op.pnum].lnum = op.lnum /\ Tidy(flash[op.pnum])
    BY Zenon, <1>1 DEF MapInv, Mapped, HasNew, Carries, Erased
  <1>3. CASE WriteError(TornData(flash[op.pnum], op.buf))
    <2>. DEFINE torn == TornData(flash[op.pnum], op.buf)
    <2>1. \A s \in torn : Ages(flash[op.pnum], s) /\ s.bad = flash[op.pnum].bad
      BY Zenon, <1>1, <1>2, TornDataAges
    <2>2. UNCHANGED flash \/ \E s \in torn : flash' = [flash EXCEPT ![op.pnum] = s]
      BY Zenon, <1>3 DEF WriteError
    <2>3. WriteError(torn)
      BY Zenon, <1>3
    <2>. HIDE DEF torn
    <2>4. NoThird'
      <3>1. CASE UNCHANGED flash
        BY <3>1 DEF MapInv, NoThird, Live
      <3>2. CASE \E s \in torn : flash' = [flash EXCEPT ![op.pnum] = s]
        BY Zenon, <1>1, <2>1, <3>2, OneAged, AgesNoThird DEF MapInv
      <3>. QED  BY Zenon, <2>2, <3>1, <3>2
    <2>. QED  BY Zenon, <1>1, <2>1, <2>3, <2>4, WriteErrorMap DEF Ages
  <1>4. CASE ~WriteError(TornData(flash[op.pnum], op.buf))
    <2>. DEFINE s == WithData(flash[op.pnum], op.buf)
    <2>1. flash' = [flash EXCEPT ![op.pnum] = s] /\ Written /\ UNCHANGED up /\ ~ro_mode
      BY Zenon, <1>4 DEF OpData
    <2>2. /\ Ages(flash[op.pnum], s) /\ s.vid = "ok" /\ s.lnum = op.lnum
          /\ s.bad = flash[op.pnum].bad
      BY Zenon, <1>1, <1>2, WithDataAges
    <2>. HIDE DEF s
    <2>3. flash'[op.pnum] = s /\ \A p \in PEB : p # op.pnum => flash'[p] = flash[p]
      BY Zenon, <1>1, <2>1, OneAges
    <2>4. NoThird'
      BY Zenon, <1>1, <2>1, <2>2, OneAged, AgesNoThird DEF MapInv
    <2>. QED  BY Zenon, <1>1, <2>1, <2>2, <2>3, <2>4, WrittenMap DEF Ages
  <1>. QED  BY Zenon, <1>3, <1>4

\* Writing behind the data of a mapped PEB keeps the invariant.
LEMMA OpAppendMap ==
  ASSUME TypeInv, TypeInv', SqInv, MapInv, OpAppend
  PROVE  MapInv'
  <1>1. /\ up = "on" /\ wk.pc = "idle" /\ op.pc = "append" /\ op.from \in PEB /\ op.lnum \in LEB
        /\ op \in OpState /\ flash[op.from] \in PebState /\ IdleOp.pc = "idle"
        /\ UNCHANGED <<up, eba_tbl, tree, wk>>
    BY Zenon DEF OpAppend, Running, TypeInv, TypeOK, Wf, IdleOp
  <1>2. Maps(op.lnum, op.from) /\ ~ro_mode
    BY Zenon, <1>1 DEF MapInv, Targets, Maps
  <1>3. Carries(op.from, op.lnum) /\ tree[op.from] \in Kept /\ Tidy(flash[op.from])
    BY Zenon, <1>1, <1>2 DEF MapInv, Mapped, Erased
  <1>4. PICK s \in TornData(flash[op.from], op.buf) \cup {WithData(flash[op.from], op.buf)} :
          flash' = [flash EXCEPT ![op.from] = s]
    BY Zenon DEF OpAppend
  <1>5. /\ Ages(flash[op.from], s) /\ s.vid = "ok" /\ s.lnum = op.lnum
        /\ s.bad = flash[op.from].bad
    BY <1>1, <1>3, TornDataAges, WithDataAges DEF Carries
  <1>6. flash'[op.from] = s /\ \A p \in PEB : p # op.from => flash'[p] = flash[p]
    BY Zenon, <1>1, <1>4, OneAges
  <1>7. NoThird'
    BY Zenon, <1>1, <1>4, <1>5, OneAged, AgesNoThird DEF MapInv
  <1>8. \A p \in PEB : Tidy(flash'[p]) /\ (flash[p].bad => flash'[p].bad)
    BY Zenon, <1>5, <1>6 DEF MapInv, Erased, Ages
  <1>9. \A p \in PEB : tree[p] = "free" => flash'[p] = flash[p]
    BY Zenon, <1>3, <1>6 DEF Kept
  <1>10. \A l \in LEB, p \in PEB : Maps(l, p) => Carries(p, l)'
    BY <1>3, <1>5, <1>6 DEF MapInv, Mapped, Carries
  <1>11. CASE FailRo
    BY Zenon, <1>1, <1>7, <1>8, <1>9, <1>10, <1>11, FailMap DEF FailRo
  <1>12. CASE ~FailRo
    <2>1. /\ UNCHANGED ro_mode
          /\ \/ op'.pc = "idle"
             \/ /\ op'.pc = "rget" /\ op'.lnum = op.lnum /\ op'.from = op.from
                /\ "append" \in Faults
      BY Zenon, <1>1, <1>12 DEF OpAppend, Succeed, Fault, OpState
    <2>2. Erased'
      BY Zenon, <1>1, <1>8, <1>9, <2>1 DEF MapInv, Erased
    <2>3. Entries'
      BY Zenon, <1>1, <1>8, <2>1 DEF MapInv, Entries
    <2>4. \A l \in LEB, p \in PEB : Maps(l, p)' <=> Maps(l, p)
      BY Zenon, <1>1, <2>1 DEF Maps
    <2>5. Mapped'
      BY Zenon, <1>1, <1>10, <2>1, <2>4 DEF MapInv, Mapped, HasNew
    <2>6. Targets'
      BY Zenon, <1>1, <1>2, <2>1 DEF MapInv, Targets
    <2>7. NoneLost'
      <3>1. \A p \in PEB : flash'[p].vid = flash[p].vid
        BY Zenon, <1>3, <1>5, <1>6 DEF Carries
      <3>. QED  BY <1>1, <2>1, <2>4, <3>1 DEF MapInv, NoneLost, Found, Busy, HasNew
    <2>. QED  BY Zenon, <1>7, <2>2, <2>3, <2>5, <2>6, <2>7 DEF MapInv
  <1>. QED  BY Zenon, <1>11, <1>12

\* recover_peb() meets no second error.
LEMMA NoRecoverError ==
  ASSUME OneError \/ RecoversAtOnce', TypeInv, MapInv,
         op.pc \in {"rvid", "rdata"}, NEW torn, RecoverError(torn)
  PROVE  FALSE
  <1>1. CASE OneError
    BY Zenon, <1>1 DEF OneError, MapInv, Targets, RecoverError, Fault
  <1>2. CASE RecoversAtOnce'
    <2>1. op \in OpState /\ op' = [op EXCEPT !.pc = "rretry"]
      BY Zenon DEF RecoverError, PutPeb, TypeInv, TypeOK
    <2>2. op'.pc = "rretry"
      BY Zenon, <2>1 DEF OpState
    <2>. QED  BY Zenon, <1>2, <2>2 DEF RecoversAtOnce
  <1>. QED  BY Zenon, <1>1, <1>2

\* recover_peb() writing the VID header keeps the invariant.
LEMMA OpRecoverVidMap ==
  ASSUME OneError \/ RecoversAtOnce', TypeInv, TypeInv', SqInv, MapInv, OpRecoverVid
  PROVE  MapInv'
  <1>1. /\ up = "on" /\ wk.pc = "idle" /\ op.pc = "rvid" /\ op.pnum \in PEB /\ op \in OpState
        /\ op.lnum \in LEB /\ op.from \in PEB /\ flash[op.pnum] \in PebState
        /\ flash[op.pnum] = Formatted
    BY Zenon DEF OpRecoverVid, Running, TypeInv, TypeOK, Wf, MapInv, Erased
  <1>2. Maps(op.lnum, op.from) /\ ~ro_mode
    BY Zenon, <1>1 DEF MapInv, Targets, Maps
  <1>3. flash[op.from].lnum = op.lnum
    BY Zenon, <1>1, <1>2 DEF MapInv, Mapped, Carries
  <1>. DEFINE o == flash[op.from]
              good == WithVid(flash[op.pnum], o.lnum, op.sqnum, o.copy_flag, o.data_crc)
  <1>4. ~RecoverError(TornVid(flash[op.pnum]) \cup {good})
    BY Zenon, <1>1, NoRecoverError
  <1>5. /\ flash' = [flash EXCEPT ![op.pnum] = good]
        /\ op' = [op EXCEPT !.pc = IF ReadsClean(o.data, Len(op.want) - Len(op.buf))
                                     THEN "rdata" ELSE "rfail"]
        /\ UNCHANGED <<up, eba_tbl, tree, ro_mode, wk>>
    BY Zenon, <1>4 DEF OpRecoverVid
  <1>6. Tidy(good) /\ good.vid = "ok" /\ good.lnum = op.lnum
    BY <1>1, <1>3, WithVidCarries
  <1>7. /\ op'.pc \in {"rdata", "rfail"} /\ op'.pnum = op.pnum /\ op'.lnum = op.lnum
        /\ op'.from = op.from /\ op'.kind = op.kind
    BY Zenon, <1>1, <1>5 DEF OpState
  <1>. HIDE DEF good
  <1>8. flash'[op.pnum] = good /\ \A p \in PEB : p # op.pnum => flash'[p] = flash[p]
    BY Zenon, <1>1, <1>5, OneAges
  <1>9. NoThird'
    <2>1. \A p \in PEB : p # op.pnum => ~Busy(p)
      BY Zenon, <1>1 DEF Busy, HasNew
    <2>. QED  BY Zenon, <1>1, <1>2, <1>6, <1>8, <2>1, NewNoThird
  <1>10. Carries(op.pnum, op.lnum)' /\ Tidy(flash'[op.pnum])
    BY Zenon, <1>6, <1>7, <1>8 DEF Carries
  <1>. QED  BY Zenon, <1>1, <1>5, <1>7, <1>8, <1>9, <1>10, NewMap

\* recover_peb() writing the data, mapping the new PEB and putting the old one
\* keeps the invariant.
LEMMA OpRecoverDataMap ==
  ASSUME OneError \/ RecoversAtOnce', TypeInv, TypeInv', SqInv, MapInv, OpRecoverData
  PROVE  MapInv'
  <1>1. /\ up = "on" /\ wk.pc = "idle" /\ op.pc = "rdata" /\ op.pnum \in PEB /\ op \in OpState
        /\ op.lnum \in LEB /\ op.from \in PEB /\ flash[op.pnum] \in PebState
    BY Zenon DEF OpRecoverData, Running, TypeInv, TypeOK, Wf
  <1>2. Maps(op.lnum, op.from) /\ eba_tbl[op.lnum] = op.from /\ ~ro_mode
    BY Zenon, <1>1 DEF MapInv, Targets, Maps
  <1>3. /\ flash[op.pnum].vid = "ok" /\ flash[op.pnum].lnum = op.lnum /\ op.pnum # op.from
        /\ tree[op.pnum] = "prot" /\ Tidy(flash[op.pnum])
    BY Zenon, <1>1, <1>2 DEF MapInv, Mapped, HasNew, Carries, Entries, Erased
  <1>. DEFINE d == ReadFirst(flash[op.from].data, Len(op.want) - Len(op.buf)) \o op.buf
              s == WithData(flash[op.pnum], d)
              next == [op EXCEPT !.pc = "rdone"]
  <1>4. ~RecoverError(TornData(flash[op.pnum], d))
    BY Zenon, <1>1, NoRecoverError
  <1>5. /\ flash' = [flash EXCEPT ![op.pnum] = s] /\ UNCHANGED up
        /\ eba_tbl' = [eba_tbl EXCEPT ![op.lnum] = op.pnum]
        /\ PutPeb(op.from, next, next)
    BY Zenon, <1>4 DEF OpRecoverData
  <1>6. /\ Ages(flash[op.pnum], s) /\ s.vid = "ok" /\ s.lnum = op.lnum
        /\ s.bad = flash[op.pnum].bad
    BY Zenon, <1>1, <1>3, WithDataAges
  <1>7. next.pc = "rdone"
    BY Zenon, <1>1 DEF OpState
  <1>. HIDE DEF s, next
  <1>8. /\ op'.pc = "rdone"
        /\ \/ /\ tree' = [tree EXCEPT ![op.from] = "erase"] /\ wk'.pc = "erase" /\ wk'.e1 = op.from
              /\ ro_mode' = ro_mode
           \/ tree' = tree /\ wk' = wk /\ ro_mode'
    BY Zenon, <1>1, <1>5, <1>7, PutDoes
  <1>9. flash'[op.pnum] = s /\ \A p \in PEB : p # op.pnum => flash'[p] = flash[p]
    BY Zenon, <1>1, <1>5, OneAges
  <1>10. NoThird'
    BY Zenon, <1>1, <1>5, <1>6, OneAged, AgesNoThird DEF MapInv
  <1>11. \A p \in PEB : Tidy(flash'[p]) /\ (flash[p].bad => flash'[p].bad)
    BY Zenon, <1>6, <1>9 DEF MapInv, Erased, Ages
  <1>12. \A p \in PEB : tree[p] = "free" => flash'[p] = flash[p]
    BY Zenon, <1>3, <1>9
  <1>13. /\ eba_tbl'[op.lnum] = op.pnum
         /\ \A l \in LEB : l # op.lnum => eba_tbl'[l] = eba_tbl[l]
    BY Zenon, <1>1, <1>5 DEF TypeInv, TypeOK
  <1>14. ASSUME NEW l \in LEB, NEW p \in PEB, Maps(l, p)'
         PROVE  Carries(p, l)' /\ p # op.from /\ tree[p] \in Kept
    <2>1. CASE l = op.lnum
      BY Zenon, <1>3, <1>6, <1>9, <1>13, <1>14, <2>1 DEF Maps, Carries, Kept
    <2>2. CASE l # op.lnum
      <3>1. Maps(l, p)
        BY Zenon, <1>1, <1>13, <1>14, <2>2 DEF Maps
      <3>2. Carries(p, l) /\ tree[p] \in Kept
        BY Zenon, <3>1 DEF MapInv, Mapped
      <3>3. p # op.from
        BY Zenon, <1>1, <1>2, <2>2, <3>1, MapsOne
      <3>4. p # op.pnum
        BY Zenon, <1>3, <2>2, <3>2 DEF Carries
      <3>. QED  BY Zenon, <1>9, <3>2, <3>3, <3>4 DEF Carries
    <2>. QED  BY Zenon, <2>1, <2>2
  <1>15. ASSUME NEW p \in PEB, p # op.from, Found(p)
         PROVE  \/ tree[p] \in {"free", "bad"}
                \/ \E l \in LEB : Maps(l, p)'
                \/ "novid" \in Faults /\ flash'[p].vid # "ok"
    <2>1. CASE p = op.pnum
      BY Zenon, <1>1, <1>8, <1>13, <2>1 DEF Maps
    <2>2. CASE p # op.pnum
      <3>1. ASSUME NEW l \in LEB, Maps(l, p)
            PROVE  Maps(l, p)'
        BY Zenon, <1>2, <1>8, <1>13, <1>15, <3>1 DEF Maps
      <3>. QED  BY Zenon, <1>1, <1>9, <1>15, <2>2, <3>1 DEF Found, Busy, HasNew
    <2>. QED  BY Zenon, <2>1, <2>2
  <1>. QED  BY <1>1, <1>2, <1>5, <1>8, <1>10, <1>11, <1>12, <1>14, <1>15, PutMap

-----------------------------------------------------------------------------
(* The steps of the workers. *)

\* What the call in progress is doing while a worker runs.
LEMMA WorkWaits ==
  ASSUME TypeInv, SqInv, MapInv, wk.pc # "idle"
  PROVE  /\ op.pc \in {"idle", "unmapped", "remap", "retry", "rdone", "rfail"}
         /\ op.pc = "rfail" => op.pnum = None
         /\ HasNew <=> op.pc = "remap"
  BY Zenon DEF SqInv, Nested, Waits, MapInv, Targets, Entries, HasNew

\* The PEB the erase worker works on is not mapped and not the one an atomic
\* change is about to map.
LEMMA ErasedUnmapped ==
  ASSUME TypeInv, SqInv, MapInv, wk.pc \in {"erase", "ec", "bad"}
  PROVE  /\ wk.e1 \in PEB /\ tree[wk.e1] = "erase"
         /\ \A l \in LEB : ~Maps(l, wk.e1)
         /\ op.pc = "remap" => op.pnum # wk.e1
  <1>1. wk.e1 \in PEB /\ tree[wk.e1] = "erase"
    BY Zenon DEF TypeInv, Wf, MapInv, Entries
  <1>. QED  BY Zenon, <1>1 DEF MapInv, Mapped, Kept, HasNew

\* A step of the erase worker keeps the invariant.
LEMMA EraseMap ==
  ASSUME TypeInv, TypeInv', SqInv, MapInv, wk.pc \in {"erase", "ec", "bad"},
         UNCHANGED <<up, eba_tbl, op>>,
         \A p \in PEB : p # wk.e1 => flash'[p] = flash[p],
         Ages(flash[wk.e1], flash'[wk.e1]),
         \A p \in PEB : p # wk.e1 => \/ tree'[p] = tree[p]
                                     \/ tree[p] = "prot" /\ tree'[p] = "used",
         \/ /\ wk'.pc \in {"ec", "bad"} /\ wk'.e1 = wk.e1 /\ tree'[wk.e1] = "erase"
            /\ ro_mode' = ro_mode /\ (wk'.pc = "ec" => flash'[wk.e1] = Blank)
         \/ /\ wk'.pc = "ensure" /\ tree'[wk.e1] = "free" /\ flash'[wk.e1] = Formatted
            /\ ro_mode' = ro_mode
         \/ /\ wk'.pc = "idle" /\ tree'[wk.e1] = "bad" /\ flash'[wk.e1].bad
            /\ ro_mode' = ro_mode
         \/ wk'.pc = "idle" /\ tree'[wk.e1] = "gone" /\ ro_mode'
  PROVE  MapInv'
  <1>1. /\ wk.e1 \in PEB /\ tree[wk.e1] = "erase" /\ \A l \in LEB : ~Maps(l, wk.e1)
        /\ op.pc = "remap" => op.pnum # wk.e1
    BY Zenon, ErasedUnmapped
  <1>2. /\ op.pc \in {"idle", "unmapped", "remap", "retry", "rdone", "rfail"}
        /\ op.pc = "rfail" => op.pnum = None
        /\ HasNew <=> op.pc = "remap"
        /\ HasNew' <=> op.pc = "remap"
    <2>1. /\ op.pc \in {"idle", "unmapped", "remap", "retry", "rdone", "rfail"}
          /\ op.pc = "rfail" => op.pnum = None
          /\ HasNew <=> op.pc = "remap"
      BY Zenon, WorkWaits
    <2>. QED  BY Zenon, <2>1 DEF HasNew
  <1>3. \A l \in LEB, p \in PEB : Maps(l, p)' <=> Maps(l, p)
    BY Zenon DEF Maps
  <1>4. op.pc = "remap" => op.pnum \in PEB /\ op.lnum \in LEB
    BY Zenon DEF TypeInv, Wf
  <1>5. Erased'
    BY <1>1, <1>2, BlankBare DEF MapInv, Erased, Ages
  <1>6. Entries'
    BY <1>1, <1>2 DEF MapInv, Entries
  <1>7. Mapped'
    <2>1. \A l \in LEB, p \in PEB : Maps(l, p)' => Carries(p, l)' /\ tree'[p] \in Kept
      BY <1>1, <1>3 DEF MapInv, Mapped, Carries, Kept
    <2>2. HasNew' => /\ Carries(op.pnum, op.lnum)' /\ eba_tbl'[op.lnum] # op.pnum
                     /\ tree'[op.pnum] \in Kept
      BY <1>1, <1>2, <1>4 DEF MapInv, Mapped, Carries, Kept
    <2>3. op.pc = "remap" => \A p \in PEB : eba_tbl'[op.lnum] = p /\ Carries(p, op.lnum)'
                                              => tree'[p] \in {"erase", "bad", "gone"}
      BY <1>1, <1>4, BlankBare DEF MapInv, Mapped, Carries, Ages
    <2>. QED  BY Zenon, <2>1, <2>2, <2>3 DEF Mapped
  <1>8. Targets'
    BY Zenon, <1>2 DEF MapInv, Targets
  <1>9. NoneLost'
    <2>1. ASSUME NEW p \in PEB, Found(p), ~ro_mode'
          PROVE  Found(p)'
      <3>1. CASE p = wk.e1
        BY Zenon, <2>1, <3>1 DEF Found, Busy
      <3>2. CASE p # wk.e1
        BY Zenon, <1>2, <1>3, <2>1, <3>2 DEF Found, Busy
      <3>. QED  BY Zenon, <3>1, <3>2
    <2>2. ~ro_mode' => ~ro_mode
      BY Zenon DEF TypeInv, TypeOK
    <2>. QED  BY Zenon, <2>1, <2>2 DEF MapInv, NoneLost
  <1>10. NoThird'
    <2>1. \A p \in PEB : Ages(flash[p], flash'[p])
      BY Zenon, <1>1 DEF MapInv, Erased, Ages
    <2>. QED  BY Zenon, <2>1, AgesNoThird DEF MapInv
  <1>. QED  BY Zenon, <1>5, <1>6, <1>7, <1>8, <1>9, <1>10 DEF MapInv

\* A failed erasure or EC header keeps the invariant.
LEMMA EraseErrorMap ==
  ASSUME TypeInv, TypeInv', SqInv, MapInv, wk.pc \in {"erase", "ec", "bad"},
         UNCHANGED <<up, eba_tbl, op>>,
         NEW torn, \A s \in torn : Ages(flash[wk.e1], s), EraseError(torn)
  PROVE  MapInv'
  <1>1. wk.e1 \in PEB /\ tree[wk.e1] = "erase" /\ tree \in [PEB -> Trees] /\ wk \in WkState
    BY Zenon, ErasedUnmapped DEF TypeInv, TypeOK
  <1>2. UNCHANGED flash \/ \E s \in torn : flash' = [flash EXCEPT ![wk.e1] = s]
    BY Zenon DEF EraseError
  <1>3. \A p \in PEB : Ages(flash[p], flash[p])
    BY Zenon DEF MapInv, Erased, Ages
  <1>4. Ages(flash[wk.e1], flash'[wk.e1]) /\ \A p \in PEB : p # wk.e1 => flash'[p] = flash[p]
    BY <1>1, <1>2, <1>3, OneAges
  <1>5. \/ wk' = [wk EXCEPT !.pc = "bad"] /\ UNCHANGED <<tree, ro_mode>>
        \/ tree' = [tree EXCEPT ![wk.e1] = "gone"] /\ ro_mode' /\ wk' = IdleWk
    BY Zenon DEF EraseError
  <1>6. \A p \in PEB : p # wk.e1 => tree'[p] = tree[p]
    BY Zenon, <1>1, <1>5
  <1>7. \/ /\ wk'.pc = "bad" /\ wk'.e1 = wk.e1 /\ tree'[wk.e1] = "erase" /\ ro_mode' = ro_mode
        \/ wk'.pc = "idle" /\ tree'[wk.e1] = "gone" /\ ro_mode'
    BY <1>1, <1>5 DEF WkState, IdleWk
  <1>. QED  BY Zenon, <1>4, <1>6, <1>7, EraseMap

\* The steps of erase_worker() keep the invariant.
LEMMA EraseStepMap ==
  ASSUME TypeInv, TypeInv', SqInv, MapInv, WkErase \/ WkEc \/ WkBad
  PROVE  MapInv'
  <1>1. /\ wk.pc \in {"erase", "ec", "bad"} /\ UNCHANGED <<up, eba_tbl, op>>
    BY Zenon DEF WkErase, WkEc, WkBad
  <1>2. /\ wk.e1 \in PEB /\ tree[wk.e1] = "erase" /\ tree \in [PEB -> Trees] /\ wk \in WkState
        /\ IdleWk.pc = "idle"
    BY Zenon, <1>1, ErasedUnmapped DEF TypeInv, TypeOK, IdleWk
  <1>3. flash[wk.e1] \in PebState /\ Tidy(flash[wk.e1]) /\ (flash[wk.e1].vid = "ok" => flash[wk.e1].ec # "none")
    BY Zenon, <1>2 DEF TypeInv, TypeOK, MapInv, Erased, SqInv, EcKept
  <1>4. CASE WkErase
    <2>1. CASE EraseError(TornErase(flash[wk.e1]))
      <3>1. \A s \in TornErase(flash[wk.e1]) : Ages(flash[wk.e1], s)
        BY Zenon, <1>3, TornEraseAges
      <3>. QED  BY Zenon, <1>1, <2>1, <3>1, EraseErrorMap
    <2>2. CASE /\ flash' = [flash EXCEPT ![wk.e1] = Blank] /\ wk' = [wk EXCEPT !.pc = "ec"]
               /\ UNCHANGED <<tree, ro_mode, errs>>
      <3>1. flash'[wk.e1] = Blank /\ \A p \in PEB : p # wk.e1 => flash'[p] = flash[p]
        BY Zenon, <1>2, <2>2, OneAges
      <3>2. Ages(flash[wk.e1], Blank)
        BY Zenon, <1>3, MarkAges
      <3>3. wk'.pc = "ec" /\ wk'.e1 = wk.e1
        BY Zenon, <1>2, <2>2 DEF WkState
      <3>. QED  BY Zenon, <1>1, <1>2, <2>2, <3>1, <3>2, <3>3, EraseMap
    <2>. QED  BY Zenon, <1>4, <2>1, <2>2 DEF WkErase
  <1>5. CASE WkEc
    <2>1. CASE EraseError(TornEc(flash[wk.e1]))
      <3>1. \A s \in TornEc(flash[wk.e1]) : Ages(flash[wk.e1], s)
        BY Zenon, <1>3, MarkAges
      <3>. QED  BY Zenon, <1>1, <2>1, <3>1, EraseErrorMap
    <2>2. CASE ~EraseError(TornEc(flash[wk.e1]))
      <3>1. /\ flash' = [flash EXCEPT ![wk.e1].ec = "ok"] /\ UNCHANGED ro_mode
            /\ \E over \in SUBSET In("prot") :
                 tree' = [p \in PEB |-> IF p = wk.e1 THEN "free"
                                        ELSE IF p \in over THEN "used" ELSE tree[p]]
            /\ wk' = [IdleWk EXCEPT !.pc = "ensure"] /\ flash[wk.e1] = Blank
        BY Zenon, <1>5, <2>2 DEF WkEc, MapInv, Erased
      <3>2. flash' = [flash EXCEPT ![wk.e1] = Formatted]
        BY Zenon, <3>1, BlankBare
      <3>3. flash'[wk.e1] = Formatted /\ \A p \in PEB : p # wk.e1 => flash'[p] = flash[p]
        BY Zenon, <1>2, <3>2, OneAges
      <3>4. Ages(flash[wk.e1], Formatted)
        BY Zenon, <1>3, <3>1, MarkAges, BlankBare
      <3>5. /\ tree'[wk.e1] = "free"
            /\ \A p \in PEB : p # wk.e1 => \/ tree'[p] = tree[p]
                                           \/ tree[p] = "prot" /\ tree'[p] = "used"
        BY Zenon, <1>2, <3>1 DEF In
      <3>6. wk'.pc = "ensure"
        BY Zenon, <3>1 DEF IdleWk
      <3>. QED  BY Zenon, <1>1, <3>1, <3>3, <3>4, <3>5, <3>6, EraseMap
    <2>. QED  BY Zenon, <2>1, <2>2
  <1>6. CASE WkBad
    <2>1. wk'.pc = "idle"
      BY Zenon, <1>2, <1>6 DEF WkBad
    <2>2. CASE /\ flash' = [flash EXCEPT ![wk.e1].bad = TRUE] /\ UNCHANGED ro_mode
               /\ tree' = [tree EXCEPT ![wk.e1] = "bad"]
      <3>. DEFINE s == [flash[wk.e1] EXCEPT !.bad = TRUE]
      <3>1. flash' = [flash EXCEPT ![wk.e1] = s] /\ s.bad
        BY Zenon, <1>3, <2>2 DEF PebState
      <3>2. Ages(flash[wk.e1], s)
        BY Zenon, <1>3, MarkAges
      <3>. HIDE DEF s
      <3>3. flash'[wk.e1] = s /\ \A p \in PEB : p # wk.e1 => flash'[p] = flash[p]
        BY Zenon, <1>2, <3>1, OneAges
      <3>4. tree'[wk.e1] = "bad" /\ \A p \in PEB : p # wk.e1 => tree'[p] = tree[p]
        BY Zenon, <1>2, <2>2
      <3>. QED  BY Zenon, <1>1, <2>1, <2>2, <3>1, <3>2, <3>3, <3>4, EraseMap
    <2>3. CASE tree' = [tree EXCEPT ![wk.e1] = "gone"] /\ ro_mode' = TRUE /\ UNCHANGED flash
      <3>1. Ages(flash[wk.e1], flash'[wk.e1])
        BY Zenon, <1>3, <2>3 DEF Ages
      <3>2. tree'[wk.e1] = "gone" /\ \A p \in PEB : p # wk.e1 => tree'[p] = tree[p]
        BY Zenon, <1>2, <2>3
      <3>. QED  BY Zenon, <1>1, <2>1, <2>3, <3>1, <3>2, EraseMap
    <2>. QED  BY Zenon, <1>6, <2>2, <2>3 DEF WkBad
  <1>. QED  BY Zenon, <1>4, <1>5, <1>6

\* Looking for something to move keeps the invariant.
LEMMA EnsureMap ==
  ASSUME TypeInv, TypeInv', SqInv, MapInv, WkNoMove \/ WkMove
  PROVE  MapInv'
  <1>1. /\ wk.pc = "ensure" /\ UNCHANGED <<flash, up, eba_tbl, ro_mode, op>>
    BY Zenon DEF WkNoMove, WkMove
  <1>2. /\ op.pc \in {"idle", "unmapped", "remap", "retry", "rdone", "rfail"}
        /\ op.pc = "rfail" => op.pnum = None
    BY Zenon, <1>1, WorkWaits
  <1>3. CASE WkNoMove
    <2>1. wk'.pc = "idle" /\ UNCHANGED tree
      BY Zenon, <1>3 DEF WkNoMove, IdleWk
    <2>2. Erased' /\ Entries' /\ Targets' /\ NoThird'
      BY <1>1, <1>2, <2>1 DEF MapInv, Erased, Entries, Targets, NoThird, Live
    <2>3. Mapped'
      BY <1>1, <1>2, <2>1 DEF MapInv, Mapped, HasNew, Maps, Carries
    <2>4. NoneLost'
      BY <1>1, <1>2, <2>1 DEF MapInv, NoneLost, Found, Busy, HasNew, Maps
    <2>. QED  BY Zenon, <2>2, <2>3, <2>4 DEF MapInv
  <1>4. CASE WkMove
    <2>1. PICK e1 \in In("scrub") \cup In("used"), e2 \in In("free") :
            /\ tree' = [tree EXCEPT ![e1] = "move", ![e2] = "move"]
            /\ wk' = [IdleWk EXCEPT !.pc = "mread", !.e1 = e1, !.e2 = e2,
                                    !.scrub = (In("scrub") # {})]
      BY Zenon, <1>4 DEF WkMove
    <2>2. /\ e1 \in PEB /\ e2 \in PEB /\ e1 # e2 /\ tree[e1] \in {"scrub", "used"} /\ tree[e2] = "free"
          /\ wk'.pc = "mread" /\ wk'.e1 = e1 /\ wk'.e2 = e2
      BY Zenon, <2>1 DEF In, IdleWk
    <2>3. tree'[e1] = "move" /\ tree'[e2] = "move" /\ \A p \in PEB : p \notin {e1, e2} => tree'[p] = tree[p]
      BY Zenon, <2>1, <2>2 DEF TypeInv, TypeOK
    <2>4. flash[e2] = Formatted
      BY Zenon, <2>2 DEF MapInv, Erased
    <2>5. Erased' /\ Targets' /\ NoThird'
      BY <1>1, <1>2, <2>2, <2>3, <2>4 DEF MapInv, Erased, Targets, NoThird, Live
    <2>6. Entries'
      <3>1. up = "on"
        BY Zenon, <1>4 DEF WkMove
      <3>. QED  BY Zenon, <1>1, <1>2, <2>2, <2>3, <3>1 DEF MapInv, Entries
    <2>7. Mapped'
      <3>1. \A l \in LEB, p \in PEB : Maps(l, p)' => Carries(p, l)' /\ tree'[p] \in Kept
        BY <1>1, <2>2, <2>3 DEF MapInv, Mapped, Carries, Kept, Maps
      <3>2. op.pc = "remap" => op.pnum \in PEB /\ op.lnum \in LEB
        BY Zenon DEF TypeInv, Wf
      <3>3. HasNew' => /\ Carries(op.pnum, op.lnum)' /\ eba_tbl'[op.lnum] # op.pnum
                       /\ tree'[op.pnum] \in Kept
        BY <1>1, <1>2, <2>2, <2>3, <3>2 DEF MapInv, Mapped, Carries, Kept, HasNew
      <3>4. op.pc = "remap" => \A p \in PEB : eba_tbl'[op.lnum] = p /\ Carries(p, op.lnum)'
                                                => tree'[p] \in {"erase", "bad", "gone"}
        BY <1>1, <2>2, <2>3, <2>4, BlankBare DEF MapInv, Mapped, Carries
      <3>. QED  BY ZenonT(30), <1>1, <2>2, <3>1, <3>3, <3>4 DEF Mapped
    <2>8. NoneLost'
      <3>1. ASSUME NEW p \in PEB, Found(p)
            PROVE  Found(p)'
        <4>1. \A l \in LEB : Maps(l, p)' <=> Maps(l, p)
          BY Zenon, <1>1 DEF Maps
        <4>2. up # "init"
          BY Zenon, <1>4 DEF WkMove
        <4>3. p = e2 => Busy(p)'
          BY Zenon, <2>2 DEF Busy
        <4>4. p # e2 => (tree[p] \in {"free", "bad"} => tree'[p] \in {"free", "bad"})
          BY Zenon, <2>2, <2>3
        <4>5. p # e2 /\ Busy(p) => Busy(p)'
          BY Zenon, <1>1, <4>2 DEF Busy, HasNew
        <4>. QED  BY Zenon, <1>1, <3>1, <4>1, <4>3, <4>4, <4>5 DEF Found
      <3>. QED  BY Zenon, <1>1, <3>1 DEF MapInv, NoneLost
    <2>. QED  BY Zenon, <2>5, <2>6, <2>7, <2>8 DEF MapInv
  <1>. QED  BY Zenon, <1>3, <1>4

\* The target of a move is not mapped and not the PEB an atomic change is about
\* to map; what that change has put is not moved.
LEMMA TargetUnmapped ==
  ASSUME TypeInv, SqInv, MapInv, wk.pc \in {"mread", "mvid", "mdata"}
  PROVE  /\ wk.e1 \in PEB /\ wk.e2 \in PEB /\ wk.e1 # wk.e2
         /\ tree[wk.e1] = "move" /\ tree[wk.e2] = "move"
         /\ \A l \in LEB : ~Maps(l, wk.e2)
         /\ op.pc = "remap" => op.pnum # wk.e2
         /\ op.pc = "remap" => ~Carries(wk.e2, op.lnum)
  <1>1. /\ wk.e1 \in PEB /\ wk.e2 \in PEB /\ wk.e1 # wk.e2
        /\ tree[wk.e1] = "move" /\ tree[wk.e2] = "move"
    BY Zenon DEF TypeInv, Wf, MapInv, Entries
  <1>2. CASE wk.pc \in {"mread", "mvid"}
    <2>1. flash[wk.e2].vid # "ok"
      BY Zenon, <1>2, BlankBare DEF MapInv, Erased
    <2>. QED  BY Zenon, <1>1, <2>1 DEF MapInv, Mapped, Carries, HasNew
  <1>3. CASE wk.pc = "mdata"
    <2>. DEFINE k == flash[wk.e1].lnum
    <2>1. k \in LEB /\ Maps(k, wk.e1) /\ Carries(wk.e2, k)
      BY Zenon, <1>3 DEF MapInv, Mapped
    <2>2. \A l \in LEB : Maps(l, wk.e2) => l = k
      BY Zenon, <1>1, <2>1 DEF MapInv, Mapped, Carries
    <2>3. \A l \in LEB : ~Maps(l, wk.e2)
      BY Zenon, <1>1, <2>1, <2>2 DEF Maps
    <2>4. op.pc = "remap" => op.lnum # k
      BY Zenon, <2>1 DEF Maps
    <2>. QED  BY <1>1, <2>1, <2>3, <2>4 DEF MapInv, Mapped, Carries, HasNew
  <1>. QED  BY Zenon, <1>2, <1>3

\* How a move ends.
MoveEnds ==
  \/ /\ UNCHANGED <<eba_tbl, ro_mode>> /\ tree'[wk.e1] \in {"scrub", "used"}
     /\ tree'[wk.e2] = "erase" /\ wk'.pc = "erase" /\ wk'.e1 = wk.e2
  \/ /\ UNCHANGED eba_tbl /\ ro_mode' /\ tree'[wk.e1] = "gone" /\ tree'[wk.e2] = "gone"
     /\ wk'.pc = "idle"
  \/ /\ UNCHANGED <<eba_tbl, ro_mode>> /\ tree'[wk.e1] = "prot" /\ tree'[wk.e2] = "used"
     /\ wk'.pc = "idle" /\ "novid" \in Faults /\ flash'[wk.e2].vid # "ok"
  \/ /\ eba_tbl' = [eba_tbl EXCEPT ![flash[wk.e1].lnum] = wk.e2] /\ UNCHANGED ro_mode
     /\ wk.pc \in {"mvid", "mdata"}
     /\ flash'[wk.e2].vid = "ok" /\ flash'[wk.e2].lnum = flash[wk.e1].lnum
     /\ tree'[wk.e1] = "erase" /\ tree'[wk.e2] = "used" /\ wk'.pc = "erase" /\ wk'.e1 = wk.e1

\* A move that ends keeps the invariant.
LEMMA MoveEndMap ==
  ASSUME TypeInv, TypeInv', SqInv, MapInv, wk.pc \in {"mread", "mvid", "mdata"},
         UNCHANGED <<up, op>>, MoveEnds,
         \A p \in PEB : p # wk.e2 => flash'[p] = flash[p],
         \A p \in PEB : p \notin {wk.e1, wk.e2} => tree'[p] = tree[p],
         Tidy(flash'[wk.e2]), NoThird'
  PROVE  MapInv'
  <1>1. /\ wk.e1 \in PEB /\ wk.e2 \in PEB /\ wk.e1 # wk.e2
        /\ tree[wk.e1] = "move" /\ tree[wk.e2] = "move"
        /\ \A l \in LEB : ~Maps(l, wk.e2)
        /\ op.pc = "remap" => op.pnum # wk.e2
        /\ op.pc = "remap" => ~Carries(wk.e2, op.lnum)
    BY Zenon, TargetUnmapped
  <1>2. /\ op.pc \in {"idle", "unmapped", "remap", "retry", "rdone", "rfail"}
        /\ op.pc = "rfail" => op.pnum = None
        /\ HasNew <=> op.pc = "remap"
        /\ HasNew' <=> op.pc = "remap"
    <2>1. /\ op.pc \in {"idle", "unmapped", "remap", "retry", "rdone", "rfail"}
          /\ op.pc = "rfail" => op.pnum = None
          /\ HasNew <=> op.pc = "remap"
      BY Zenon, WorkWaits
    <2>. QED  BY Zenon, <2>1 DEF HasNew
  <1>3. op.pc = "remap" => op.pnum \in PEB /\ op.lnum \in LEB
    BY Zenon DEF TypeInv, Wf
  <1>4. Erased'
    BY <1>1, <1>2 DEF MapInv, Erased, MoveEnds
  <1>5. Entries'
    BY <1>1, <1>2 DEF MapInv, Entries, MoveEnds
  <1>6. op.pc = "remap" => \A p \in PEB : eba_tbl[op.lnum] = p /\ Carries(p, op.lnum)
                                            => p \notin {wk.e1, wk.e2}
    BY Zenon, <1>1 DEF MapInv, Mapped
  <1>7. CASE UNCHANGED eba_tbl
    <2>0. \/ /\ UNCHANGED ro_mode /\ tree'[wk.e1] \in {"scrub", "used"} /\ tree'[wk.e2] = "erase"
             /\ wk'.pc = "erase" /\ wk'.e1 = wk.e2
          \/ ro_mode' /\ tree'[wk.e1] = "gone" /\ tree'[wk.e2] = "gone" /\ wk'.pc = "idle"
          \/ /\ UNCHANGED ro_mode /\ tree'[wk.e1] = "prot" /\ tree'[wk.e2] = "used"
             /\ wk'.pc = "idle" /\ "novid" \in Faults /\ flash'[wk.e2].vid # "ok"
      <3>1. ASSUME wk.pc \in {"mvid", "mdata"}, eba_tbl' = [eba_tbl EXCEPT ![flash[wk.e1].lnum] = wk.e2]
            PROVE  FALSE
        <4>1. flash[wk.e1].lnum \in LEB /\ eba_tbl[flash[wk.e1].lnum] = wk.e1
          BY Zenon, <3>1 DEF MapInv, Mapped, Maps
        <4>2. eba_tbl'[flash[wk.e1].lnum] = wk.e2
          BY Zenon, <3>1, <4>1 DEF TypeInv, TypeOK
        <4>. QED  BY Zenon, <1>1, <1>7, <4>1, <4>2
      <3>. QED  BY Zenon, <1>7, <3>1 DEF MoveEnds
    <2>1. \A l \in LEB, p \in PEB : Maps(l, p)' <=> Maps(l, p)
      BY Zenon, <1>7 DEF Maps
    <2>2. \A l \in LEB, p \in PEB : Maps(l, p)' => Carries(p, l)' /\ tree'[p] \in Kept
      <3>. SUFFICES ASSUME NEW l \in LEB, NEW p \in PEB, Maps(l, p)
                    PROVE  Carries(p, l)' /\ tree'[p] \in Kept
        BY Zenon, <2>1
      <3>1. p # wk.e2 /\ Carries(p, l) /\ tree[p] \in Kept
        BY Zenon, <1>1 DEF MapInv, Mapped
      <3>2. tree'[p] \in Kept
        BY Zenon, <1>1, <2>0, <3>1 DEF Kept
      <3>. QED  BY Zenon, <3>1, <3>2 DEF Carries
    <2>3. HasNew' => /\ Carries(op.pnum, op.lnum)' /\ eba_tbl'[op.lnum] # op.pnum
                     /\ tree'[op.pnum] \in Kept
      <3>. SUFFICES ASSUME op.pc = "remap"
                    PROVE  /\ Carries(op.pnum, op.lnum)' /\ eba_tbl'[op.lnum] # op.pnum
                           /\ tree'[op.pnum] \in Kept
        BY Zenon, <1>2
      <3>1. /\ Carries(op.pnum, op.lnum) /\ eba_tbl[op.lnum] # op.pnum /\ tree[op.pnum] \in Kept
            /\ op.pnum # wk.e2
        BY Zenon, <1>1, <1>2 DEF MapInv, Mapped
      <3>2. tree'[op.pnum] \in Kept
        BY Zenon, <1>1, <1>3, <2>0, <3>1 DEF Kept
      <3>. QED  BY Zenon, <1>3, <1>7, <3>1, <3>2 DEF Carries
    <2>4. op.pc = "remap" => \A p \in PEB : eba_tbl'[op.lnum] = p /\ Carries(p, op.lnum)'
                                              => tree'[p] \in {"erase", "bad", "gone"}
      <3>. SUFFICES ASSUME op.pc = "remap", NEW p \in PEB, eba_tbl[op.lnum] = p,
                           flash'[p].vid = "ok", flash'[p].lnum = op.lnum
                    PROVE  tree'[p] \in {"erase", "bad", "gone"}
        BY Zenon, <1>7 DEF Carries
      <3>1. CASE p = wk.e2
        BY Zenon, <2>0, <3>1
      <3>2. CASE p # wk.e2
        <4>1. Carries(p, op.lnum)
          BY Zenon, <3>2 DEF Carries
        <4>2. tree[p] \in {"erase", "bad", "gone"} /\ p \notin {wk.e1, wk.e2}
          BY Zenon, <1>6, <4>1 DEF MapInv, Mapped
        <4>. QED  BY Zenon, <4>2
      <3>. QED  BY Zenon, <3>1, <3>2
    <2>5. Mapped'
      BY Zenon, <2>0, <2>2, <2>3, <2>4 DEF Mapped
    <2>6. Targets'
      BY Zenon, <1>2, <1>7 DEF MapInv, Targets
    <2>7. NoneLost'
      <3>1. ASSUME NEW p \in PEB, Found(p), ~ro_mode'
            PROVE  Found(p)'
        <4>1. CASE p = wk.e2
          BY Zenon, <2>0, <3>1, <4>1 DEF Found, Busy
        <4>2. CASE p # wk.e2
          <5>1. Busy(p) => Busy(p)'
            BY Zenon, <1>1, <1>2, <4>2 DEF Busy
          <5>2. tree[p] \in {"free", "bad"} => tree'[p] \in {"free", "bad"}
            BY Zenon, <1>1, <4>2
          <5>. QED  BY Zenon, <2>1, <3>1, <4>2, <5>1, <5>2 DEF Found
        <4>. QED  BY Zenon, <4>1, <4>2
      <3>2. ~ro_mode' => ~ro_mode
        BY Zenon, <2>0
      <3>. QED  BY Zenon, <3>1, <3>2 DEF MapInv, NoneLost
    <2>. QED  BY Zenon, <1>4, <1>5, <2>5, <2>6, <2>7 DEF MapInv
  <1>8. CASE ~UNCHANGED eba_tbl
    <2>0. wk.pc \in {"mvid", "mdata"}
      BY Zenon, <1>8 DEF MoveEnds
    <2>. PICK k \in LEB : k = flash[wk.e1].lnum
      BY Zenon, <2>0 DEF MapInv, Mapped
    <2>1. /\ eba_tbl' = [eba_tbl EXCEPT ![k] = wk.e2] /\ UNCHANGED ro_mode
          /\ wk.pc \in {"mvid", "mdata"} /\ flash'[wk.e2].vid = "ok" /\ flash'[wk.e2].lnum = k
          /\ tree'[wk.e1] = "erase" /\ tree'[wk.e2] = "used" /\ wk'.pc = "erase" /\ wk'.e1 = wk.e1
      BY Zenon, <1>8 DEF MoveEnds
    <2>2. k \in LEB /\ Maps(k, wk.e1) /\ Carries(wk.e1, k)
      BY Zenon, <2>1 DEF MapInv, Mapped, Carries
    <2>3. eba_tbl'[k] = wk.e2 /\ \A l \in LEB : l # k => eba_tbl'[l] = eba_tbl[l]
      BY Zenon, <2>1, <2>2 DEF TypeInv, TypeOK
    <2>4. op.pc = "remap" => op.lnum # k
      BY Zenon, <2>2 DEF Maps
    <2>5. \A l \in LEB, p \in PEB : Maps(l, p)' => Carries(p, l)' /\ tree'[p] \in Kept
      <3>. SUFFICES ASSUME NEW l \in LEB, NEW p \in PEB, Maps(l, p)'
                    PROVE  Carries(p, l)' /\ tree'[p] \in Kept
        BY Zenon
      <3>1. CASE l = k
        BY <2>1, <2>3, <3>1 DEF Maps, Carries, Kept
      <3>2. CASE l # k
        <4>1. Maps(l, p)
          BY Zenon, <2>3, <3>2 DEF Maps
        <4>2. Carries(p, l) /\ tree[p] \in Kept
          BY Zenon, <4>1 DEF MapInv, Mapped
        <4>3. p # wk.e2 /\ p # wk.e1
          BY Zenon, <1>1, <2>2, <3>2, <4>1, <4>2 DEF Carries
        <4>. QED  BY Zenon, <4>2, <4>3 DEF Carries
      <3>. QED  BY Zenon, <3>1, <3>2
    <2>6. HasNew' => /\ Carries(op.pnum, op.lnum)' /\ eba_tbl'[op.lnum] # op.pnum
                     /\ tree'[op.pnum] \in Kept
      <3>. SUFFICES ASSUME op.pc = "remap"
                    PROVE  /\ Carries(op.pnum, op.lnum)' /\ eba_tbl'[op.lnum] # op.pnum
                           /\ tree'[op.pnum] \in Kept
        BY Zenon, <1>2
      <3>1. /\ Carries(op.pnum, op.lnum) /\ eba_tbl[op.lnum] # op.pnum /\ tree[op.pnum] \in Kept
            /\ op.pnum # wk.e2
        BY Zenon, <1>1, <1>2 DEF MapInv, Mapped
      <3>2. op.pnum # wk.e1
        BY Zenon, <2>2, <2>4, <3>1 DEF Carries
      <3>. QED  BY Zenon, <1>3, <2>3, <2>4, <3>1, <3>2 DEF Carries
    <2>7. op.pc = "remap" => \A p \in PEB : eba_tbl'[op.lnum] = p /\ Carries(p, op.lnum)'
                                              => tree'[p] \in {"erase", "bad", "gone"}
      <3>. SUFFICES ASSUME op.pc = "remap", NEW p \in PEB, eba_tbl'[op.lnum] = p,
                           flash'[p].vid = "ok", flash'[p].lnum = op.lnum
                    PROVE  tree'[p] \in {"erase", "bad", "gone"}
        BY Zenon DEF Carries
      <3>1. p # wk.e2
        BY <2>1, <2>4
      <3>2. Carries(p, op.lnum) /\ eba_tbl[op.lnum] = p
        BY Zenon, <1>3, <2>3, <2>4, <3>1 DEF Carries
      <3>3. tree[p] \in {"erase", "bad", "gone"} /\ p \notin {wk.e1, wk.e2}
        BY ZenonT(30), <1>6, <3>2 DEF MapInv, Mapped
      <3>. QED  BY Zenon, <3>3
    <2>8. Mapped'
      BY <2>1, <2>5, <2>6, <2>7 DEF Mapped
    <2>9. Targets'
      <3>1. op.pc \in {"unmapped", "retry"} => op.lnum \in LEB
        BY Zenon DEF TypeInv, Wf
      <3>2. eba_tbl[k] # None
        BY <1>1, <2>2, MediaAssumption DEF Maps
      <3>. QED  BY Zenon, <1>2, <2>3, <3>1, <3>2 DEF MapInv, Targets
    <2>10. NoneLost'
      <3>1. ASSUME NEW p \in PEB, Found(p)
            PROVE  Found(p)'
        <4>1. CASE p = wk.e2
          <5>1. Maps(k, p)'
            BY Zenon, <2>3, <2>4, <4>1 DEF Maps
          <5>. QED  BY Zenon, <2>2, <5>1 DEF Found
        <4>2. CASE p = wk.e1
          BY Zenon, <2>1, <4>2 DEF Found, Busy
        <4>3. CASE p \notin {wk.e1, wk.e2}
          <5>1. Busy(p) => Busy(p)'
            BY Zenon, <1>1, <1>2, <4>3 DEF Busy
          <5>2. \A l \in LEB : Maps(l, p) => Maps(l, p)'
            BY Zenon, <2>2, <2>3, <4>3 DEF Maps
          <5>. QED  BY Zenon, <3>1, <4>3, <5>1, <5>2 DEF Found
        <4>. QED  BY Zenon, <4>1, <4>2, <4>3
      <3>. QED  BY Zenon, <2>1, <3>1 DEF MapInv, NoneLost
    <2>. QED  BY Zenon, <1>4, <1>5, <2>8, <2>9, <2>10 DEF MapInv
  <1>. QED  BY Zenon, <1>7, <1>8

\* What the ends of wear_leveling_worker() do to the two PEBs.
LEMMA MoveEndTrees ==
  ASSUME TypeInv, wk.e1 \in PEB, wk.e2 \in PEB, wk.e1 # wk.e2
  PROVE  /\ NotMoved \/ MoveError \/ MoveCancelled \/ MoveDone
              => \A p \in PEB : p \notin {wk.e1, wk.e2} => tree'[p] = tree[p]
         /\ NotMoved => /\ UNCHANGED <<eba_tbl, ro_mode>> /\ tree'[wk.e1] \in {"scrub", "used"}
                        /\ tree'[wk.e2] = "erase" /\ wk'.pc = "erase" /\ wk'.e1 = wk.e2
         /\ MoveError => /\ UNCHANGED eba_tbl /\ ro_mode' /\ tree'[wk.e1] = "gone"
                         /\ tree'[wk.e2] = "gone" /\ wk'.pc = "idle"
         /\ MoveCancelled => /\ UNCHANGED <<eba_tbl, ro_mode>> /\ tree'[wk.e1] = "prot"
                             /\ tree'[wk.e2] = "used" /\ wk'.pc = "idle"
         /\ MoveDone => /\ UNCHANGED ro_mode /\ tree'[wk.e1] = "erase" /\ tree'[wk.e2] = "used"
                        /\ wk'.pc = "erase" /\ wk'.e1 = wk.e1
  <1>1. tree \in [PEB -> Trees] /\ IdleWk.pc = "idle"
    BY Zenon DEF TypeInv, TypeOK, IdleWk
  <1>2. NotMoved => \A p \in PEB : p \notin {wk.e1, wk.e2} => tree'[p] = tree[p]
    BY Zenon, <1>1 DEF NotMoved
  <1>3. MoveError => \A p \in PEB : p \notin {wk.e1, wk.e2} => tree'[p] = tree[p]
    BY Zenon, <1>1 DEF MoveError
  <1>4. MoveCancelled => \A p \in PEB : p \notin {wk.e1, wk.e2} => tree'[p] = tree[p]
    BY Zenon, <1>1 DEF MoveCancelled
  <1>5. MoveDone => \A p \in PEB : p \notin {wk.e1, wk.e2} => tree'[p] = tree[p]
    BY Zenon, <1>1 DEF MoveDone
  <1>6. NotMoved => /\ UNCHANGED <<eba_tbl, ro_mode>> /\ tree'[wk.e1] \in {"scrub", "used"}
                    /\ tree'[wk.e2] = "erase" /\ wk'.pc = "erase" /\ wk'.e1 = wk.e2
    BY Zenon, <1>1 DEF NotMoved, IdleWk
  <1>7. MoveError => /\ UNCHANGED eba_tbl /\ ro_mode' /\ tree'[wk.e1] = "gone"
                     /\ tree'[wk.e2] = "gone" /\ wk'.pc = "idle"
    BY Zenon, <1>1 DEF MoveError
  <1>8. MoveCancelled => /\ UNCHANGED <<eba_tbl, ro_mode>> /\ tree'[wk.e1] = "prot"
                         /\ tree'[wk.e2] = "used" /\ wk'.pc = "idle"
    BY Zenon, <1>1 DEF MoveCancelled
  <1>9. MoveDone => /\ UNCHANGED ro_mode /\ tree'[wk.e1] = "erase" /\ tree'[wk.e2] = "used"
                    /\ wk'.pc = "erase" /\ wk'.e1 = wk.e1
    BY Zenon, <1>1 DEF MoveDone, IdleWk
  <1>. QED  BY Zenon, <1>2, <1>3, <1>4, <1>5, <1>6, <1>7, <1>8, <1>9

\* A move that goes on keeps the invariant.
LEMMA MoveOnMap ==
  ASSUME TypeInv, TypeInv', SqInv, MapInv, UNCHANGED <<up, op, eba_tbl, tree, ro_mode>>,
         \/ wk.pc = "mread" /\ wk'.pc = "mvid" /\ UNCHANGED flash
         \/ wk.pc = "mvid" /\ wk'.pc = "mdata",
         wk'.e1 = wk.e1, wk'.e2 = wk.e2,
         flash[wk.e1].vid = "ok", flash[wk.e1].lnum \in LEB, Maps(flash[wk.e1].lnum, wk.e1),
         \A p \in PEB : p # wk.e2 => flash'[p] = flash[p],
         Tidy(flash'[wk.e2]), NoThird',
         wk'.pc = "mdata" => flash'[wk.e2].vid = "ok" /\ flash'[wk.e2].lnum = flash[wk.e1].lnum
  PROVE  MapInv'
  <1>1. /\ wk.e1 \in PEB /\ wk.e2 \in PEB /\ wk.e1 # wk.e2
        /\ tree[wk.e1] = "move" /\ tree[wk.e2] = "move"
        /\ \A l \in LEB : ~Maps(l, wk.e2)
        /\ op.pc = "remap" => op.pnum # wk.e2
        /\ op.pc = "remap" => ~Carries(wk.e2, op.lnum)
    BY Zenon, TargetUnmapped
  <1>2. /\ op.pc \in {"idle", "unmapped", "remap", "retry", "rdone", "rfail"}
        /\ op.pc = "rfail" => op.pnum = None
        /\ HasNew <=> op.pc = "remap"
        /\ HasNew' <=> op.pc = "remap"
    <2>1. /\ op.pc \in {"idle", "unmapped", "remap", "retry", "rdone", "rfail"}
          /\ op.pc = "rfail" => op.pnum = None
          /\ HasNew <=> op.pc = "remap"
      BY Zenon, WorkWaits
    <2>. QED  BY Zenon, <2>1 DEF HasNew
  <1>3. op.pc = "remap" => op.pnum \in PEB /\ op.lnum \in LEB
    BY Zenon DEF TypeInv, Wf
  <1>4. \A l \in LEB, p \in PEB : Maps(l, p)' <=> Maps(l, p)
    BY Zenon DEF Maps
  <1>5. PICK k \in LEB : k = flash[wk.e1].lnum
    BY Zenon
  <1>6. Erased'
    BY Zenon, <1>1, <1>2 DEF MapInv, Erased
  <1>7. Entries'
    <2>1. \A p \in PEB : tree'[p] = "bad" => flash'[p].bad
      BY Zenon, <1>1 DEF MapInv, Entries
    <2>2. up = "on"
      BY Zenon DEF MapInv, Entries
    <2>. QED  BY Zenon, <1>1, <1>2, <2>1, <2>2 DEF Entries
  <1>8. Mapped'
    <2>1. \A l \in LEB, p \in PEB : Maps(l, p)' => Carries(p, l)' /\ tree'[p] \in Kept
      BY <1>1, <1>4 DEF MapInv, Mapped, Carries
    <2>2. HasNew' => /\ Carries(op.pnum, op.lnum)' /\ eba_tbl'[op.lnum] # op.pnum
                     /\ tree'[op.pnum] \in Kept
      BY Zenon, <1>1, <1>2, <1>3 DEF MapInv, Mapped, Carries
    <2>3. op.pc = "remap" => \A p \in PEB : eba_tbl'[op.lnum] = p /\ Carries(p, op.lnum)'
                                              => tree'[p] \in {"erase", "bad", "gone"}
      <3>. SUFFICES ASSUME op.pc = "remap", NEW p \in PEB, eba_tbl[op.lnum] = p,
                           flash'[p].vid = "ok", flash'[p].lnum = op.lnum
                    PROVE  tree[p] \in {"erase", "bad", "gone"}
        BY Zenon DEF Carries
      <3>1. k # op.lnum
        BY Zenon, <1>5 DEF Maps
      <3>2. CASE p = wk.e2
        BY ZenonT(30), <1>1, <1>5, <3>1, <3>2 DEF Carries
      <3>3. CASE p # wk.e2
        BY <3>3 DEF MapInv, Mapped, Carries
      <3>. QED  BY Zenon, <3>2, <3>3
    <2>4. flash'[wk.e1] = flash[wk.e1] /\ Maps(k, wk.e1)'
      BY Zenon, <1>1, <1>4, <1>5
    <2>5. wk'.pc \in {"mvid", "mdata"} => /\ flash'[wk'.e1].vid = "ok" /\ flash'[wk'.e1].lnum \in LEB
                                          /\ Maps(flash[wk.e1].lnum, wk.e1)'
      BY Zenon, <1>5, <2>4 DEF Maps
    <2>6. wk'.pc = "mdata" => Carries(wk.e2, flash[wk.e1].lnum)'
      BY Zenon, <2>4 DEF Carries
    <2>. QED  BY ZenonT(30), <2>1, <2>2, <2>3, <2>5, <2>6 DEF Mapped
  <1>9. Targets'
    BY Zenon, <1>2 DEF MapInv, Targets
  <1>10. NoneLost'
    <2>1. ASSUME NEW p \in PEB, Found(p)
          PROVE  Found(p)'
      <3>1. Busy(p) => Busy(p)'
        BY Zenon, <1>2 DEF Busy
      <3>2. p = wk.e2 => Busy(p)'
        BY Zenon DEF Busy
      <3>. QED  BY Zenon, <1>4, <2>1, <3>1, <3>2 DEF Found
    <2>. QED  BY Zenon, <2>1 DEF MapInv, NoneLost
  <1>. QED  BY Zenon, <1>6, <1>7, <1>8, <1>9, <1>10 DEF MapInv

\* Reading what is to be moved keeps the invariant.
LEMMA WkReadMap ==
  ASSUME TypeInv, TypeInv', SqInv, MapInv, WkRead
  PROVE  MapInv'
  <1>1. wk.pc = "mread" /\ UNCHANGED <<flash, up, op>> /\ wk \in WkState
    BY Zenon DEF WkRead, TypeInv, TypeOK
  <1>2. /\ wk.e1 \in PEB /\ wk.e2 \in PEB /\ wk.e1 # wk.e2 /\ tree[wk.e1] = "move"
    BY ZenonT(30), <1>1, TargetUnmapped
  <1>3. NoThird' /\ Tidy(flash'[wk.e2])
    BY <1>1, <1>2 DEF MapInv, NoThird, Live, Erased
  <1>4. CASE NotMoved \/ MoveError
    <2>1. MoveEnds /\ \A p \in PEB : p \notin {wk.e1, wk.e2} => tree'[p] = tree[p]
      BY Zenon, <1>2, <1>4, MoveEndTrees DEF MoveEnds
    <2>. QED  BY Zenon, <1>1, <1>3, <2>1, MoveEndMap
  <1>5. CASE /\ flash[wk.e1].vid = "ok" /\ eba_tbl[flash[wk.e1].lnum] = wk.e1
             /\ wk' = [wk EXCEPT !.pc = "mvid", !.sqnum = global_sqnum]
             /\ UNCHANGED <<tree, eba_tbl, ro_mode, errs>>
    <2>1. flash[wk.e1].lnum \in LEB
      BY Zenon, <1>2, <1>5 DEF MapInv, Erased, Tidy
    <2>2. Maps(flash[wk.e1].lnum, wk.e1)
      BY <1>2, <1>5 DEF Maps, MapInv, Mapped, Carries
    <2>3. wk'.pc = "mvid" /\ wk'.e1 = wk.e1 /\ wk'.e2 = wk.e2
      BY Zenon, <1>1, <1>5 DEF WkState
    <2>. QED  BY Zenon, <1>1, <1>3, <1>5, <2>1, <2>2, <2>3, MoveOnMap
  <1>. QED  BY Zenon, <1>4, <1>5 DEF WkRead

\* Writing the VID header of the target keeps the invariant.
LEMMA WkVidMap ==
  ASSUME TypeInv, TypeInv', SqInv, MapInv, WkVid
  PROVE  MapInv'
  <1>. DEFINE r == flash[wk.e1]
              good == WithVid(flash[wk.e2], r.lnum, wk.sqnum, r.data # << >> \/ r.copy_flag,
                              IF r.data # << >> THEN r.data ELSE r.data_crc)
  <1>1. wk.pc = "mvid" /\ UNCHANGED <<up, op>> /\ wk \in WkState
    BY Zenon DEF WkVid, TypeInv, TypeOK
  <1>2. /\ wk.e1 \in PEB /\ wk.e2 \in PEB /\ wk.e1 # wk.e2 /\ up = "on"
        /\ flash[wk.e2] = Formatted /\ flash[wk.e2] \in PebState
        /\ flash[wk.e1].vid = "ok" /\ flash[wk.e1].lnum \in LEB /\ Maps(flash[wk.e1].lnum, wk.e1)
    BY ZenonT(30), <1>1, TargetUnmapped DEF MapInv, Erased, Entries, Mapped, TypeInv, TypeOK
  <1>0. ASSUME NEW s, flash' = [flash EXCEPT ![wk.e2] = s]
        PROVE  flash'[wk.e2] = s /\ \A p \in PEB : p # wk.e2 => flash'[p] = flash[p]
    <2>1. wk.e2 \in PEB
      BY ZenonT(30), <1>2
    <2>. QED  BY Zenon, <1>0, <2>1, OneAges
  <1>3. Tidy(good) /\ good.vid = "ok" /\ good.lnum = flash[wk.e1].lnum
    BY <1>2, WithVidCarries
  <1>4. \A s \in TornVid(flash[wk.e2]) : Ages(flash[wk.e2], s) /\ s.vid # "ok"
    <2>1. Tidy(flash[wk.e2]) /\ flash[wk.e2].vid = "none"
      BY Zenon, <1>2, BlankBare
    <2>. QED  BY Zenon, <1>2, <2>1, TornVidAges DEF Ages
  <1>5. ~ro_mode /\ flash' = [flash EXCEPT ![wk.e2] = good] => NoThird'
    <2>. SUFFICES ASSUME ~ro_mode, flash' = [flash EXCEPT ![wk.e2] = good]
                  PROVE  NoThird'
      BY Zenon
    <2>. HIDE DEF good
    <2>1. flash'[wk.e2] = good /\ \A p \in PEB : p # wk.e2 => flash'[p] = flash[p]
      BY Zenon, <1>2, OneAges
    <2>2. ASSUME NEW p \in PEB, p # wk.e2, Busy(p), Live(flash[p])
          PROVE  flash[p].lnum # flash[wk.e1].lnum
      <3>1. op.pc = "remap" /\ p = op.pnum
        BY Zenon, <1>1, <1>2, <2>2, WorkWaits DEF Busy
      <3>2. flash[p].lnum = op.lnum
        BY Zenon, <3>1 DEF MapInv, Mapped, HasNew, Carries
      <3>. QED  BY Zenon, <1>2, <3>1, <3>2 DEF Maps
    <2>. QED  BY <1>2, <1>3, <2>1, <2>2, NewNoThird
  <1>6. \A s \in TornVid(flash[wk.e2]) : flash' = [flash EXCEPT ![wk.e2] = s] => NoThird'
    BY Zenon, <1>2, <1>4, OneAged, AgesNoThird DEF MapInv
  <1>7. UNCHANGED flash => NoThird'
    BY DEF MapInv, NoThird, Live
  <1>8. \A s \in TornVid(flash[wk.e2]) \cup {good} : Tidy(s)
    BY Zenon, <1>3, <1>4 DEF Ages
  <1>9. \/ UNCHANGED flash
        \/ \E s \in TornVid(flash[wk.e2]) \cup {good} : flash' = [flash EXCEPT ![wk.e2] = s]
    BY Zenon DEF WkVid, CopyError
  <1>10. NoThird'
    <2>1. flash' = [flash EXCEPT ![wk.e2] = good] => ~ro_mode \/ UNCHANGED flash
      BY Zenon DEF WkVid, CopyError
    <2>. QED  BY Zenon, <1>5, <1>6, <1>7, <1>9, <2>1
  <1>11. Tidy(flash'[wk.e2]) /\ \A p \in PEB : p # wk.e2 => flash'[p] = flash[p]
    <2>1. CASE UNCHANGED flash
      BY Zenon, <1>2, <2>1 DEF MapInv, Erased
    <2>2. CASE \E s \in TornVid(flash[wk.e2]) \cup {good} : flash' = [flash EXCEPT ![wk.e2] = s]
      <3>1. PICK s \in TornVid(flash[wk.e2]) \cup {good} : flash' = [flash EXCEPT ![wk.e2] = s]
        BY Zenon, <2>2
      <3>2. flash'[wk.e2] = s /\ \A p \in PEB : p # wk.e2 => flash'[p] = flash[p]
        BY Zenon, <1>0, <3>1
      <3>3. Tidy(s)
        BY Zenon, <1>8
      <3>. QED  BY Zenon, <3>2, <3>3
    <2>. QED  BY Zenon, <1>9, <2>1, <2>2
  <1>12. flash' = [flash EXCEPT ![wk.e2] = good]
           => flash'[wk.e2].vid = "ok" /\ flash'[wk.e2].lnum = flash[wk.e1].lnum
    <2>. HIDE DEF good
    <2>. QED  BY Zenon, <1>0, <1>3
  <1>13. CASE /\ flash' = [flash EXCEPT ![wk.e2] = good] /\ wk' = [wk EXCEPT !.pc = "mdata"]
              /\ UNCHANGED <<eba_tbl, tree, ro_mode, errs>>
    <2>1. wk'.pc = "mdata" /\ wk'.e1 = wk.e1 /\ wk'.e2 = wk.e2
      BY Zenon, <1>1, <1>13 DEF WkState
    <2>. HIDE DEF good
    <2>. QED  BY Zenon, <1>1, <1>2, <1>10, <1>11, <1>12, <1>13, <2>1, MoveOnMap
  <1>14. CASE /\ flash' = [flash EXCEPT ![wk.e2] = good]
              /\ eba_tbl' = [eba_tbl EXCEPT ![r.lnum] = wk.e2] /\ MoveDone
    <2>. HIDE DEF good
    <2>1. MoveEnds /\ \A p \in PEB : p \notin {wk.e1, wk.e2} => tree'[p] = tree[p]
      BY Zenon, <1>1, <1>2, <1>12, <1>14, MoveEndTrees DEF MoveEnds
    <2>. QED  BY Zenon, <1>1, <1>10, <1>11, <2>1, MoveEndMap
  <1>15. CASE /\ "novid" \in Faults /\ MoveCancelled
              /\ \E s \in TornVid(flash[wk.e2]) : flash' = [flash EXCEPT ![wk.e2] = s]
    <2>1. flash'[wk.e2].vid # "ok"
      <3>1. PICK s \in TornVid(flash[wk.e2]) : flash' = [flash EXCEPT ![wk.e2] = s]
        BY Zenon, <1>15
      <3>2. flash'[wk.e2] = s
        BY Zenon, <1>0, <3>1
      <3>. QED  BY Zenon, <1>4, <3>2
    <2>2. MoveEnds /\ \A p \in PEB : p \notin {wk.e1, wk.e2} => tree'[p] = tree[p]
      BY Zenon, <1>1, <1>2, <1>15, <2>1, MoveEndTrees DEF MoveEnds
    <2>. QED  BY Zenon, <1>1, <1>10, <1>11, <2>2, MoveEndMap
  <1>16. CASE NotMoved \/ MoveError
    <2>1. MoveEnds /\ \A p \in PEB : p \notin {wk.e1, wk.e2} => tree'[p] = tree[p]
      BY Zenon, <1>2, <1>16, MoveEndTrees DEF MoveEnds
    <2>. QED  BY Zenon, <1>1, <1>10, <1>11, <2>1, MoveEndMap
  <1>17. \/ /\ flash' = [flash EXCEPT ![wk.e2] = good] /\ wk' = [wk EXCEPT !.pc = "mdata"]
            /\ UNCHANGED <<eba_tbl, tree, ro_mode, errs>>
         \/ /\ flash' = [flash EXCEPT ![wk.e2] = good]
            /\ eba_tbl' = [eba_tbl EXCEPT ![r.lnum] = wk.e2] /\ MoveDone
         \/ /\ "novid" \in Faults /\ MoveCancelled
            /\ \E s \in TornVid(flash[wk.e2]) : flash' = [flash EXCEPT ![wk.e2] = s]
         \/ NotMoved \/ MoveError
    BY Zenon DEF WkVid, CopyError, Fault
  <1>. QED  BY Zenon, <1>13, <1>14, <1>15, <1>16, <1>17

\* Writing the data of the target keeps the invariant, when wrong data is never
\* read back.
LEMMA WkDataMap ==
  ASSUME Detected, TypeInv, TypeInv', SqInv, MapInv, WkData
  PROVE  MapInv'
  <1>. DEFINE d == flash[wk.e1].data
  <1>1. wk.pc = "mdata" /\ UNCHANGED <<up, op>>
    BY Zenon DEF WkData
  <1>2. /\ wk.e1 \in PEB /\ wk.e2 \in PEB /\ wk.e1 # wk.e2
        /\ flash[wk.e2] \in PebState /\ Tidy(flash[wk.e2])
        /\ flash[wk.e2].vid = "ok" /\ flash[wk.e2].lnum = flash[wk.e1].lnum
    BY Zenon, <1>1, TargetUnmapped DEF MapInv, Erased, Mapped, Carries, TypeInv, TypeOK
  <1>3. \/ UNCHANGED flash
        \/ \E s \in TornData(flash[wk.e2], d) \cup {WithData(flash[wk.e2], d)} :
             flash' = [flash EXCEPT ![wk.e2] = s]
    BY Zenon DEF WkData, CopyError, Detected, Fault
  <1>4. \A s \in TornData(flash[wk.e2], d) \cup {WithData(flash[wk.e2], d)} :
          Ages(flash[wk.e2], s) /\ s.vid = "ok" /\ s.lnum = flash[wk.e2].lnum
    BY <1>2, TornDataAges, WithDataAges
  <1>5. /\ NoThird' /\ Tidy(flash'[wk.e2]) /\ \A p \in PEB : p # wk.e2 => flash'[p] = flash[p]
        /\ flash'[wk.e2].vid = "ok" /\ flash'[wk.e2].lnum = flash[wk.e1].lnum
    <2>1. CASE UNCHANGED flash
      BY <1>2, <2>1 DEF MapInv, NoThird, Live
    <2>2. CASE \E s \in TornData(flash[wk.e2], d) \cup {WithData(flash[wk.e2], d)} :
                 flash' = [flash EXCEPT ![wk.e2] = s]
      <3>1. PICK s \in TornData(flash[wk.e2], d) \cup {WithData(flash[wk.e2], d)} :
              flash' = [flash EXCEPT ![wk.e2] = s]
        BY Zenon, <2>2
      <3>2. Ages(flash[wk.e2], s) /\ s.vid = "ok" /\ s.lnum = flash[wk.e2].lnum
        BY Zenon, <1>4, <3>1
      <3>3. flash'[wk.e2] = s /\ \A p \in PEB : p # wk.e2 => flash'[p] = flash[p]
        BY Zenon, <1>2, <3>1, OneAges
      <3>4. NoThird'
        BY Zenon, <1>2, <3>1, <3>2, OneAged, AgesNoThird DEF MapInv
      <3>. QED  BY Zenon, <1>2, <3>2, <3>3, <3>4 DEF Ages
    <2>. QED  BY Zenon, <1>3, <2>1, <2>2
  <1>6. CASE NotMoved \/ MoveError
    <2>1. MoveEnds /\ \A p \in PEB : p \notin {wk.e1, wk.e2} => tree'[p] = tree[p]
      BY Zenon, <1>2, <1>6, MoveEndTrees DEF MoveEnds
    <2>. QED  BY Zenon, <1>1, <1>5, <2>1, MoveEndMap
  <1>7. CASE eba_tbl' = [eba_tbl EXCEPT ![flash[wk.e1].lnum] = wk.e2] /\ MoveDone
    <2>1. MoveEnds /\ \A p \in PEB : p \notin {wk.e1, wk.e2} => tree'[p] = tree[p]
      BY Zenon, <1>1, <1>2, <1>5, <1>7, MoveEndTrees DEF MoveEnds
    <2>. QED  BY Zenon, <1>1, <1>5, <2>1, MoveEndMap
  <1>8. \/ NotMoved \/ MoveError
        \/ eba_tbl' = [eba_tbl EXCEPT ![flash[wk.e1].lnum] = wk.e2] /\ MoveDone
    BY Zenon DEF WkData, CopyError, Detected, Fault
  <1>. QED  BY Zenon, <1>6, <1>7, <1>8

-----------------------------------------------------------------------------
(* Power cuts and attaching. *)

AllAge == \A p \in PEB : Ages(flash[p], flash'[p])

\* Interrupting whatever is going on adds no VID header.
LEMMA InterruptedAges ==
  ASSUME TypeInv, SqInv, MapInv, flash' \in Interrupted
  PROVE  AllAge
  <1>1. \A p \in PEB : /\ flash[p] \in PebState /\ Tidy(flash[p])
                       /\ flash[p].vid = "ok" => flash[p].ec # "none"
    BY Zenon DEF TypeInv, TypeOK, SqInv, EcKept, MapInv, Erased
  <1>2. ASSUME NEW x \in PEB, NEW s, Ages(flash[x], s), flash' = [flash EXCEPT ![x] = s]
        PROVE  AllAge
    BY Zenon, <1>2, OneAged DEF AllAge
  <1>3. CASE wk.pc = "erase"
    <2>1. wk.e1 \in PEB /\ \E s \in TornErase(flash[wk.e1]) : flash' = [flash EXCEPT ![wk.e1] = s]
      BY Zenon, <1>3 DEF Interrupted, TypeInv, Wf
    <2>. QED  BY Zenon, <1>1, <1>2, <2>1, TornEraseAges
  <1>4. CASE wk.pc = "ec"
    <2>1. wk.e1 \in PEB /\ \E s \in TornEc(flash[wk.e1]) : flash' = [flash EXCEPT ![wk.e1] = s]
      BY Zenon, <1>4 DEF Interrupted, TypeInv, Wf
    <2>. QED  BY Zenon, <1>1, <1>2, <2>1, MarkAges
  <1>5. CASE wk.pc = "mvid"
    <2>1. wk.e2 \in PEB /\ \E s \in TornVid(flash[wk.e2]) : flash' = [flash EXCEPT ![wk.e2] = s]
      BY Zenon, <1>5 DEF Interrupted, TypeInv, Wf
    <2>. QED  BY Zenon, <1>1, <1>2, <2>1, TornVidAges
  <1>6. CASE wk.pc = "mdata"
    <2>1. wk.e2 \in PEB /\ flash[wk.e2].vid = "ok"
      BY Zenon, <1>6 DEF TypeInv, Wf, MapInv, Mapped, Carries
    <2>2. PICK s \in TornData(flash[wk.e2], flash[wk.e1].data) : flash' = [flash EXCEPT ![wk.e2] = s]
      BY Zenon, <1>6 DEF Interrupted
    <2>3. Ages(flash[wk.e2], s)
      BY Zenon, <1>1, <2>1, TornDataAges
    <2>. QED  BY Zenon, <1>2, <2>1, <2>2, <2>3
  <1>7. CASE wk.pc = "idle" /\ op.pc \in {"vid", "rvid"}
    <2>1. op.pnum \in PEB /\ \E s \in TornVid(flash[op.pnum]) : flash' = [flash EXCEPT ![op.pnum] = s]
      BY Zenon, <1>7 DEF Interrupted, TypeInv, Wf
    <2>. QED  BY Zenon, <1>1, <1>2, <2>1, TornVidAges
  <1>8. CASE wk.pc = "idle" /\ op.pc \in {"data", "rdata"}
    <2>1. op.pnum \in PEB /\ flash[op.pnum].vid = "ok"
      BY Zenon, <1>8 DEF TypeInv, Wf, MapInv, Mapped, HasNew, Carries
    <2>2. \E d : \E s \in TornData(flash[op.pnum], d) : flash' = [flash EXCEPT ![op.pnum] = s]
      BY Zenon, <1>8 DEF Interrupted
    <2>. QED  BY ZenonT(30), <1>1, <1>2, <2>1, <2>2, TornDataAges
  <1>9. CASE wk.pc = "idle" /\ op.pc = "append"
    <2>1. op.from \in PEB /\ op.lnum \in LEB /\ eba_tbl[op.lnum] = op.from
      BY Zenon, <1>9 DEF TypeInv, Wf, MapInv, Targets
    <2>2. flash[op.from].vid = "ok"
      BY Zenon, <1>9, <2>1 DEF MapInv, Mapped, Maps, Carries
    <2>3. PICK s \in TornData(flash[op.from], op.buf) : flash' = [flash EXCEPT ![op.from] = s]
      BY Zenon, <1>9 DEF Interrupted
    <2>4. Ages(flash[op.from], s)
      BY Zenon, <1>1, <2>1, <2>2, TornDataAges
    <2>. QED  BY Zenon, <1>2, <2>1, <2>3, <2>4
  <1>10. CASE /\ wk.pc \notin {"erase", "ec", "mvid", "mdata"}
              /\ ~(wk.pc = "idle" /\ op.pc \in {"vid", "rvid", "data", "rdata", "append"})
    <2>1. UNCHANGED flash
      BY Zenon, <1>10 DEF Interrupted
    <2>. QED  BY Zenon, <1>1, <2>1 DEF AllAge, Ages
  <1>. QED  BY Zenon, <1>3, <1>4, <1>5, <1>6, <1>7, <1>8, <1>9, <1>10

\* A power cut keeps the invariant.
LEMMA PowerCutMap ==
  ASSUME TypeInv, TypeInv', SqInv, MapInv, PowerCut
  PROVE  MapInv'
  <1>1. \A p \in PEB : Ages(flash[p], flash'[p])
    BY Zenon, InterruptedAges DEF PowerCut, AllAge
  <1>2. /\ up' = "off" /\ op'.pc = "idle" /\ wk'.pc = "idle" /\ \A p \in PEB : tree'[p] = "gone"
        /\ \A l \in LEB : eba_tbl'[l] = None
    BY Zenon DEF PowerCut, IdleOp, IdleWk
  <1>3. Erased' /\ Entries' /\ Targets' /\ NoneLost'
    BY Zenon, <1>1, <1>2 DEF Erased, Ages, Entries, Targets, NoneLost
  <1>4. Mapped'
    BY Zenon, <1>2, MediaAssumption DEF Mapped, HasNew, Maps
  <1>5. NoThird'
    BY Zenon, <1>1, AgesNoThird DEF MapInv
  <1>. QED  BY Zenon, <1>3, <1>4, <1>5 DEF MapInv

\* What the scan takes for free is erased and has its EC header.
LEMMA FreeFormatted ==
  ASSUME NEW r \in PebState, Tidy(r)
  PROVE  /\ ScanClass(r) = "free" => r = Formatted
         /\ ScanClass(r) = "bad" => r.bad
         /\ ScanClass(r) = "used" => r.vid = "ok" /\ r.lnum \in LEB
  <1>1. r.bad \in BOOLEAN /\ r.ec \in {"none", "ok", "bad"} /\ r.vid \in {"none", "ok", "bad"}
    BY Zenon DEF PebState
  <1>2. ScanClass(r) = "free" => ~r.bad /\ r.ec = "ok" /\ r.vid = "none"
    BY Zenon, <1>1 DEF ScanClass
  <1>3. ScanClass(r) = "bad" => r.bad
    BY Zenon, <1>1 DEF ScanClass
  <1>4. ScanClass(r) = "used" => r.vid = "ok" /\ r.lnum \in LEB
    BY Zenon, <1>1 DEF ScanClass, Tidy
  <1>5. ASSUME ~r.bad, r.ec = "ok", r.vid = "none"
        PROVE  r = Formatted
    <2>1. /\ r.lnum = None /\ r.sqnum = 0 /\ r.copy_flag = FALSE /\ r.data_crc = << >>
          /\ r.data = << >> /\ r.bad = FALSE
      BY Zenon, <1>1, <1>5 DEF Tidy, PebState
    <2>2. r = [bad |-> r.bad, ec |-> r.ec, vid |-> r.vid, lnum |-> r.lnum, sqnum |-> r.sqnum,
               copy_flag |-> r.copy_flag, data_crc |-> r.data_crc, data |-> r.data]
      BY Zenon DEF PebState
    <2>3. Formatted = [bad |-> Formatted.bad, ec |-> Formatted.ec, vid |-> Formatted.vid,
                       lnum |-> Formatted.lnum, sqnum |-> Formatted.sqnum,
                       copy_flag |-> Formatted.copy_flag, data_crc |-> Formatted.data_crc,
                       data |-> Formatted.data]
      <3>1. << >> \in Contents
        BY DEF Contents
      <3>2. Blank \in PebState
        BY Zenon, <3>1, MediaAssumption DEF Blank, PebState
      <3>3. Formatted \in PebState
        BY Zenon, <3>2 DEF Formatted, PebState
      <3>. QED  BY Zenon, <3>3 DEF PebState
    <2>4. /\ Formatted.lnum = None /\ Formatted.sqnum = 0 /\ Formatted.data_crc = << >>
          /\ Formatted.data = << >> /\ Formatted.ec = "ok" /\ Formatted.vid = "none"
      BY Zenon DEF Formatted, Blank
    <2>5. Formatted.copy_flag = FALSE /\ Formatted.bad = FALSE
      BY Zenon DEF Formatted, Blank
    <2>. QED  BY <1>5, <2>1, <2>2, <2>3, <2>4, <2>5, Zenon
  <1>. QED  BY Zenon, <1>2, <1>3, <1>4, <1>5

\* Attaching establishes what the invariant says of a running device.
LEMMA AttachMap ==
  ASSUME TypeInv, TypeInv', SqInv, MapInv, Attach
  PROVE  MapInv'
  <1>1. /\ up = "off" /\ up' = "init" /\ UNCHANGED <<flash, ro_mode, op, wk>>
        /\ op.pc = "idle" /\ wk.pc = "idle"
    BY Zenon DEF Attach, SqInv, Nested
  <1>2. PICK winner \in [LEB -> PEB \cup {None}], flip \in PEB \cup {None} :
          /\ \A l \in LEB : IsWinner(l, winner[l])
          /\ eba_tbl' = winner
          /\ tree' = [p \in PEB |->
               LET c == ScanClass(flash[p])
               IN  IF c \in {"bad", "free"} THEN c
                   ELSE IF c = "used" /\ winner[flash[p].lnum] = p
                     THEN IF flash[p].ec = "bad" \/ flip = p THEN "scrub" ELSE "used"
                     ELSE "todo"]
    BY DEF Attach
  <1>3. \A p \in PEB : flash[p] \in PebState /\ Tidy(flash[p])
    BY Zenon DEF TypeInv, TypeOK, MapInv, Erased
  <1>4. ASSUME NEW p \in PEB
        PROVE  \/ tree'[p] \in {"bad", "free"} /\ tree'[p] = ScanClass(flash[p])
               \/ /\ tree'[p] \in {"used", "scrub"} /\ ScanClass(flash[p]) = "used"
                  /\ winner[flash[p].lnum] = p
               \/ /\ tree'[p] = "todo"
                  /\ ~(ScanClass(flash[p]) = "used" /\ winner[flash[p].lnum] = p)
    BY Zenon, <1>2
  <1>5. Erased'
    BY <1>1, <1>3, <1>4, FreeFormatted DEF Erased
  <1>6. Entries'
    BY Zenon, <1>1, <1>3, <1>4, FreeFormatted DEF Entries
  <1>7. Mapped'
    <2>1. ASSUME NEW l \in LEB, NEW p \in PEB, winner[l] = p
          PROVE  ScanClass(flash[p]) = "used" /\ flash[p].lnum = l
      <3>1. IsWinner(l, p)
        BY Zenon, <1>2, <2>1
      <3>2. p # None
        BY Zenon, MediaAssumption
      <3>. QED  BY Zenon, <3>1, <3>2 DEF IsWinner, Copies, Seen
    <2>2. ASSUME NEW l \in LEB, NEW p \in PEB, winner[l] = p
          PROVE  tree'[p] \in {"used", "scrub"} /\ flash[p].vid = "ok" /\ flash[p].lnum = l
      BY <1>3, <1>4, <2>1, <2>2, FreeFormatted
    <2>3. \A l \in LEB, p \in PEB : Maps(l, p)' => Carries(p, l)' /\ tree'[p] \in Kept
      BY <1>1, <1>2, <2>2 DEF Maps, Carries, Kept
    <2>. QED  BY Zenon, <1>1, <2>3 DEF Mapped, HasNew
  <1>8. Targets'
    BY Zenon, <1>1 DEF Targets
  <1>9. NoneLost'
    <2>1. ASSUME NEW p \in PEB
          PROVE  Found(p)'
      <3>1. CASE tree'[p] \in {"bad", "free"}
        BY Zenon, <3>1 DEF Found
      <3>2. CASE tree'[p] = "todo"
        BY Zenon, <1>1, <3>2 DEF Found, Busy
      <3>3. CASE ScanClass(flash[p]) = "used" /\ winner[flash[p].lnum] = p
        <4>1. PICK l \in LEB : l = flash[p].lnum
          BY Zenon, <1>3, <3>3, FreeFormatted
        <4>2. Maps(l, p)'
          BY Zenon, <1>1, <1>2, <3>3, <4>1 DEF Maps
        <4>. QED  BY Zenon, <4>2 DEF Found
      <3>. QED  BY Zenon, <1>4, <3>1, <3>2, <3>3
    <2>. QED  BY Zenon, <2>1 DEF NoneLost
  <1>10. NoThird'
    BY <1>1 DEF MapInv, NoThird, Live
  <1>. QED  BY Zenon, <1>5, <1>6, <1>7, <1>8, <1>9, <1>10 DEF MapInv

\* So do the erasures and the end of ubi_wl_init_scan().
LEMMA InitStepMap ==
  ASSUME TypeInv, TypeInv', SqInv, MapInv, (\E p \in PEB : InitErase(p)) \/ InitDone
  PROVE  MapInv'
  <1>1. /\ up = "init" /\ wk.pc = "idle" /\ op.pc = "idle" /\ UNCHANGED <<flash, ro_mode, op, eba_tbl>>
    BY Zenon DEF InitErase, InitDone, SqInv, Nested
  <1>2. NoThird' /\ Targets' /\ \A l \in LEB, p \in PEB : Maps(l, p)' <=> Maps(l, p)
    BY <1>1 DEF MapInv, NoThird, Live, Targets, Maps
  <1>3. ASSUME NEW x \in PEB, InitErase(x)
        PROVE  MapInv'
    <2>1. /\ tree[x] = "todo" /\ tree' = [tree EXCEPT ![x] = "erase"] /\ UNCHANGED up
          /\ wk'.pc = "erase" /\ wk'.e1 = x
      BY Zenon, <1>3 DEF InitErase, IdleWk
    <2>2. tree'[x] = "erase" /\ \A p \in PEB : p # x => tree'[p] = tree[p]
      BY Zenon, <2>1 DEF TypeInv, TypeOK
    <2>3. Erased' /\ Entries'
      BY <1>1, <2>1, <2>2 DEF MapInv, Erased, Entries
    <2>4. Mapped'
      <3>1. \A l \in LEB, p \in PEB : Maps(l, p)' => Carries(p, l)' /\ tree'[p] \in Kept
        BY <1>1, <1>2, <2>1, <2>2 DEF MapInv, Mapped, Carries, Kept
      <3>. QED  BY ZenonT(30), <1>1, <2>1, <3>1 DEF Mapped, HasNew
    <2>5. NoneLost'
      <3>1. ASSUME NEW p \in PEB, Found(p)
            PROVE  Found(p)'
        <4>1. p = x => Busy(p)'
          BY Zenon, <2>1 DEF Busy
        <4>2. p # x /\ Busy(p) => Busy(p)'
          BY Zenon, <1>1, <2>1, <2>2 DEF Busy, HasNew
        <4>. QED  BY Zenon, <1>1, <1>2, <2>2, <3>1, <4>1, <4>2 DEF Found
      <3>. QED  BY Zenon, <1>1, <2>1, <3>1 DEF MapInv, NoneLost
    <2>. QED  BY Zenon, <1>2, <2>3, <2>4, <2>5 DEF MapInv
  <1>4. CASE InitDone
    <2>1. /\ \A p \in PEB : tree[p] # "todo"
          /\ UNCHANGED tree /\ up' = "on" /\ wk'.pc = "ensure"
      BY Zenon, <1>4 DEF InitDone, IdleWk, In
    <2>2. Erased' /\ Entries'
      BY Zenon, <1>1, <2>1 DEF MapInv, Erased, Entries
    <2>3. Mapped'
      <3>1. \A l \in LEB, p \in PEB : Maps(l, p)' => Carries(p, l)' /\ tree'[p] \in Kept
        BY Zenon, <1>1, <1>2, <2>1 DEF MapInv, Mapped, Carries
      <3>. QED  BY Zenon, <1>1, <2>1, <3>1 DEF Mapped, HasNew
    <2>4. NoneLost'
      <3>1. ASSUME NEW p \in PEB, Found(p)
            PROVE  Found(p)'
        <4>1. ~Busy(p)
          BY Zenon, <1>1, <2>1 DEF Busy, HasNew
        <4>. QED  BY Zenon, <1>1, <1>2, <2>1, <3>1, <4>1 DEF Found
      <3>. QED  BY Zenon, <1>1, <3>1 DEF MapInv, NoneLost
    <2>. QED  BY Zenon, <1>2, <2>2, <2>3, <2>4 DEF MapInv
  <1>. QED  BY Zenon, <1>3, <1>4

-----------------------------------------------------------------------------
(* The theorems. *)

\* The formatted flash satisfies the invariant.
LEMMA InitMap == Init => MapInv
  <1>. SUFFICES ASSUME Init
                PROVE  MapInv
    BY Zenon
  <1>1. /\ up = "off" /\ op.pc = "idle" /\ wk.pc = "idle" /\ \A p \in PEB : tree[p] = "gone"
        /\ \A l \in LEB : eba_tbl[l] = None
        /\ \A p \in PEB : flash[p] = Formatted
    BY Zenon DEF Init, IdleOp, IdleWk
  <1>2. Erased /\ Entries /\ Targets /\ NoneLost
    BY Zenon, <1>1, BlankBare DEF Erased, Entries, Targets, NoneLost
  <1>3. Mapped
    BY Zenon, <1>1, MediaAssumption DEF Mapped, HasNew, Maps
  <1>4. NoThird
    BY <1>1, BlankBare DEF NoThird, Live
  <1>. QED  BY Zenon, <1>2, <1>3, <1>4 DEF MapInv

\* Every step keeps it, when wrong data is never read back and recover_peb() is
\* never tried again.
LEMMA NextMap ==
  ASSUME Detected, OneError \/ RecoversAtOnce', TypeInv, TypeInv', SqInv, MapInv, [Next]_vars
  PROVE  MapInv'
  <1>1. CASE Call
    BY Zenon, <1>1, CallMap, UnmapMap, ReadScrubMap DEF Call
  <1>2. CASE OpStep
    BY Zenon, <1>2, PlainMap, OpVidMap, OpDataMap, OpRemapMap, OpAppendMap, OpRecoverVidMap,
       OpRecoverDataMap, OpRecoverFailMap DEF OpStep
  <1>3. CASE WkStep
    BY Zenon, <1>3, EraseStepMap, EnsureMap, WkReadMap, WkVidMap, WkDataMap DEF WkStep
  <1>4. CASE AttachStep
    BY Zenon, <1>4, AttachMap, InitStepMap DEF AttachStep
  <1>5. CASE PowerCut
    BY Zenon, <1>5, PowerCutMap
  <1>6. CASE UNCHANGED vars
    <2>1. UNCHANGED <<flash, up, eba_tbl, tree, ro_mode, op, wk>>
      BY ZenonT(30), <1>6 DEF vars
    <2>2. Erased' /\ Entries' /\ Targets' /\ NoThird'
      BY <2>1 DEF MapInv, Erased, Entries, Targets, NoThird, Live
    <2>3. Mapped'
      BY ZenonT(30), <2>1 DEF MapInv, Mapped, HasNew, Maps, Carries
    <2>4. NoneLost'
      BY <2>1 DEF MapInv, NoneLost, Found, Busy, HasNew, Maps
    <2>. QED  BY Zenon, <2>2, <2>3, <2>4 DEF MapInv
  <1>. QED  BY Zenon, <1>1, <1>2, <1>3, <1>4, <1>5, <1>6 DEF Next
=============================================================================
