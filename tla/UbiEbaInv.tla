------------------------------ MODULE UbiEbaInv ------------------------------
(***************************************************************************)
(* The inductive invariants of UbiEba: what holds at every step of a call, *)
(* a worker, a power cut and an attach.                                    *)
(***************************************************************************)
EXTENDS UbiEba

-----------------------------------------------------------------------------
(* Types. *)

\* The PEBs and the LEB a call or a worker is busy with are there.
Wf ==
  /\ op.pc # "idle" => op.lnum \in LEB
  /\ op.pc \in {"vid", "data", "remap", "retry", "rvid", "rdata", "rretry", "rdone"} => op.pnum \in PEB
  /\ op.pc \in {"append", "rget", "rvid", "rdata", "rretry", "rdone", "rfail"} => op.from \in PEB
  /\ wk.pc \in {"erase", "ec", "bad", "mread", "mvid", "mdata"} => wk.e1 \in PEB
  /\ wk.pc \in {"mread", "mvid", "mdata"} => wk.e2 \in PEB

TypeInv == TypeOK /\ Wf

-----------------------------------------------------------------------------
(* Sequence numbers. *)

\* The scan counts the PEB as used.
Live(r) == ~r.bad /\ r.ec # "none" /\ r.vid = "ok"

\* A PEB with a VID header has an EC header, and so has every PEB a VID header
\* is about to be written to.  The one the erase worker works on is not free.
EcKept ==
  /\ \A p \in PEB : flash[p].vid = "ok" => flash[p].ec # "none"
  /\ \A p \in PEB : tree[p] = "free" => flash[p].ec # "none"
  /\ op.pc \in {"vid", "rvid"} => flash[op.pnum].ec # "none"
  /\ wk.pc \in {"mread", "mvid"} => flash[wk.e2].ec # "none"
  /\ wk.pc \in {"erase", "ec"} => tree[wk.e1] # "free"

\* Where an EBA call waits for the worker it has called.
Waits == {"idle", "unmapped", "remap", "retry", "rretry", "rdone", "rfail"}

\* A worker runs nested only where the EBA call waits for it.
Nested ==
  /\ wk.pc # "idle" => op.pc \in Waits
  /\ up # "on" => op.pc = "idle"
  /\ up = "off" => wk.pc = "idle"

\* n has been given out and is on no PEB.
Fresh(n) == n < global_sqnum /\ \A p \in PEB : Live(flash[p]) => flash[p].sqnum # n

Numbered ==
  /\ \A p, q \in PEB : p # q /\ Live(flash[p]) /\ Live(flash[q]) => flash[p].sqnum # flash[q].sqnum
  /\ up # "off" => \A p \in PEB : Live(flash[p]) => flash[p].sqnum < global_sqnum
  /\ op.pc \in {"get", "vid", "rvid"} => Fresh(op.sqnum)
  /\ wk.pc = "mvid" => Fresh(wk.sqnum)

SqInv == EcKept /\ Nested /\ Numbered

-----------------------------------------------------------------------------
(* The EBA table, the WL trees and the flash. *)

\* Data that was read back wrong is not taken for good.  copy_leb() returns zero
\* in that case and the worker erases the mapped PEB.
Detected == "mismatch" \notin Faults

\* recover_peb() does not meet an error itself and is not tried again: the LEB is
\* not locked, and a move in between would leave it with a PEB number that is no
\* longer the LEB's.
RecoversAtOnce == op.pc # "rretry"

\* Of the faults that make recover_peb() start and fail, only one kind occurs.
OneError == "append" \in Faults => "write" \notin Faults /\ "io" \notin Faults

\* A VID header names a LEB; without one there is nothing behind the EC header.
Tidy(r) ==
  /\ r.vid = "ok" => r.lnum \in LEB
  /\ r.vid = "none" => /\ r.lnum = None /\ r.sqnum = 0 /\ ~r.copy_flag
                       /\ r.data_crc = << >> /\ r.data = << >>

\* What is free, or taken and not yet written, is erased and has its EC header.
Erased ==
  /\ \A p \in PEB : Tidy(flash[p])
  /\ \A p \in PEB : tree[p] = "free" => flash[p] = Formatted
  /\ op.pc \in {"vid", "rvid"} => flash[op.pnum] = Formatted
  /\ wk.pc \in {"mread", "mvid"} => flash[wk.e2] = Formatted
  /\ wk.pc = "ec" => flash[wk.e1] = Blank

\* The call has written the VID header of a new PEB and not yet mapped or put it.
HasNew == \/ op.pc \in {"data", "rdata", "remap"}
          \/ op.pc = "rfail" /\ op.pnum # None

\* Where the WL unit keeps the PEBs a call or a worker is busy with.
Entries ==
  /\ wk.pc \in {"erase", "ec", "bad"} => tree[wk.e1] = "erase"
  /\ wk.pc \in {"mread", "mvid", "mdata"} => /\ tree[wk.e1] = "move" /\ tree[wk.e2] = "move"
                                             /\ wk.e1 # wk.e2 /\ up = "on"
  /\ op.pc \in {"vid", "data", "rvid", "rdata"} => tree[op.pnum] = "prot"
  /\ op.pc = "rfail" /\ op.pnum # None => tree[op.pnum] = "prot" /\ wk.pc = "idle"
  /\ \A p \in PEB : tree[p] = "bad" => flash[p].bad

Kept == {"used", "prot", "scrub", "move", "gone"}

\* LEB l is mapped to p, and not because an atomic change has put p already.
Maps(l, p) == eba_tbl[l] = p /\ ~(op.pc = "remap" /\ op.lnum = l)

Carries(p, l) == flash[p].vid = "ok" /\ flash[p].lnum = l

Mapped ==
  /\ \A l \in LEB, p \in PEB : Maps(l, p) => Carries(p, l) /\ tree[p] \in Kept
  /\ HasNew => /\ Carries(op.pnum, op.lnum) /\ eba_tbl[op.lnum] # op.pnum
               /\ tree[op.pnum] \in Kept
  /\ op.pc = "remap" => \A p \in PEB : eba_tbl[op.lnum] = p /\ Carries(p, op.lnum)
                                         => tree[p] \in {"erase", "bad", "gone"}
  /\ wk.pc \in {"mvid", "mdata"} => /\ flash[wk.e1].vid = "ok" /\ flash[wk.e1].lnum \in LEB
                                    /\ Maps(flash[wk.e1].lnum, wk.e1)
  /\ wk.pc = "mdata" => Carries(wk.e2, flash[wk.e1].lnum)

Targets ==
  /\ op.pc # "rretry"
  /\ op.pc \in {"append", "rget", "rvid", "rdata"} => eba_tbl[op.lnum] = op.from /\ ~ro_mode
  /\ op.pc \in {"rget", "rvid", "rdata"} => "append" \in Faults
  /\ op.pc = "unmapped" \/ (op.pc \in {"get", "vid", "data", "retry"} /\ op.kind # "change")
       => eba_tbl[op.lnum] = None

\* The call or the worker still has to put, map or erase p.
Busy(p) ==
  \/ wk.pc \in {"erase", "ec", "bad"} /\ p = wk.e1
  \/ wk.pc \in {"mread", "mvid", "mdata"} /\ p = wk.e2
  \/ op.pc \in {"vid", "rvid"} /\ p = op.pnum
  \/ HasNew /\ p = op.pnum
  \/ up = "init" /\ tree[p] = "todo"

\* p is accounted for.  A PEB whose VID header could not be read back after it
\* was written counts as used and is not.
Found(p) ==
  \/ tree[p] \in {"free", "bad"}
  \/ \E l \in LEB : Maps(l, p)
  \/ Busy(p)
  \/ "novid" \in Faults /\ flash[p].vid # "ok"

NoneLost == up # "off" /\ ~ro_mode => \A p \in PEB : Found(p)

\* No three PEBs the scan would see hold the same LEB.
NoThird ==
  \A p, q, s \in PEB : /\ Live(flash[p]) /\ Live(flash[q]) /\ Live(flash[s])
                       /\ flash[p].lnum = flash[q].lnum /\ flash[q].lnum = flash[s].lnum
                       => p = q \/ q = s \/ p = s

MapInv == Erased /\ Entries /\ Mapped /\ Targets /\ NoneLost /\ NoThird

-----------------------------------------------------------------------------
(* Contents. *)

\* recover_peb() leaves a copy that may win with part of the data: it is not
\* crash safe.
NoRecovery == "append" \notin Faults

\* A write that failed is not given up: in that case the code returns zero for
\* what it did not write.
RetriesLeft == op.pc = "retry" => op.tries < UBI_IO_RETRIES

\* There are not enough failures to give up a write.
RetriesSuffice == "write" \in Faults => MaxErr <= UBI_IO_RETRIES

\* Beside the good copy s of a LEB whose contents may be m, another copy r does no
\* harm: both are empty, or r is newer and wins only with a CRC over the data of s
\* or over data that may be found, or r is older and s wins whatever r holds.
Beside(r, s, m) ==
  \/ r.data = << >> /\ s.data = << >>
  \/ /\ r.sqnum > s.sqnum /\ r.copy_flag /\ Len(r.data) <= Len(r.data_crc)
     /\ \/ r.data_crc = s.data
        \/ r.data_crc \in Seq(Chunk) /\ (CrcOK(r) => r.data \in m)
  \/ r.sqnum <= s.sqnum /\ (s.copy_flag => CrcOK(s))

\* The scan would find LEB l on p.
Holds(p, l) == Live(flash[p]) /\ flash[p].lnum = l

\* With g for its good copy, LEB l is found with contents it may have.
SafeAt(l, g) ==
  IF g = None
    THEN /\ << >> \in may[l]
         /\ \A p, q \in PEB : Holds(p, l) /\ Holds(q, l) => p = q /\ flash[p].data \in may[l]
    ELSE /\ Holds(g, l) /\ flash[g].data \in may[l]
         /\ \A q \in PEB \ {g} : Holds(q, l) => Beside(flash[q], flash[g], may[l])

\* The good copy: once an atomic change has put the old PEB it is the new one.
GoodOf(l) == IF op.pc = "remap" /\ op.lnum = l THEN op.pnum ELSE eba_tbl[l]

Safe == \A l \in LEB : \E g \in PEB \cup {None} :
          SafeAt(l, g) /\ (up # "off" => g = GoodOf(l))

\* What the call in progress is about to write, and what it has written.
Writing ==
  /\ op.pc \in {"idle", "unmapped", "get", "vid", "data", "remap", "retry", "append"}
  /\ op.buf \in Seq(Chunk) /\ Len(op.buf) <= 1
  /\ op.pc \in {"unmapped", "get", "vid", "data", "remap", "retry"} => op.want = op.buf
  /\ op.pc = "unmapped" => op.buf = << >>
  /\ op.pc \in {"get", "vid", "data", "remap", "retry"} => op.want \in may[op.lnum]
  /\ op.pc \in {"get", "vid", "data", "retry"} /\ eba_tbl[op.lnum] = None
       => Partial(op.buf) \subseteq may[op.lnum]
  /\ op.pc \in {"get", "vid"} => op.sqnum + 1 = global_sqnum
  /\ op.pc = "data" =>
       LET r == flash[op.pnum]
       IN  /\ Live(r) /\ r.data = << >>
           /\ op.kind = "change" => r.copy_flag /\ r.data_crc = op.buf
           /\ eba_tbl[op.lnum] # None => r.sqnum > flash[eba_tbl[op.lnum]].sqnum
  /\ op.pc = "remap" =>
       LET r == flash[op.pnum]
       IN  /\ Live(r) /\ r.data = op.want /\ r.data_crc = op.want
           /\ \A q \in PEB \ {op.pnum} : Holds(q, op.lnum) => flash[q].sqnum <= r.sqnum
  /\ op.pc = "append" =>
       /\ op.want = flash[op.from].data \o op.buf
       /\ \A x \in Partial(op.buf) : flash[op.from].data \o x \in may[op.lnum]

\* The failures so far explain the retries.
Counted ==
  /\ errs <= MaxErr
  /\ op.tries <= errs
  /\ op.pc = "retry" => "write" \in Faults /\ op.tries + 1 <= errs

\* What the worker is about to write or erase.
Working ==
  /\ wk.pc = "mvid" => wk.sqnum + 1 = global_sqnum
  /\ wk.pc = "mdata" =>
       LET r == flash[wk.e2]
       IN  /\ Live(r) /\ r.data = << >> /\ r.copy_flag
           /\ r.data_crc = flash[wk.e1].data /\ r.sqnum > flash[wk.e1].sqnum
  /\ wk.pc = "erase" => \A l \in LEB : Holds(wk.e1, l) /\ GoodOf(l) = None
                                     => Garbled(flash[wk.e1].data) \subseteq may[l]
  /\ up = "init" => \A p \in PEB, l \in LEB : Holds(p, l) => eba_tbl[l] # None

DataInv == Safe /\ Writing /\ Counted /\ Working
==============================================================================
