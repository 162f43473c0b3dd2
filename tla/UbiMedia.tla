------------------------------ MODULE UbiMedia ------------------------------
(***************************************************************************)
(* What UBI keeps on the flash, and how the scanning code reads it back.   *)
(*                                                                         *)
(* A physical eraseblock (PEB) holds an erase-counter header, a volume-    *)
(* identifier (VID) header and the data of at most one logical eraseblock  *)
(* (LEB).  Headers are abstracted to their state ("none": all 0xFF, "ok",  *)
(* "bad": magic or CRC wrong) and to the VID fields the code decides on.   *)
(* The data is a sequence of chunks, one per write; 0xFF at the end is not *)
(* represented.  The CRC is ideal: data_crc is the sequence the CRC was    *)
(* computed over, and its length is the header's data_size.                *)
(***************************************************************************)
EXTENDS Integers, Sequences, FiniteSets

CONSTANTS PEB,      \* the physical eraseblocks
          LEB,      \* the logical eraseblocks of all the volumes
          Chunk,    \* what one write call may put into a LEB
          Junk,     \* a half-programmed chunk that reads as some wrong data
          EccBad,   \* a half-programmed chunk whose read gives -EBADMSG
          Torn,     \* which of the two an interrupted program may leave
          None      \* UBI_LEB_UNMAPPED, "no PEB", "no LEB"

ASSUME MediaAssumption ==
  /\ None \notin PEB /\ None \notin LEB
  /\ Junk \notin Chunk /\ EccBad \notin Chunk /\ Junk # EccBad
  /\ Torn \subseteq {Junk, EccBad}
  /\ IsFiniteSet(PEB)

Contents == Seq(Chunk \cup {Junk, EccBad})

\* The state of one PEB: struct ubi_ec_hdr, struct ubi_vid_hdr and the data.
PebState == [bad       : BOOLEAN,
             ec        : {"none", "ok", "bad"},
             vid       : {"none", "ok", "bad"},
             lnum      : LEB \cup {None},
             sqnum     : Nat,
             copy_flag : BOOLEAN,
             data_crc  : Contents,
             data      : Contents]

\* An erased PEB, every byte 0xFF.
Blank == [bad |-> FALSE, ec |-> "none", vid |-> "none", lnum |-> None,
          sqnum |-> 0, copy_flag |-> FALSE, data_crc |-> << >>, data |-> << >>]

\* An erased PEB whose EC header is written: what UBI calls free.
Formatted == [Blank EXCEPT !.ec = "ok"]

(***************************************************************************)
(* Programming and erasing, when they succeed.                             *)
(***************************************************************************)
WithVid(r, l, sq, copy, crc) ==
  [r EXCEPT !.vid = "ok", !.lnum = l, !.sqnum = sq, !.copy_flag = copy, !.data_crc = crc]

WithData(r, d) == [r EXCEPT !.data = @ \o d]

(***************************************************************************)
(* What the same operations leave when they fail or the power is cut: the  *)
(* set of states the PEB may be found in.  An operation that fails may     *)
(* have done all it should; for a VID header the caller adds that case.    *)
(***************************************************************************)
TornVid(r) == {r, [r EXCEPT !.vid = "bad"]}

Cut(d) == UNION {{SubSeq(d, 1, k) \o <<j>> : j \in Torn} : k \in 0 .. Len(d) - 1}

TornData(r, d) == {r} \cup {WithData(r, x) : x \in Cut(d) \cup {d}}

Garbled(d) == {[i \in DOMAIN d |-> j] : j \in Torn}

TornErase(r) ==
  {r, Blank, [Blank EXCEPT !.ec = "bad", !.vid = "bad"]} \cup
  {[r EXCEPT !.data = d] : d \in Garbled(r.data)} \cup
  {[r EXCEPT !.ec = "bad", !.data = d] : d \in Garbled(r.data)}

TornEc(r) == {r, [r EXCEPT !.ec = "bad"], [r EXCEPT !.ec = "ok"]}

(***************************************************************************)
(* Reading it back at attach time.                                         *)
(***************************************************************************)

\* Mutant of CrcOK: the CRC is not looked at.
CrcIgnored(r) == TRUE

\* The data CRC of the VID header matches the first data_size bytes.
CrcOK(r) ==
  /\ Len(r.data_crc) <= Len(r.data)
  /\ SubSeq(r.data, 1, Len(r.data_crc)) = r.data_crc

\* Mutant of ReadFirst: one chunk short.
ReadFirstShort(d, n) == [i \in 1 .. n - 1 |-> IF i <= Len(d) THEN d[i] ELSE Junk]

\* Reading n chunks; what was never written (0xFF) is as good as junk.
ReadFirst(d, n) == [i \in 1 .. n |-> IF i <= Len(d) THEN d[i] ELSE Junk]

\* Reading the first n chunks of d does not end in an ECC error.
ReadsClean(d, n) == \A i \in DOMAIN d : i <= n => d[i] # EccBad

\* Mutant of ScanClass: a bad EC header does not make an empty PEB corrupted.
ScanClassNoEcCorr(r) ==
  CASE r.bad                                     -> "bad"
    [] ~r.bad /\ r.ec = "none"                   -> "erase"
    [] ~r.bad /\ r.ec # "none" /\ r.vid = "ok"   -> "used"
    [] ~r.bad /\ r.ec # "none" /\ r.vid = "none" -> "free"
    [] OTHER                                     -> "corr"

\* The list or tree process_eb() puts a PEB on.
ScanClass(r) ==
  CASE r.bad                                          -> "bad"
    [] ~r.bad /\ r.ec = "none"                        -> "erase"
    [] ~r.bad /\ r.ec # "none" /\ r.vid = "ok"        -> "used"
    [] ~r.bad /\ r.ec = "ok"   /\ r.vid = "none"      -> "free"
    [] OTHER                                          -> "corr"

\* compare_lebs(): does r1 win over r2, both holding the same LEB?  The newer
\* one wins unless it is a copy whose data CRC is wrong.
Beats(r1, r2) ==
  IF r1.sqnum > r2.sqnum
    THEN r1.copy_flag => CrcOK(r1)
    ELSE r2.copy_flag /\ ~CrcOK(r2)

\* compare_lebs() returns an error: the newer one is a copy and reading the
\* data its CRC covers ends in an ECC error.
CompareFails(r1, r2) ==
  LET newer == IF r1.sqnum > r2.sqnum THEN r1 ELSE r2
  IN  newer.copy_flag /\ ~ReadsClean(newer.data, Len(newer.data_crc))
=============================================================================
