------------------------------- MODULE EnvNand -------------------------------
(***************************************************************************)
(* The environment in NAND (common/env_nand.c): saveenv erases the range   *)
(* of a copy block by block and writes the image block by block; booting   *)
(* reads the copies and takes one with a good CRC, the newer by its serial *)
(* number.  One copy (this board) or two (CONFIG_ENV_OFFSET_REDUND).       *)
(*                                                                         *)
(* Bad blocks are skipped alike when erasing, writing and reading, so the  *)
(* blocks here are the good ones of a range, in order; a range may have    *)
(* more or fewer than the image needs.  An environment is a version         *)
(* number, 0 the default environment compiled in.                          *)
(***************************************************************************)
EXTENDS Integers

CONSTANTS Redundant,   \* CONFIG_ENV_OFFSET_REDUND is defined
          EnvBlocks,   \* CONFIG_ENV_SIZE in blocks
          RangeBlocks, \* CONFIG_ENV_RANGE in blocks
          GoodCounts,  \* how many of them may be good
          InitFlags,   \* serial numbers of the copy the device comes with
          MaxVer,      \* bound: versions of the environment
          Faults,      \* subset of {"erase", "write"}: operations that may fail
          MaxErr,      \* bound: failing operations
          MaxCuts      \* bound: power cuts

ASSUME EnvAssumption ==
  /\ Redundant \in BOOLEAN
  /\ EnvBlocks \in Nat \ {0} /\ RangeBlocks \in Nat
  /\ EnvBlocks <= RangeBlocks    \* saveenv() does nothing otherwise
  /\ GoodCounts \subseteq 0 .. RangeBlocks
  /\ InitFlags \subseteq 0 .. 255
  /\ MaxVer \in Nat /\ MaxErr \in Nat /\ MaxCuts \in Nat
  /\ Faults \subseteq {"erase", "write"}

Copy == {1, 2}

\* A block: part k of version v with serial number f (kept in the first part),
\* erased (k = 0), or torn (k = -1).
Block == [k : -1 .. RangeBlocks, v : Nat, f : 0 .. 255]
Erased == [k |-> 0, v |-> 0, f |-> 0]
Garbled == [k |-> -1, v |-> 0, f |-> 0]
Part(k, v, f) == [k |-> k, v |-> v, f |-> f]

VARIABLES good,   \* number of good blocks of each range
          blk,    \* the blocks on flash
          env,    \* env_htab: the version in RAM
          valid,  \* gd->env_valid: the copy last loaded or saved
          flags,  \* env_flags
          pc, i,  \* where saveenv() is, and its block
          saved,  \* the version a saveenv that returned 0, or the boot, left
          try,    \* the version of the last saveenv
          top, errs, cuts

vars == <<good, blk, env, valid, flags, pc, i, saved, try, top, errs, cuts>>

TypeOK ==
  /\ good \in [Copy -> 0 .. RangeBlocks]
  /\ blk \in [Copy -> [1 .. RangeBlocks -> Block]]
  /\ env \in Nat /\ saved \in Nat /\ try \in Nat /\ top \in Nat
  /\ valid \in Copy /\ flags \in 0 .. 255
  /\ pc \in {"off", "idle", "erase", "write"} /\ i \in Nat \ {0}
  /\ errs \in Nat /\ cuts \in Nat

\* Mutant: the CRC is not checked.
OkFirst(c) == good[c] >= EnvBlocks /\ blk[c][1].k = 1

\* readenv() succeeds and the CRC, which covers the variables and not the
\* serial number, is right.
Ok(c) ==
  /\ good[c] >= EnvBlocks
  /\ \A k \in 1 .. EnvBlocks : blk[c][k].k = k /\ blk[c][k].v = blk[c][1].v

Serial(c) == blk[c][1].f

\* Mutant: the wrap-around of the serial number is forgotten.
NewerNoWrap == IF Serial(2) > Serial(1) THEN 2 ELSE 1

\* env_relocate_spec(): the copy to take when both are good.
Newer ==
  IF Serial(1) = 255 /\ Serial(2) = 0 THEN 2
  ELSE IF Serial(2) = 255 /\ Serial(1) = 0 THEN 1
  ELSE IF Serial(2) > Serial(1) THEN 2 ELSE 1

\* The copy a boot takes, 0 when there is none.
Chosen ==
  IF ~Redundant THEN IF Ok(1) THEN 1 ELSE 0
  ELSE IF Ok(1) /\ Ok(2) THEN Newer
  ELSE IF Ok(1) THEN 1 ELSE IF Ok(2) THEN 2 ELSE 0

\* The version a boot would load.
Loads == IF Chosen = 0 THEN 0 ELSE blk[Chosen][1].v

\* Mutant: env_valid is 0 when no copy is good.
BootNoCopy ==
  /\ pc = "off"
  /\ env' = Loads /\ saved' = Loads /\ try' = Loads
  /\ valid' = Chosen /\ flags' = IF Chosen # 0 THEN Serial(Chosen) ELSE 0
  /\ pc' = "idle"
  /\ UNCHANGED <<good, blk, i, top, errs, cuts>>

\* env_init() and env_relocate(): with no good copy env_valid stays 1, as
\* env_init() set it, and env_flags 0.
Boot ==
  /\ pc = "off"
  /\ env' = Loads /\ saved' = Loads /\ try' = Loads
  /\ valid' = IF Chosen = 0 THEN 1 ELSE Chosen
  /\ flags' = IF Redundant /\ Chosen # 0 THEN Serial(Chosen) ELSE 0
  /\ pc' = "idle"
  /\ UNCHANGED <<good, blk, i, top, errs, cuts>>

\* setenv and the like.
Edit ==
  /\ pc = "idle" /\ top < MaxVer
  /\ top' = top + 1 /\ env' = top + 1
  /\ UNCHANGED <<good, blk, valid, flags, pc, i, saved, try, errs, cuts>>

\* Mutant: the copy that is valid is written.
TargetValid == IF Redundant THEN valid ELSE 1

\* The copy saveenv() writes.
Target == IF Redundant /\ valid = 1 THEN 2 ELSE 1

\* saveenv() up to nand_erase_opts(): the 8-bit serial number is increased.
Save ==
  /\ pc = "idle"
  /\ pc' = "erase" /\ i' = 1 /\ try' = env
  /\ flags' = IF ~Redundant THEN flags ELSE IF flags = 255 THEN 0 ELSE flags + 1
  /\ UNCHANGED <<good, blk, env, valid, saved, top, errs, cuts>>

\* nand_erase_opts(), one block of the range.
Erase ==
  /\ pc = "erase" /\ i <= good[Target]
  /\ blk' = [blk EXCEPT ![Target][i] = Erased]
  /\ i' = i + 1
  /\ UNCHANGED <<good, env, valid, flags, pc, saved, try, top, errs, cuts>>

\* A block that cannot be erased is passed over, and zero returned in the end.
EraseFails ==
  /\ pc = "erase" /\ i <= good[Target]
  /\ "erase" \in Faults /\ errs < MaxErr
  /\ i' = i + 1 /\ errs' = errs + 1
  /\ UNCHANGED <<good, blk, env, valid, flags, pc, saved, try, top, cuts>>

EraseEnd ==
  /\ pc = "erase" /\ i > good[Target]
  /\ pc' = "write" /\ i' = 1
  /\ UNCHANGED <<good, blk, env, valid, flags, saved, try, top, errs, cuts>>

\* writeenv(), one block; programming a block that is not erased spoils it.
Write ==
  /\ pc = "write" /\ i <= EnvBlocks /\ i <= good[Target]
  /\ blk' = [blk EXCEPT ![Target][i] =
               IF blk[Target][i] = Erased THEN Part(i, env, flags) ELSE Garbled]
  /\ i' = i + 1
  /\ UNCHANGED <<good, env, valid, flags, pc, saved, try, top, errs, cuts>>

\* nand_write() fails and with it saveenv().
WriteFails ==
  /\ pc = "write" /\ i <= EnvBlocks /\ i <= good[Target]
  /\ "write" \in Faults /\ errs < MaxErr
  /\ blk' = [blk EXCEPT ![Target][i] = Garbled]
  /\ pc' = "idle" /\ errs' = errs + 1
  /\ UNCHANGED <<good, env, valid, flags, i, saved, try, top, cuts>>

\* The whole image is written: saveenv() returns 0, and env_valid names the
\* copy just written.
Saved ==
  /\ pc = "write" /\ i > EnvBlocks
  /\ saved' = env
  /\ valid' = Target
  /\ pc' = "idle"
  /\ UNCHANGED <<good, blk, env, flags, i, try, top, errs, cuts>>

\* The range has too few good blocks: writeenv() fails at its end.
TooSmall ==
  /\ pc = "write" /\ i <= EnvBlocks /\ i > good[Target]
  /\ pc' = "idle"
  /\ UNCHANGED <<good, blk, env, valid, flags, i, saved, try, top, errs, cuts>>

\* The power goes, maybe in the middle of erasing or programming a block.
PowerCut ==
  /\ pc # "off" /\ cuts < MaxCuts
  /\ \/ UNCHANGED blk
     \/ /\ pc = "erase" /\ i <= good[Target]
        /\ blk' = [blk EXCEPT ![Target][i] = Garbled]
     \/ /\ pc = "write" /\ i <= EnvBlocks /\ i <= good[Target]
        /\ blk' = [blk EXCEPT ![Target][i] = Garbled]
  /\ pc' = "off" /\ cuts' = cuts + 1
  /\ UNCHANGED <<good, env, valid, flags, i, saved, try, top, errs>>

(***************************************************************************)
(* A device comes with one good copy, or with none.                        *)
(***************************************************************************)
Init ==
  /\ good \in [Copy -> GoodCounts]
  /\ \/ blk = [c \in Copy |-> [k \in 1 .. RangeBlocks |-> Erased]]
     \/ \E f \in InitFlags :
          blk = [c \in Copy |-> [k \in 1 .. RangeBlocks |->
                   IF c = 1 /\ k <= EnvBlocks /\ k <= good[1] THEN Part(k, 1, f) ELSE Erased]]
  /\ env = 0 /\ saved = 0 /\ try = 1 /\ top = 1
  /\ valid = 1 /\ flags = 0 /\ pc = "off" /\ i = 1
  /\ errs = 0 /\ cuts = 0

Next ==
  \/ Boot \/ Edit \/ Save
  \/ Erase \/ EraseFails \/ EraseEnd
  \/ Write \/ WriteFails \/ Saved \/ TooSmall
  \/ PowerCut

Spec == Init /\ [][Next]_vars

(***************************************************************************)
(* Properties.                                                             *)
(***************************************************************************)
\* Copy c holds every part of version v.
Whole(c, v) == \A k \in 1 .. EnvBlocks : blk[c][k].k = k /\ blk[c][k].v = v

\* At any moment a boot would take a copy that holds all of the version saved
\* last or of the one being saved: never a mixture, never an older one.  It
\* may find none with a single copy.
NeverStale == Chosen # 0 => Whole(Chosen, saved) \/ Whole(Chosen, try)

\* With a redundant copy no power cut during saveenv() makes a boot fall back
\* to the default environment once something has been saved.
BackupKept == saved # 0 => Chosen # 0 /\ (Whole(Chosen, saved) \/ Whole(Chosen, try))

\* What the last saveenv() reported as saved is what the next boot loads.
SavedIsLoaded == pc = "idle" /\ saved = try => Loads = saved
=============================================================================
