---------------------------- MODULE EnvNandProof ----------------------------
(***************************************************************************)
(* Proofs about saveenv and power cuts, for any sizes, bad blocks, serial  *)
(* numbers and numbers of saves and cuts: a redundant environment survives *)
(* as long as no erase or program operation fails, and with one copy a     *)
(* boot never loads a mixture or an old version, whatever fails.           *)
(***************************************************************************)
EXTENDS EnvNand, TLAPS

\* The serial number after f.
Inc(f) == IF f = 255 THEN 0 ELSE f + 1

\* The valid copy is the one a boot would take.
ValidWins == Ok(Target) => Ok(valid) /\ Newer = valid

\* While U-Boot runs, the valid copy holds what was saved last, and nothing
\* was saved when it is not good.
Kept == IF Ok(valid) THEN blk[valid][1].v = saved ELSE saved = 0

\* env_flags follows the serial number of the valid copy, unless the other
\* range is too small to be ever written completely.
InStep(f) == Ok(valid) /\ good[Target] >= EnvBlocks => flags = f

\* The inductive invariant: the valid copy is never touched, and the other
\* one is worse until it is complete.
IInv ==
  /\ TypeOK
  /\ pc = "off" => BackupKept
  /\ pc # "off" => Kept
  /\ pc = "idle" => ValidWins /\ InStep(Serial(valid))
  /\ pc \in {"erase", "write"} => try = env /\ InStep(Inc(Serial(valid)))
  /\ pc = "erase" =>
       /\ i = 1 => ValidWins
       /\ \A k \in 1 .. RangeBlocks : k < i /\ k <= good[Target] => blk[Target][k] = Erased
       /\ i > 1 => good[Target] >= 1
  /\ pc = "write" =>
       /\ i <= EnvBlocks + 1 /\ i <= good[Target] + 1
       /\ \A k \in 1 .. RangeBlocks : k <= good[Target] =>
            blk[Target][k] = IF k < i THEN Part(k, env, flags) ELSE Erased

\* The copy saveenv() writes is the one that is not valid.
LEMMA TwoCopies ==
  ASSUME Redundant, valid \in Copy
  PROVE  Target \in Copy /\ Target # valid /\ Copy = {valid, Target}
BY DEF Target, Copy

\* A copy that is erased or spoilt somewhere in its image is not good.
LEMMA NotOk ==
  ASSUME NEW c \in Copy, NEW k \in 1 .. EnvBlocks, blk[c][k].k # k
  PROVE  ~Ok(c)
BY Zenon DEF Ok

\* The copy a boot takes, in terms of the valid copy and the other one.
LEMMA ChosenCopy ==
  ASSUME Redundant, TypeOK, ValidWins
  PROVE  Chosen = IF Ok(valid) THEN valid ELSE 0
<1>1. Target \in Copy /\ Target # valid /\ valid \in Copy
  BY Zenon, TwoCopies DEF TypeOK
<1>2. CASE valid = 1
  <2>1. Target = 2
    BY Zenon, <1>1, <1>2 DEF Copy
  <2> QED
    BY Zenon, <1>2, <2>1 DEF Chosen, ValidWins
<1>3. CASE valid = 2
  <2>1. Target = 1
    BY Zenon, <1>1, <1>3 DEF Copy
  <2> QED
    BY Zenon, <1>3, <2>1 DEF Chosen, ValidWins
<1> QED
  BY Zenon, <1>1, <1>2, <1>3 DEF Copy

\* Where the valid copy wins, what was saved last is not lost.
LEMMA KeptIsBackup ==
  ASSUME Redundant, TypeOK, ValidWins, Kept
  PROVE  BackupKept /\ Loads = saved
<1>1. Chosen = IF Ok(valid) THEN valid ELSE 0
  BY Zenon, ChosenCopy
<1>2. valid \in Copy /\ 0 \notin Copy
  BY DEF TypeOK, Copy
<1>3. CASE Ok(valid)
  <2>1. Whole(valid, saved)
    BY Zenon, <1>3 DEF Kept, Ok, Whole
  <2> QED
    BY Zenon, <1>1, <1>2, <1>3, <2>1 DEF BackupKept, Loads, Kept
<1>4. CASE ~Ok(valid)
  BY Zenon, <1>1, <1>4 DEF BackupKept, Loads, Kept
<1> QED
  BY Zenon, <1>3, <1>4

\* A complete copy written by saveenv() wins over the valid one.
LEMMA CompleteWins ==
  ASSUME Redundant, TypeOK, valid \in Copy,
         InStep(Inc(Serial(valid))),
         Ok(Target), Serial(Target) = flags
  PROVE  Chosen = Target /\ (Ok(valid) => Newer = Target)
<1> USE EnvAssumption
<1>1. Target \in Copy /\ Target # valid
  BY Zenon, TwoCopies
<1>2. good[Target] >= EnvBlocks
  BY ZenonT(30) DEF Ok
<1>3. Serial(1) \in 0 .. 255 /\ Serial(2) \in 0 .. 255
  <2>0. 1 \in 1 .. RangeBlocks
    OBVIOUS
  <2>a. blk \in [Copy -> [1 .. RangeBlocks -> Block]]
    BY Zenon DEF TypeOK
  <2>b. 1 \in Copy /\ 2 \in Copy
    BY Zenon DEF Copy
  <2>1. blk[1][1] \in Block /\ blk[2][1] \in Block
    BY <2>0, <2>a, <2>b
  <2> QED
    BY <2>1 DEF Serial, Block
<1>4. Ok(valid) => Serial(Target) = Inc(Serial(valid))
  BY Zenon, <1>2 DEF InStep
<1>5. CASE valid = 1
  <2>1. Target = 2
    BY Zenon, <1>1, <1>5 DEF Copy
  <2> QED
    BY <1>3, <1>4, <1>5, <2>1 DEF Chosen, Newer, Inc
<1>6. CASE valid = 2
  <2>1. Target = 1
    BY Zenon, <1>1, <1>6 DEF Copy
  <2> QED
    BY <1>3, <1>4, <1>6, <2>1 DEF Chosen, Newer, Inc
<1> QED
  BY Zenon, <1>1, <1>5, <1>6 DEF Copy

\* Until its last block is written, the copy being saved is not good.
LEMMA IncompleteLoses ==
  ASSUME Redundant, IInv, pc # "off", ~(pc = "write" /\ i > EnvBlocks)
  PROVE  ValidWins
<1> USE EnvAssumption
<1>1. Target \in Copy /\ TypeOK
  BY Zenon, TwoCopies DEF IInv, TypeOK
<1>2. CASE pc = "idle"
  BY Zenon, <1>2 DEF IInv
<1>3. CASE pc = "erase" /\ i = 1
  BY Zenon, <1>3 DEF IInv
<1>4. CASE pc = "erase" /\ i # 1
  <2>1. i > 1 /\ good[Target] >= 1
    BY <1>1, <1>4 DEF IInv, TypeOK
  <2>2. blk[Target][1] = Erased
    BY <1>4, <2>1 DEF IInv
  <2>3. ~Ok(Target)
    BY <1>1, <2>2, NotOk DEF Erased
  <2> QED
    BY Zenon, <2>3 DEF ValidWins
<1>5. CASE pc = "write"
  <2>1. i \in 1 .. EnvBlocks
    BY <1>1, <1>5 DEF TypeOK
  <2>2. CASE i <= good[Target]
    <3>1. blk[Target][i] = Erased
      BY <1>5, <2>1, <2>2 DEF IInv
    <3>2. blk[Target][i].k # i
      BY <2>1, <3>1 DEF Erased
    <3> QED
      BY Zenon, <1>1, <2>1, <3>2, NotOk DEF ValidWins
  <2>3. CASE i > good[Target]
    BY <1>1, <2>1, <2>3 DEF ValidWins, Ok, TypeOK
  <2> QED
    BY <1>1, <2>1, <2>2, <2>3 DEF TypeOK
<1> QED
  BY Zenon, <1>1, <1>2, <1>3, <1>4, <1>5 DEF TypeOK

\* Once its last block is written, it is good and holds what is being saved.
LEMMA Complete ==
  ASSUME Redundant, IInv, pc = "write", i > EnvBlocks
  PROVE  Ok(Target) /\ Serial(Target) = flags /\ Whole(Target, env)
<1> USE EnvAssumption
<1>1. i \in Nat /\ good[Target] \in Nat /\ i <= good[Target] + 1 /\ i <= EnvBlocks + 1
  BY TwoCopies DEF IInv, TypeOK
<1>2. \A k \in 1 .. EnvBlocks : blk[Target][k] = Part(k, env, flags)
  <2> SUFFICES ASSUME NEW k \in 1 .. EnvBlocks PROVE blk[Target][k] = Part(k, env, flags)
    BY Zenon
  <2>1. k \in 1 .. RangeBlocks /\ k < i /\ k <= good[Target]
    BY <1>1
  <2> QED
    BY Zenon, <2>1 DEF IInv
<1>3. good[Target] >= EnvBlocks
  BY <1>1
<1>4. blk[Target][1] = Part(1, env, flags)
  BY <1>2
<1>5. ASSUME NEW k \in 1 .. EnvBlocks PROVE blk[Target][k].k = k /\ blk[Target][k].v = env
  <2>1. blk[Target][k] = [k |-> k, v |-> env, f |-> flags]
    BY Zenon, <1>2 DEF Part
  <2> QED
    BY <2>1
<1>6. blk[Target][1].v = env /\ blk[Target][1].f = flags
  BY <1>4 DEF Part
<1> QED
  BY Zenon, <1>3, <1>5, <1>6 DEF Ok, Serial, Whole

\* The inductive invariant implies the two properties.
LEMMA InvImplies ==
  ASSUME Redundant, IInv
  PROVE  BackupKept /\ SavedIsLoaded
<1>1. TypeOK
  BY Zenon DEF IInv
<1>2. CASE pc = "off"
  BY Zenon, <1>2 DEF IInv, SavedIsLoaded
<1>3. CASE pc # "off" /\ ~(pc = "write" /\ i > EnvBlocks)
  BY Zenon, <1>1, <1>3, IncompleteLoses, KeptIsBackup DEF IInv, SavedIsLoaded
<1>4. CASE pc = "write" /\ i > EnvBlocks
  <2>1. Chosen = Target
    BY Zenon, <1>1, <1>4, Complete, CompleteWins DEF IInv, TypeOK
  <2>2. Chosen # 0 /\ Whole(Chosen, try)
    BY <1>1, <1>4, <2>1, Complete, TwoCopies DEF IInv, TypeOK, Copy
  <2> QED
    BY Zenon, <1>4, <2>2 DEF BackupKept, SavedIsLoaded
<1> QED
  BY Zenon, <1>2, <1>3, <1>4

\* A boot loads some version, with a serial number of eight bits.
LEMMA LoadsType ==
  ASSUME TypeOK
  PROVE  /\ Loads \in Nat /\ Chosen \in {0, 1, 2}
         /\ \A c \in Copy : Serial(c) \in 0 .. 255
<1> USE EnvAssumption
<1>1. 1 \in 1 .. RangeBlocks
  OBVIOUS
<1>2. blk \in [Copy -> [1 .. RangeBlocks -> Block]]
  BY Zenon DEF TypeOK
<1>3. \A c \in Copy : blk[c][1] \in Block
  BY <1>1, <1>2
<1>4. Chosen \in {0, 1, 2}
  BY DEF Chosen, Newer
<1>5. \A c \in Copy : blk[c][1].v \in Nat /\ blk[c][1].f \in 0 .. 255
  BY <1>3 DEF Block
<1> QED
  BY <1>4, <1>5 DEF Loads, Serial, Copy

\* Every step keeps the types.
LEMMA TypeStep ==
  ASSUME TypeOK, [Next]_vars
  PROVE  TypeOK'
<1> USE EnvAssumption
<1>1. Target \in Copy
  BY Zenon DEF Target, Copy
<1>2. /\ Erased \in Block /\ Garbled \in Block
      /\ \A k \in 1 .. RangeBlocks : Part(k, env, flags) \in Block
  BY DEF Erased, Garbled, Part, Block, TypeOK
<1>3. ASSUME NEW b \in Block, NEW k \in 1 .. RangeBlocks
      PROVE  [blk EXCEPT ![Target][k] = b] \in [Copy -> [1 .. RangeBlocks -> Block]]
  BY <1>1 DEF TypeOK
<1>4. pc = "erase" /\ i <= good[Target] => i \in 1 .. RangeBlocks
  BY <1>1 DEF TypeOK
<1>5. pc = "write" /\ i <= EnvBlocks => i \in 1 .. RangeBlocks
  BY DEF TypeOK
<1>6. CASE Boot
  <2>1. Loads \in Nat /\ valid' \in Copy /\ flags' \in 0 .. 255
    BY <1>6, LoadsType DEF Boot, Copy
  <2>2. good' = good /\ blk' = blk /\ pc' = "idle"
    BY Zenon, <1>6 DEF Boot
  <2> QED
    BY <1>6, <2>1, <2>2 DEF Boot, TypeOK
<1>7. CASE Edit
  BY <1>7 DEF Edit, TypeOK
<1>8. CASE Save
  BY <1>8 DEF Save, TypeOK
<1>9. CASE Erase
  <2>1. Erased \in Block /\ i \in 1 .. RangeBlocks
    BY Zenon, <1>2, <1>4, <1>9 DEF Erase
  <2>2. blk' = [blk EXCEPT ![Target][i] = Erased]
    BY Zenon, <1>9 DEF Erase
  <2>3. blk' \in [Copy -> [1 .. RangeBlocks -> Block]]
    BY Zenon, <1>3, <2>1, <2>2
  <2> QED
    BY <1>9, <2>3 DEF Erase, TypeOK
<1>10. CASE EraseFails
  BY <1>10 DEF EraseFails, TypeOK
<1>11. CASE EraseEnd
  BY <1>11 DEF EraseEnd, TypeOK
<1>12. CASE Write
  <2>1. (IF blk[Target][i] = Erased THEN Part(i, env, flags) ELSE Garbled) \in Block /\ i \in 1 .. RangeBlocks
    BY Zenon, <1>2, <1>5, <1>12 DEF Write
  <2>2. blk' = [blk EXCEPT ![Target][i] = (IF blk[Target][i] = Erased THEN Part(i, env, flags) ELSE Garbled)]
    BY Zenon, <1>12 DEF Write
  <2>3. blk' \in [Copy -> [1 .. RangeBlocks -> Block]]
    BY Zenon, <1>3, <2>1, <2>2
  <2> QED
    BY <1>12, <2>3 DEF Write, TypeOK
<1>13. CASE WriteFails
  <2>1. Garbled \in Block /\ i \in 1 .. RangeBlocks
    BY Zenon, <1>2, <1>5, <1>13 DEF WriteFails
  <2>2. blk' = [blk EXCEPT ![Target][i] = Garbled]
    BY Zenon, <1>13 DEF WriteFails
  <2>3. blk' \in [Copy -> [1 .. RangeBlocks -> Block]]
    BY Zenon, <1>3, <2>1, <2>2
  <2> QED
    BY <1>13, <2>3 DEF WriteFails, TypeOK
<1>14. CASE Saved
  BY Zenon, <1>1, <1>14 DEF Saved, TypeOK
<1>15. CASE TooSmall
  BY Zenon, <1>15 DEF TooSmall, TypeOK
<1>16. CASE PowerCut
  <2>1. CASE UNCHANGED blk
    BY <1>16, <2>1 DEF PowerCut, TypeOK
  <2>2. CASE ~UNCHANGED blk
    <3>1. i \in 1 .. RangeBlocks /\ blk' = [blk EXCEPT ![Target][i] = Garbled]
      BY Zenon, <1>4, <1>5, <1>16, <2>2 DEF PowerCut
    <3>2. blk' \in [Copy -> [1 .. RangeBlocks -> Block]]
      BY Zenon, <1>2, <1>3, <3>1
    <3> QED
      BY <1>16, <3>2 DEF PowerCut, TypeOK
  <2> QED
    BY Zenon, <2>1, <2>2
<1>17. CASE UNCHANGED vars
  BY Zenon, <1>17 DEF vars, TypeOK
<1> QED
  BY Zenon, <1>6, <1>7, <1>8, <1>9, <1>10, <1>11, <1>12, <1>13, <1>14, <1>15, <1>16, <1>17 DEF Next

\* What a boot finds depends on the flash only.
LEMMA SameFlash ==
  ASSUME blk' = blk, good' = good
  PROVE  /\ \A c \in Copy : (Ok(c)' <=> Ok(c)) /\ Serial(c)' = Serial(c)
         /\ Newer' = Newer /\ Chosen' = Chosen /\ Loads' = Loads
BY DEF Ok, Serial, Newer, Chosen, Loads

\* Writing to the other copy leaves the valid one as it is.
LEMMA ValidUntouched ==
  ASSUME Redundant, TypeOK, NEW k \in 1 .. RangeBlocks, NEW b,
         blk' = [blk EXCEPT ![Target][k] = b], good' = good, valid' = valid
  PROVE  /\ blk'[valid] = blk[valid] /\ Target' = Target
         /\ (Ok(valid)' <=> Ok(valid)) /\ Serial(valid)' = Serial(valid)
         /\ blk'[Target] = [blk[Target] EXCEPT ![k] = b]
<1>1. Target \in Copy /\ Target # valid /\ valid \in Copy
  BY Zenon, TwoCopies DEF TypeOK
<1>2. blk'[valid] = blk[valid] /\ blk'[Target] = [blk[Target] EXCEPT ![k] = b]
  BY <1>1 DEF TypeOK
<1> QED
  BY <1>2 DEF Target, Ok, Serial

\* The device comes with one good copy or with none, and with nothing saved.
LEMMA InvInit ==
  ASSUME Init
  PROVE  IInv
<1> USE EnvAssumption
<1>1. good \in [Copy -> 0 .. RangeBlocks]
  BY Zenon DEF Init
<1>2. blk \in [Copy -> [1 .. RangeBlocks -> Block]]
  <2>1. Erased \in Block
    BY DEF Erased, Block
  <2>2. ASSUME NEW f \in InitFlags, NEW k \in 1 .. RangeBlocks PROVE Part(k, 1, f) \in Block
    BY DEF Part, Block
  <2>3. CASE blk = [c \in Copy |-> [k \in 1 .. RangeBlocks |-> Erased]]
    BY Zenon, <2>1, <2>3
  <2>4. ASSUME NEW f \in InitFlags,
               blk = [c \in Copy |-> [k \in 1 .. RangeBlocks |->
                   IF c = 1 /\ k <= EnvBlocks /\ k <= good[1] THEN Part(k, 1, f) ELSE Erased]]
        PROVE  blk \in [Copy -> [1 .. RangeBlocks -> Block]]
    BY Zenon, <2>1, <2>2, <2>4
  <2> QED
    BY Zenon, <2>3, <2>4 DEF Init
<1>3. TypeOK
  BY <1>1, <1>2 DEF Init, TypeOK, Copy
<1> QED
  BY Zenon, <1>3 DEF Init, IInv, BackupKept

\* After a boot the copy loaded is the valid one.
LEMMA BootStep ==
  ASSUME Redundant, IInv, TypeOK', Boot
  PROVE  IInv'
<1>1. blk' = blk /\ good' = good /\ pc' = "idle" /\ saved' = Loads
      /\ valid' = (IF Chosen = 0 THEN 1 ELSE Chosen)
  BY Zenon DEF Boot
<1>2. /\ \A c \in Copy : (Ok(c)' <=> Ok(c)) /\ Serial(c)' = Serial(c)
      /\ Newer' = Newer
  BY Zenon, <1>1, SameFlash
<1>3. Chosen \in {0, 1, 2}
  BY Zenon DEF Chosen, Newer
<1>4. valid' \in Copy /\ Target' = (IF valid' = 1 THEN 2 ELSE 1)
  BY Zenon, <1>1, <1>3 DEF Target, Copy
<1>5. (Ok(valid)' <=> Ok(valid')) /\ Serial(valid)' = Serial(valid')
  BY Zenon, <1>1 DEF Ok, Serial
<1>6. Ok(Target)' <=> Ok(Target')
  BY Zenon, <1>1 DEF Ok
<1>7. Ok(valid') <=> Chosen # 0
  BY <1>1, <1>3 DEF Chosen, Newer
<1>8. Kept'
  BY Zenon, <1>1, <1>5, <1>7 DEF Kept, Loads
<1>9. ValidWins'
  <2>1. Ok(Target') => Ok(valid') /\ Newer = valid'
    BY <1>1, <1>3, <1>4 DEF Chosen, Newer
  <2> QED
    BY Zenon, <1>2, <1>5, <1>6, <2>1 DEF ValidWins
<1>10. InStep(Serial(valid))'
  <2>1. Ok(valid)' => flags' = Serial(valid)'
    BY Zenon, <1>1, <1>5, <1>7 DEF Boot
  <2> QED
    BY Zenon, <2>1 DEF InStep
<1> QED
  BY Zenon, <1>1, <1>8, <1>9, <1>10 DEF IInv

\* Steps that leave the flash and the valid copy alone.
LEMMA QuietStep ==
  ASSUME Redundant, IInv, TypeOK', blk' = blk, good' = good, valid' = valid
  PROVE  /\ Target' = Target /\ (ValidWins' <=> ValidWins)
         /\ (saved' = saved => (Kept' <=> Kept))
         /\ Serial(valid)' = Serial(valid)
         /\ (Ok(valid)' <=> Ok(valid))
         /\ \A f : flags' = flags => (InStep(f)' <=> InStep(f))
BY DEF Target, ValidWins, Kept, InStep, Ok, Serial, Newer

\* Changing a variable of the environment, and starting to save it.
LEMMA EditSaveStep ==
  ASSUME Redundant, IInv, TypeOK', Edit \/ Save
  PROVE  IInv'
<1>1. blk' = blk /\ good' = good /\ valid' = valid /\ saved' = saved /\ pc = "idle"
  BY Zenon DEF Edit, Save
<1>2. ValidWins' /\ Kept'
  BY Zenon, <1>1, QuietStep DEF IInv
<1>3. CASE Edit
  <2>1. flags' = flags /\ pc' = "idle"
    BY Zenon, <1>3 DEF Edit
  <2>2. InStep(Serial(valid))'
    BY Zenon, <1>1, <2>1 DEF IInv, InStep, Ok, Serial, Target
  <2> QED
    BY Zenon, <1>2, <2>1, <2>2 DEF IInv
<1>4. CASE Save
  <2>1. flags' = Inc(flags) /\ pc' = "erase" /\ i' = 1 /\ try' = env' /\ Target' = Target
    BY Zenon, <1>1, <1>4 DEF Save, Inc, Target
  <2>2. InStep(Inc(Serial(valid)))'
    BY <1>1, <2>1 DEF IInv, InStep, Ok, Serial, Inc
  <2>3. \A k \in 1 .. RangeBlocks : ~(k < i')
    BY <2>1
  <2> QED
    BY <1>2, <2>1, <2>2, <2>3 DEF IInv
<1> QED
  BY Zenon, <1>3, <1>4

\* Erasing a block of the other copy.
LEMMA EraseStep ==
  ASSUME Redundant, IInv, TypeOK', Erase
  PROVE  IInv'
<1> USE EnvAssumption
<1>1. TypeOK /\ Target \in Copy /\ good[Target] \in 0 .. RangeBlocks /\ i \in Nat \ {0}
  BY TwoCopies DEF IInv, TypeOK
<1>2. i \in 1 .. RangeBlocks /\ i <= good[Target]
  BY <1>1 DEF Erase
<1>3. /\ blk'[valid] = blk[valid] /\ Target' = Target
      /\ (Ok(valid)' <=> Ok(valid)) /\ Serial(valid)' = Serial(valid)
      /\ blk'[Target] = [blk[Target] EXCEPT ![i] = Erased]
  BY Zenon, <1>1, <1>2, ValidUntouched DEF Erase
<1>4. Kept'
  BY Zenon, <1>3 DEF Erase, IInv, Kept
<1>5. try' = env' /\ InStep(Inc(Serial(valid)))'
  BY Zenon, <1>3 DEF Erase, IInv, InStep
<1>6. ASSUME NEW k \in 1 .. RangeBlocks, k < i', k <= good'[Target']
      PROVE  blk'[Target'][k] = Erased
  <2>1. blk[Target] \in [1 .. RangeBlocks -> Block] /\ good' = good /\ i' = i + 1
    BY <1>1 DEF TypeOK, Erase
  <2>2. CASE k = i
    BY <1>2, <1>3, <2>1, <2>2
  <2>3. CASE k # i
    <3>1. k < i /\ k <= good[Target]
      BY <1>1, <1>3, <1>6, <2>1, <2>3
    <3>2. blk[Target][k] = Erased
      BY Zenon, <3>1 DEF IInv, Erase
    <3> QED
      BY <1>3, <2>1, <2>3, <3>2
  <2> QED
    BY Zenon, <2>2, <2>3
<1>7. i' # 1 /\ good'[Target'] >= 1 /\ pc' = "erase"
  BY <1>1, <1>2, <1>3 DEF Erase
<1> QED
  BY Zenon, <1>4, <1>5, <1>6, <1>7 DEF IInv

\* The range is erased: nothing of the image is written yet.
LEMMA EraseEndStep ==
  ASSUME Redundant, IInv, TypeOK', EraseEnd
  PROVE  IInv'
<1> USE EnvAssumption
<1>1. TypeOK /\ Target \in Copy /\ good[Target] \in 0 .. RangeBlocks /\ i \in Nat \ {0}
  BY TwoCopies DEF IInv, TypeOK
<1>2. /\ blk' = blk /\ good' = good /\ valid' = valid /\ saved' = saved /\ flags' = flags
      /\ pc = "erase" /\ pc' = "write" /\ i' = 1 /\ try' = try /\ env' = env /\ i > good[Target]
  BY Zenon DEF EraseEnd
<1>3. Target' = Target /\ Kept'
  BY Zenon, <1>2, QuietStep DEF IInv
<1>4. InStep(Inc(Serial(valid)))'
  BY <1>2 DEF IInv, InStep, Ok, Serial, Target
<1>5. ASSUME NEW k \in 1 .. RangeBlocks, k <= good'[Target']
      PROVE  blk'[Target'][k] = IF k < i' THEN Part(k, env', flags') ELSE Erased
  <2>1. k < i /\ k <= good[Target] /\ ~(k < i')
    BY <1>1, <1>2, <1>3, <1>5
  <2>2. blk[Target][k] = Erased
    BY Zenon, <1>2, <2>1 DEF IInv
  <2> QED
    BY Zenon, <1>2, <1>3, <2>1, <2>2
<1>6. i' <= EnvBlocks + 1 /\ i' <= good'[Target'] + 1
  BY <1>1, <1>2, <1>3
<1>7. try' = env'
  BY Zenon, <1>2 DEF IInv
<1> QED
  BY Zenon, <1>2, <1>3, <1>4, <1>5, <1>6, <1>7 DEF IInv, Part

\* Writing a block of the other copy.
LEMMA WriteStep ==
  ASSUME Redundant, IInv, TypeOK', Write
  PROVE  IInv'
<1> USE EnvAssumption
<1>1. TypeOK /\ Target \in Copy /\ good[Target] \in 0 .. RangeBlocks /\ i \in Nat \ {0}
  BY TwoCopies DEF IInv, TypeOK
<1>2. i \in 1 .. RangeBlocks /\ i <= good[Target] /\ i <= EnvBlocks /\ pc = "write"
  BY <1>1 DEF Write
<1>a. blk[Target][i] = Erased
  BY <1>1, <1>2 DEF IInv
<1>b. blk' = [blk EXCEPT ![Target][i] = Part(i, env, flags)]
  BY Zenon, <1>a DEF Write
<1>3. /\ blk'[valid] = blk[valid] /\ Target' = Target
      /\ (Ok(valid)' <=> Ok(valid)) /\ Serial(valid)' = Serial(valid)
      /\ blk'[Target] = [blk[Target] EXCEPT ![i] = Part(i, env, flags)]
  BY Zenon, <1>1, <1>2, <1>b, ValidUntouched DEF Write
<1>4. Kept'
  BY <1>3 DEF Write, IInv, Kept
<1>5. try' = env' /\ InStep(Inc(Serial(valid)))'
  BY Zenon, <1>3 DEF Write, IInv, InStep
<1>6. ASSUME NEW k \in 1 .. RangeBlocks, k <= good'[Target']
      PROVE  blk'[Target'][k] = IF k < i' THEN Part(k, env', flags') ELSE Erased
  <2>1. blk[Target] \in [1 .. RangeBlocks -> Block] /\ good' = good /\ i' = i + 1
        /\ env' = env /\ flags' = flags
    BY <1>1 DEF TypeOK, Write
  <2>2. CASE k = i
    BY <1>1, <1>2, <1>3, <2>1, <2>2
  <2>3. CASE k # i
    <3>1. k <= good[Target] /\ (k < i' <=> k < i)
      BY <1>1, <1>3, <1>6, <2>1, <2>3
    <3>2. blk[Target][k] = IF k < i THEN Part(k, env, flags) ELSE Erased
      BY Zenon, <1>2, <3>1 DEF IInv
    <3>3. blk'[Target'][k] = blk[Target][k]
      BY <1>3, <2>1, <2>3
    <3> QED
      BY Zenon, <2>1, <3>1, <3>2, <3>3
  <2> QED
    BY Zenon, <2>2, <2>3
<1>7. i' <= EnvBlocks + 1 /\ i' <= good'[Target'] + 1 /\ pc' = "write"
  BY <1>1, <1>2, <1>3 DEF Write
<1> QED
  BY Zenon, <1>4, <1>5, <1>6, <1>7 DEF IInv, Part

\* saveenv() returns 0: the copies change roles.
LEMMA SavedStep ==
  ASSUME Redundant, IInv, TypeOK', Saved
  PROVE  IInv'
<1>1. /\ blk' = blk /\ good' = good /\ valid' = Target /\ saved' = env /\ flags' = flags
      /\ pc = "write" /\ pc' = "idle" /\ i > EnvBlocks
  BY Zenon DEF Saved
<1>2. TypeOK /\ valid \in Copy /\ Target \in Copy /\ Target # valid
  BY Zenon, TwoCopies DEF IInv, TypeOK
<1>3. Ok(Target) /\ Serial(Target) = flags /\ Whole(Target, env)
  BY Zenon, <1>1, Complete
<1>4. Ok(valid) => Newer = Target
  BY Zenon, <1>1, <1>2, <1>3, CompleteWins DEF IInv
<1>5. Target' = valid
  BY Zenon, <1>1, <1>2 DEF Target, Copy
<1>6. /\ (Ok(valid)' <=> Ok(Target)) /\ Serial(valid)' = Serial(Target)
      /\ (Ok(Target)' <=> Ok(valid)) /\ Newer' = Newer
  BY <1>1, <1>5 DEF Ok, Serial, Newer
<1>7. blk[Target][1].v = env
  BY <1>3, EnvAssumption DEF Whole
<1>8. Kept' /\ ValidWins' /\ InStep(Serial(valid))'
  BY Zenon, <1>1, <1>3, <1>4, <1>6, <1>7 DEF Kept, ValidWins, InStep
<1> QED
  BY Zenon, <1>1, <1>8 DEF IInv

\* The other range has too few good blocks: the valid copy stays.
LEMMA TooSmallStep ==
  ASSUME Redundant, IInv, TypeOK', TooSmall
  PROVE  IInv'
<1> USE EnvAssumption
<1>1. /\ blk' = blk /\ good' = good /\ valid' = valid /\ saved' = saved /\ flags' = flags
      /\ pc = "write" /\ pc' = "idle" /\ i <= EnvBlocks /\ i > good[Target]
  BY Zenon DEF TooSmall
<1>2. i \in Nat /\ good[Target] \in Nat
  BY TwoCopies DEF IInv, TypeOK
<1>3. ValidWins
  BY <1>1, <1>2, IncompleteLoses
<1>4. ValidWins' /\ Kept' /\ Target' = Target
  BY Zenon, <1>1, <1>3, QuietStep DEF IInv
<1>5. ~(good'[Target'] >= EnvBlocks)
  BY <1>1, <1>2, <1>4
<1> QED
  BY Zenon, <1>1, <1>4, <1>5 DEF IInv, InStep

\* A power cut in the middle of a block spoils the other copy only.
LEMMA TornStep ==
  ASSUME Redundant, IInv, TypeOK', PowerCut, blk' # blk
  PROVE  BackupKept'
<1> USE EnvAssumption
<1>1. /\ TypeOK /\ valid \in Copy /\ Target \in Copy /\ Target # valid
      /\ good[Target] \in 0 .. RangeBlocks /\ i \in Nat \ {0}
  BY ZenonT(30), TwoCopies DEF IInv, TypeOK
<1>2. /\ i <= good[Target] /\ blk' = [blk EXCEPT ![Target][i] = Garbled]
      /\ pc = "erase" \/ (pc = "write" /\ i <= EnvBlocks)
  BY Zenon DEF PowerCut
<1>3. good' = good /\ valid' = valid /\ saved' = saved /\ try' = try /\ pc # "off"
  BY Zenon DEF PowerCut
<1>4. i \in 1 .. RangeBlocks
  BY <1>1, <1>2
<1>5. /\ blk'[valid] = blk[valid] /\ Target' = Target
      /\ (Ok(valid)' <=> Ok(valid))
      /\ blk'[Target] = [blk[Target] EXCEPT ![i] = Garbled]
  BY ZenonT(30), <1>1, <1>2, <1>3, <1>4, ValidUntouched
<1>6. blk[Target] \in [1 .. RangeBlocks -> Block]
  BY <1>1 DEF TypeOK
<1>7. \E k \in 1 .. EnvBlocks : blk'[Target][k].k # k
  <2>1. CASE i <= EnvBlocks
    <3>1. blk'[Target][i] = Garbled /\ i \in 1 .. EnvBlocks
      BY <1>1, <1>4, <1>5, <1>6, <2>1
    <3>2. Garbled.k # i
      BY <1>1 DEF Garbled
    <3> QED
      BY Zenon, <3>1, <3>2
  <2>2. CASE i > EnvBlocks
    <3>1. pc = "erase" /\ 1 < i /\ 1 <= good[Target] /\ 1 \in 1 .. RangeBlocks
      BY <1>1, <1>2, <2>2
    <3>2. blk[Target][1] = Erased
      BY Zenon, <3>1 DEF IInv
    <3>3. blk'[Target][1] = Erased /\ 1 \in 1 .. EnvBlocks
      BY <1>5, <1>6, <3>1, <3>2
    <3>4. Erased.k # 1
      BY DEF Erased
    <3> QED
      BY Zenon, <3>3, <3>4
  <2> QED
    BY <1>1, <2>1, <2>2
<1>8. ~Ok(Target)'
  BY Zenon, <1>5, <1>7 DEF Ok
<1>9. Chosen' = IF Ok(valid)' THEN valid ELSE 0
  <2>1. CASE valid = 1
    <3>1. Target' = 2 /\ valid' = 1
      BY Zenon, <1>1, <1>3, <1>5, <2>1 DEF Copy
    <3> QED
      BY Zenon, <1>8, <2>1, <3>1 DEF Chosen
  <2>2. CASE valid = 2
    <3>1. Target' = 1 /\ valid' = 2
      BY Zenon, <1>1, <1>3, <1>5, <2>2 DEF Copy
    <3> QED
      BY Zenon, <1>8, <2>2, <3>1 DEF Chosen
  <2> QED
    BY Zenon, <1>1, <2>1, <2>2 DEF Copy
<1>10. Kept
  BY Zenon, <1>3 DEF IInv
<1>11. CASE Ok(valid)
  <2>1. Chosen' = valid /\ valid # 0
    BY <1>1, <1>5, <1>9, <1>11 DEF Copy
  <2>2. \A k \in 1 .. EnvBlocks : blk'[valid][k].k = k /\ blk'[valid][k].v = saved
    BY <1>5, <1>10, <1>11 DEF Ok, Kept
  <2>3. Whole(Chosen, saved)'
    BY Zenon, <1>3, <2>1, <2>2 DEF Whole
  <2> QED
    BY Zenon, <2>1, <2>3 DEF BackupKept
<1>12. CASE ~Ok(valid)
  BY Zenon, <1>3, <1>10, <1>12 DEF Kept, BackupKept
<1> QED
  BY Zenon, <1>11, <1>12

\* A power cut leaves what a boot needs.
LEMMA PowerCutStep ==
  ASSUME Redundant, IInv, TypeOK', PowerCut
  PROVE  IInv'
<1>1. pc' = "off" /\ good' = good /\ saved' = saved /\ try' = try
  BY Zenon DEF PowerCut
<1>2. CASE blk' = blk
  <2>1. Chosen' = Chosen
    BY Zenon, <1>1, <1>2, SameFlash
  <2>2. BackupKept
    BY Zenon, InvImplies
  <2>3. BackupKept'
    BY Zenon, <1>1, <1>2, <2>1, <2>2 DEF BackupKept, Whole
  <2> QED
    BY Zenon, <1>1, <2>3 DEF IInv
<1>3. CASE blk' # blk
  BY Zenon, <1>1, <1>3, TornStep DEF IInv
<1> QED
  BY Zenon, <1>2, <1>3

\* The invariant is inductive as long as no operation on the flash fails.
LEMMA InvStep ==
  ASSUME Redundant, Faults = {}, IInv, [Next]_vars
  PROVE  IInv'
<1>1. TypeOK'
  BY Zenon, TypeStep DEF IInv
<1>2. ~EraseFails /\ ~WriteFails
  BY Zenon DEF EraseFails, WriteFails
<1>3. CASE UNCHANGED vars
  <2>1. /\ good' = good /\ blk' = blk /\ env' = env /\ valid' = valid /\ flags' = flags
        /\ pc' = pc /\ i' = i /\ saved' = saved /\ try' = try
    BY Zenon, <1>3 DEF vars
  <2>2. BackupKept' <=> BackupKept
    BY <2>1, SameFlash DEF BackupKept, Whole
  <2>3. /\ Target' = Target /\ (ValidWins' <=> ValidWins) /\ (Kept' <=> Kept)
        /\ (InStep(Serial(valid))' <=> InStep(Serial(valid)))
        /\ (InStep(Inc(Serial(valid)))' <=> InStep(Inc(Serial(valid))))
    BY <2>1 DEF Target, ValidWins, Kept, InStep, Ok, Serial, Newer, Inc
  <2> QED
    BY Zenon, <1>1, <2>1, <2>2, <2>3 DEF IInv
<1> QED
  BY Zenon, <1>1, <1>2, <1>3, BootStep, EditSaveStep, EraseStep, EraseEndStep, WriteStep,
     SavedStep, TooSmallStep, PowerCutStep DEF Next

(***************************************************************************)
(* With a redundant copy, whatever the block and image sizes, the bad      *)
(* blocks, the serial number found and the number of saves and power cuts: *)
(* what a saveenv reported as saved is what the next boot loads, and a     *)
(* power cut during a saveenv leaves the old or the new environment whole. *)
(***************************************************************************)
THEOREM BackupSurvives ==
  ASSUME Redundant, Faults = {}
  PROVE  Spec => [](BackupKept /\ SavedIsLoaded)
<1>1. Init => IInv
  BY Zenon, InvInit
<1>2. IInv /\ [Next]_vars => IInv'
  BY Zenon, InvStep
<1>3. IInv => BackupKept /\ SavedIsLoaded
  BY Zenon, InvImplies
<1> QED
  BY <1>1, <1>2, <1>3, PTL DEF Spec

\* What a saveenv reported as saved is what the next boot loads: the comparison of
\* serial numbers never prefers the older of two good copies.
THEOREM SavedLoads ==
  ASSUME Redundant, Faults = {}
  PROVE  Spec => []SavedIsLoaded
BY BackupSurvives, PTL

\* Whatever layout, bad blocks and faults: the environment device keeps to its blocks,
\* and what getenv(), saveenv() and a boot leave is in range.
THEOREM EnvTyping == Spec => []TypeOK
<1>1. Init => TypeOK
  BY Zenon, InvInit DEF IInv
<1>2. TypeOK /\ [Next]_vars => TypeOK'
  BY Zenon, TypeStep
<1> QED
  BY <1>1, <1>2, PTL DEF Spec

-----------------------------------------------------------------------------
(* One copy, this board's layout: a boot never loads a mixture of          *)
(* environments or one older than the last saved, whatever erase and       *)
(* program operations fail and wherever the power is cut.                  *)

\* If the copy is good it is of version v.
Only(v) == Ok(1) => blk[1][1].v = v

\* The inductive invariant: the first block decides which version a good copy is
\* of, and it is the new one's from the moment writeenv() has programmed it.
SingleInv ==
  /\ TypeOK
  /\ pc = "off" => Only(saved) \/ Only(try)
  /\ pc \in {"idle", "erase"} => Only(saved)
  /\ pc \in {"erase", "write"} => try = env
  /\ pc = "write" => IF i = 1 THEN Only(saved) ELSE blk[1][1].k = 1 => blk[1][1].v = env

\* There is one copy to choose from, and one to write.
LEMMA OneCopy ==
  ASSUME ~Redundant
  PROVE  Target = 1 /\ Chosen = IF Ok(1) THEN 1 ELSE 0
BY Zenon DEF Target, Chosen

\* The blocks of the copy that count.
LEMMA FirstBlock ==
  ASSUME TypeOK
  PROVE  /\ 1 \in 1 .. EnvBlocks /\ 1 .. EnvBlocks \subseteq 1 .. RangeBlocks
         /\ good[1] \in 0 .. RangeBlocks
         /\ blk \in [Copy -> [1 .. RangeBlocks -> Block]] /\ 1 \in Copy
         /\ i \in Nat \ {0}
BY EnvAssumption DEF TypeOK, Copy

\* A block erased or spoilt leaves no good copy of another version behind.
LEMMA Spoilt ==
  ASSUME TypeOK, NEW j \in 1 .. RangeBlocks, NEW b, b.k # j,
         blk' = [blk EXCEPT ![1][j] = b], good' = good, NEW v, Only(v)
  PROVE  /\ Ok(1)' => blk'[1][1].v = v
         /\ j \in 1 .. EnvBlocks => ~Ok(1)'
<1>1. blk'[1][j] = b /\ \A k \in 1 .. RangeBlocks \ {j} : blk'[1][k] = blk[1][k]
  BY Zenon, FirstBlock
<1>2. j \in 1 .. EnvBlocks => ~Ok(1)'
  BY Zenon, <1>1 DEF Ok
<1>3. CASE j \notin 1 .. EnvBlocks
  <2>1. \A k \in 1 .. EnvBlocks : blk'[1][k] = blk[1][k]
    BY Zenon, <1>1, <1>3, FirstBlock
  <2>2. blk'[1][1] = blk[1][1]
    BY Zenon, <2>1, FirstBlock
  <2>3. Ok(1)' => Ok(1)
    BY Zenon, <2>1, <2>2 DEF Ok
  <2> QED
    BY Zenon, <1>2, <2>2, <2>3 DEF Only
<1> QED
  BY Zenon, <1>2, <1>3

\* A step that leaves the flash alone.
LEMMA Untouched ==
  ASSUME blk' = blk, good' = good
  PROVE  /\ Ok(1)' <=> Ok(1)
         /\ \A v : Only(v) => (Ok(1)' => blk'[1][1].v = v)
BY Zenon DEF Ok, Only

\* A device comes with all of version 1 or with nothing.
LEMMA SingleInit ==
  ASSUME Init
  PROVE  SingleInv
<1>1. TypeOK
  BY Zenon, InvInit DEF IInv
<1>2. pc = "off" /\ try = 1
  BY Zenon DEF Init
<1>3. CASE blk = [c \in Copy |-> [k \in 1 .. RangeBlocks |-> Erased]]
  <2>1. blk[1][1] = Erased
    BY Zenon, <1>1, <1>3, FirstBlock
  <2> QED
    BY <1>1, <1>2, <2>1, FirstBlock DEF SingleInv, Only, Ok, Erased
<1>4. ASSUME NEW f \in InitFlags,
             blk = [c \in Copy |-> [k \in 1 .. RangeBlocks |->
                     IF c = 1 /\ k <= EnvBlocks /\ k <= good[1] THEN Part(k, 1, f) ELSE Erased]]
      PROVE  SingleInv
  <2>1. blk[1][1] = Part(1, 1, f) \/ blk[1][1] = Erased
    BY Zenon, <1>1, <1>4, FirstBlock
  <2>2. blk[1][1].k = 1 => blk[1][1].v = 1
    BY <2>1 DEF Part, Erased
  <2> QED
    BY Zenon, <1>1, <1>2, <2>2, FirstBlock DEF SingleInv, Only, Ok
<1> QED
  BY Zenon, <1>3, <1>4 DEF Init

\* The steps that leave the flash alone: a boot, setenv, and what begins and ends
\* the phases of saveenv().
LEMMA SingleQuiet ==
  ASSUME ~Redundant, SingleInv, TypeOK', good' = good, blk' = blk,
         Boot \/ Edit \/ Save \/ EraseFails \/ EraseEnd \/ Saved \/ TooSmall
              \/ (PowerCut /\ UNCHANGED blk)
  PROVE  SingleInv'
<1> USE Untouched, FirstBlock
<1>1. TypeOK
  BY Zenon DEF SingleInv
<1>2. CASE Boot
  <2>1. Ok(1) => Loads = blk[1][1].v
    BY OneCopy DEF Loads
  <2> QED
    BY Zenon, <1>1, <1>2, <2>1 DEF Boot, SingleInv, Only, Ok
<1>3. CASE Edit
  BY Zenon, <1>1, <1>3 DEF Edit, SingleInv, Only, Ok
<1>4. CASE Save
  BY Zenon, <1>1, <1>4 DEF Save, SingleInv, Only, Ok
<1>5. CASE EraseFails
  BY Zenon, <1>1, <1>5 DEF EraseFails, SingleInv, Only, Ok
<1>6. CASE EraseEnd
  BY Zenon, <1>1, <1>6 DEF EraseEnd, SingleInv, Only, Ok
<1>7. CASE Saved
  <2>1. i # 1
    BY <1>1, <1>7, EnvAssumption DEF Saved
  <2>2. Ok(1) => blk[1][1].k = 1
    BY Zenon, <1>1 DEF Ok
  <2> QED
    BY Zenon, <1>1, <1>7, <2>1, <2>2 DEF Saved, SingleInv, Only
<1>8. CASE TooSmall
  <2>1. ~Ok(1)
    BY <1>1, <1>8, OneCopy, EnvAssumption DEF TooSmall, Ok
  <2> QED
    BY Zenon, <1>1, <1>8, <2>1 DEF TooSmall, SingleInv, Only
<1>9. CASE PowerCut
  <2>1. Only(saved) \/ Only(try)
    BY Zenon, <1>1, <1>9 DEF PowerCut, SingleInv, Only, Ok, TypeOK
  <2> QED
    BY Zenon, <1>1, <1>9, <2>1 DEF PowerCut, SingleInv, Only
<1> QED
  BY Zenon, <1>2, <1>3, <1>4, <1>5, <1>6, <1>7, <1>8, <1>9

\* The steps that erase, program or spoil a block.
LEMMA SingleBlock ==
  ASSUME ~Redundant, SingleInv, TypeOK',
         Erase \/ Write \/ WriteFails \/ (PowerCut /\ blk' # blk)
  PROVE  SingleInv'
<1>1. TypeOK /\ Target = 1
  BY Zenon, OneCopy DEF SingleInv
<1>2. good' = good /\ saved' = saved /\ try' = try /\ env' = env /\ pc \in {"erase", "write"}
  BY Zenon DEF Erase, Write, WriteFails, PowerCut
<1>3. i \in 1 .. RangeBlocks
  BY <1>1, FirstBlock, EnvAssumption DEF Erase, Write, WriteFails, PowerCut
<1>4. Erased.k # i /\ Garbled.k # i
  BY <1>3 DEF Erased, Garbled
<1>5. ASSUME NEW b \in {Erased, Garbled}, NEW v, Only(v), blk' = [blk EXCEPT ![1][i] = b]
      PROVE  (Ok(1)' => blk'[1][1].v = v) /\ (i <= EnvBlocks => ~Ok(1)')
  <2>1. i <= EnvBlocks => i \in 1 .. EnvBlocks
    BY <1>3, EnvAssumption
  <2> QED
    BY Zenon, <1>1, <1>2, <1>3, <1>4, <1>5, <2>1, Spoilt
<1>6. Only(saved) \/ Only(try)
  BY Zenon, <1>1, <1>2, FirstBlock DEF SingleInv, Only, Ok
<1>7. CASE Erase
  BY Zenon, <1>1, <1>2, <1>5, <1>7 DEF Erase, SingleInv, Only
<1>8. CASE Write
  <2>1. /\ pc = "write" /\ pc' = "write" /\ i' = i + 1
        /\ blk' = [blk EXCEPT ![1][i] =
                     IF blk[1][i] = Erased THEN Part(i, env, flags) ELSE Garbled]
    BY Zenon, <1>1, <1>8 DEF Write
  <2>2. i = 1 => blk'[1][1] \in {Part(1, env, flags), Garbled}
    BY Zenon, <1>1, <1>3, <2>1, FirstBlock
  <2>3. i # 1 => blk'[1][1] = blk[1][1]
    BY Zenon, <1>1, <1>3, <2>1, FirstBlock
  <2>4. blk'[1][1].k = 1 => blk'[1][1].v = env
    BY <2>1, <2>2, <2>3 DEF SingleInv, Part, Garbled
  <2>5. i' # 1
    BY <1>3, <2>1
  <2> QED
    BY Zenon, <1>2, <2>1, <2>4, <2>5 DEF SingleInv
<1>9. CASE WriteFails
  <2>1. ~Ok(1)'
    BY Zenon, <1>1, <1>5, <1>6, <1>9 DEF WriteFails
  <2> QED
    BY Zenon, <1>2, <1>9, <2>1 DEF WriteFails, SingleInv, Only
<1>10. CASE PowerCut /\ blk' # blk
  BY Zenon, <1>1, <1>2, <1>5, <1>6, <1>10 DEF PowerCut, SingleInv, Only
<1> QED
  BY Zenon, <1>7, <1>8, <1>9, <1>10

\* With one copy saveenv() may be cut or fail anywhere and leave no environment, but a
\* boot that finds one finds all of the version saved last or of the one being saved.
THEOREM SingleNeverStale ==
  ASSUME ~Redundant
  PROVE  Spec => []NeverStale
<1>1. Init => SingleInv
  BY Zenon, SingleInit
<1>2. SingleInv /\ [Next]_vars => SingleInv'
  <2> SUFFICES ASSUME SingleInv, [Next]_vars PROVE SingleInv'
    BY Zenon
  <2>1. TypeOK'
    BY Zenon, TypeStep DEF SingleInv
  <2>2. CASE UNCHANGED vars
    BY Zenon, <2>1, <2>2 DEF vars, SingleInv, Only, Ok
  <2>3. CASE Boot \/ Edit \/ Save \/ EraseFails \/ EraseEnd \/ Saved \/ TooSmall
                  \/ (PowerCut /\ UNCHANGED blk)
    <3>1. good' = good /\ blk' = blk
      BY Zenon, <2>3 DEF Boot, Edit, Save, EraseFails, EraseEnd, Saved, TooSmall, PowerCut
    <3> QED
      BY Zenon, <2>1, <2>3, <3>1, SingleQuiet
  <2>4. CASE Erase \/ Write \/ WriteFails \/ (PowerCut /\ blk' # blk)
    BY Zenon, <2>1, <2>4, SingleBlock
  <2> QED
    BY Zenon, <2>2, <2>3, <2>4 DEF Next
<1>3. SingleInv => NeverStale
  <2> SUFFICES ASSUME SingleInv, Ok(1) PROVE Whole(1, saved) \/ Whole(1, try)
    BY Zenon, OneCopy DEF NeverStale
  <2>1. Only(saved) \/ Only(try)
    BY Zenon, FirstBlock DEF SingleInv, Only, Ok, TypeOK
  <2>2. \A v : Only(v) => Whole(1, v)
    BY Zenon DEF Only, Ok, Whole
  <2> QED
    BY Zenon, <2>1, <2>2
<1> QED
  BY <1>1, <1>2, <1>3, PTL DEF Spec
=============================================================================
