----------------------------- MODULE UbiEbaProof -----------------------------
(***************************************************************************)
(* Theorems about UbiEba, for every number of PEBs and LEBs and every      *)
(* bound.                                                                  *)
(***************************************************************************)
EXTENDS UbiEbaBase, UbiEbaMap, UbiEbaData

\* Every variable has its type in every reachable state, whatever the code of
\* eba.c and wl.c runs into: in particular a PEB number it uses is never
\* UBI_LEB_UNMAPPED.
THEOREM Typing == Spec => []TypeOK
  <1>1. Spec => []TypeInv
    BY InitType, NextType, PTL DEF Spec
  <1>2. TypeInv => TypeOK
    BY Zenon DEF TypeInv
  <1>. QED  BY <1>1, <1>2, PTL

\* "Each VID header has a unique sequence number": next_sqnum() and the restart
\* value ubi_eba_init_scan() takes from the scan never let two PEBs the scan may
\* compare carry the same one, through retries, recover_peb(), copy_leb(), failed
\* writes and reboots.
THEOREM SequenceNumbers == Spec => []SqnumUnique
  <1>1. Spec => []TypeInv
    BY InitType, NextType, PTL DEF Spec
  <1>2. Spec => []SqInv
    BY <1>1, InitSq, NextSq, PTL DEF Spec
  <1>3. TypeInv /\ SqInv => SqnumUnique
    <2>. SUFFICES ASSUME TypeInv, SqInv PROVE SqnumUnique
      BY Zenon
    <2>1. \A p \in Seen : p \in PEB /\ Live(flash[p])
      BY Zenon, LiveIsSeen DEF Seen
    <2>. QED  BY Zenon, <2>1 DEF SqInv, Numbered, SqnumUnique
  <1>. QED  BY <1>1, <1>2, <1>3, PTL

\* Every step keeps the invariant about the table, the trees and the flash.
LEMMA MapStep ==
  ASSUME Detected, OneError \/ RecoversAtOnce', TypeInv, SqInv, MapInv, [Next]_vars
  PROVE  (TypeInv /\ SqInv /\ MapInv)'
  BY ZenonT(30), NextType, NextSq, NextMap

\* The invariant holds as long as recover_peb() recovers at once.
LEMMA MapAlways ==
  ASSUME Detected
  PROVE  Spec /\ []RecoversAtOnce => [](TypeInv /\ SqInv /\ MapInv)
  <1>1. Init => TypeInv /\ SqInv /\ MapInv
    BY ZenonT(30), InitType, InitSq, InitMap
  <1>2. TypeInv /\ SqInv /\ MapInv /\ RecoversAtOnce' /\ [Next]_vars
          => (TypeInv /\ SqInv /\ MapInv)'
    BY Zenon, MapStep
  <1>. QED  BY <1>1, <1>2, PTL DEF Spec

\* recover_peb() recovers at once when an append may fail, but the writes it makes
\* itself may not.
THEOREM OneErrorRecovers ==
  ASSUME Detected, OneError
  PROVE  Spec => []RecoversAtOnce
  <1>1. Init => TypeInv /\ SqInv /\ MapInv
    BY ZenonT(30), InitType, InitSq, InitMap
  <1>2. TypeInv /\ SqInv /\ MapInv /\ [Next]_vars => (TypeInv /\ SqInv /\ MapInv)'
    BY Zenon, MapStep
  <1>3. TypeInv /\ SqInv /\ MapInv => RecoversAtOnce
    BY Zenon DEF MapInv, Targets, RecoversAtOnce
  <1>. QED  BY <1>1, <1>2, <1>3, PTL DEF Spec

\* What ubi_wl_get_peb() hands out, and what a move is about to write to, has
\* only an EC header, as long as recover_peb() recovers at once.
THEOREM FreeErased ==
  ASSUME Detected
  PROVE  Spec /\ []RecoversAtOnce => []FreeIsErased
  <1>1. TypeInv /\ SqInv /\ MapInv => FreeIsErased
    BY ZenonT(30) DEF MapInv, Erased, FreeIsErased
  <1>. QED  BY <1>1, MapAlways, PTL

\* The EBA table names, for each LEB, a PEB with the VID header of that LEB which
\* the WL unit neither hands out nor erases, as long as recover_peb() recovers at
\* once and copy_leb() reads back what it wrote.
THEOREM TableSound ==
  ASSUME Detected
  PROVE  Spec /\ []RecoversAtOnce => []MapSound
  <1>1. TypeInv /\ SqInv /\ MapInv => MapSound
    <2>. SUFFICES ASSUME TypeInv, MapInv, NEW l \in LEB, eba_tbl[l] # None,
                         ~(op.pc = "remap" /\ op.lnum = l)
                  PROVE  /\ flash[eba_tbl[l]].vid = "ok" /\ flash[eba_tbl[l]].lnum = l
                         /\ tree[eba_tbl[l]] \in {"used", "prot", "scrub", "move", "gone"}
      BY Zenon DEF MapSound
    <2>1. PICK p \in PEB : p = eba_tbl[l]
      BY Zenon DEF TypeInv, TypeOK
    <2>2. Maps(l, p)
      BY Zenon, <2>1 DEF Maps
    <2>. QED  BY ZenonT(30), <2>1, <2>2 DEF MapInv, Mapped, Carries, Kept
  <1>. QED  BY <1>1, MapAlways, PTL

\* No PEB is lost: between calls each is free, bad or mapped, unless UBI is
\* read-only, as long as recover_peb() recovers at once.  A VID header that is read
\* back as missing does lose one.
THEOREM NothingLeaks ==
  ASSUME Detected, "novid" \notin Faults
  PROVE  Spec /\ []RecoversAtOnce => []NoLeak
  <1>1. TypeInv /\ SqInv /\ MapInv => NoLeak
    <2>. SUFFICES ASSUME MapInv, Ready, ~ro_mode, NEW p \in PEB
                  PROVE  tree[p] \in {"free", "bad"} \/ \E l \in LEB : eba_tbl[l] = p
      BY Zenon DEF NoLeak
    <2>1. Found(p) /\ ~Busy(p)
      BY ZenonT(30) DEF MapInv, NoneLost, Ready, Busy, HasNew
    <2>. QED  BY Zenon, <2>1 DEF Found, Maps
  <1>. QED  BY <1>1, MapAlways, PTL

\* Attaching never meets three PEBs of one LEB, so that the pairwise decisions of
\* compare_lebs() are enough, as long as recover_peb() recovers at once.
THEOREM TwoCopies ==
  ASSUME Detected
  PROVE  Spec /\ []RecoversAtOnce => []AtMostTwoCopies
  <1>1. TypeInv /\ SqInv /\ MapInv => AtMostTwoCopies
    <2>. SUFFICES ASSUME TypeInv, MapInv, NEW l \in LEB,
                         NEW p \in Copies(l), NEW q \in Copies(l), NEW r \in Copies(l)
                  PROVE  p = q \/ q = r \/ p = r
      BY Zenon DEF AtMostTwoCopies
    <2>1. \A x \in Copies(l) : x \in PEB /\ Live(flash[x]) /\ flash[x].lnum = l
      BY Zenon, LiveIsSeen DEF Copies, Seen
    <2>. QED  BY ZenonT(30), <2>1 DEF MapInv, NoThird
  <1>. QED  BY <1>1, MapAlways, PTL

\* Every step keeps the invariant about contents with the others.
LEMMA DataStep ==
  ASSUME Detected, NoRecovery, RetriesLeft, TypeInv, SqInv, MapInv, DataInv, [Next]_vars
  PROVE  (TypeInv /\ SqInv /\ MapInv /\ DataInv)'
  <1>1. (TypeInv /\ SqInv /\ MapInv)'
    BY Zenon, MapStep DEF NoRecovery, OneError
  <1>. QED  BY Zenon, <1>1, NextData

\* With the contents, the invariant holds as long as no write is given up.
LEMMA DataAlways ==
  ASSUME Detected, NoRecovery
  PROVE  Spec /\ []RetriesLeft => [](TypeInv /\ SqInv /\ MapInv /\ DataInv)
  <1>1. Init => TypeInv /\ SqInv /\ MapInv /\ DataInv
    BY ZenonT(30), InitType, InitSq, InitMap, InitData
  <1>2. TypeInv /\ SqInv /\ MapInv /\ DataInv /\ RetriesLeft /\ [Next]_vars
          => (TypeInv /\ SqInv /\ MapInv /\ DataInv)'
    BY Zenon, DataStep
  <1>. QED  BY <1>1, <1>2, PTL DEF Spec

\* No write is given up when no more operations fail than ubi_eba_write_leb() and
\* ubi_eba_atomic_leb_change() retry: a retry needs a failure of its own.
THEOREM FewFaultsRetried ==
  ASSUME Detected, NoRecovery, RetriesSuffice
  PROVE  Spec => []RetriesLeft
  <1>1. Init => TypeInv /\ SqInv /\ MapInv /\ DataInv
    BY ZenonT(30), InitType, InitSq, InitMap, InitData
  <1>2. TypeInv /\ DataInv => RetriesLeft
    BY EbaAssumption DEF TypeInv, TypeOK, OpState, DataInv, Counted, RetriesSuffice, RetriesLeft
  <1>3. TypeInv /\ SqInv /\ MapInv /\ DataInv /\ [Next]_vars
          => (TypeInv /\ SqInv /\ MapInv /\ DataInv)'
    BY Zenon, <1>2, DataStep
  <1>. QED  BY <1>1, <1>2, <1>3, PTL DEF Spec

\* Wherever the power is cut, attaching finds every LEB with the contents of the
\* last call that returned zero, or with what the call in progress or one that
\* failed since may leave: through retries, erasures, scrubbing and moves, each
\* interrupted or failing at any point, compare_lebs() decides for the right copy.
\* Any number of operations may fail, except that no call runs out of retries and
\* recover_peb() is not called: there the code does lose contents.
THEOREM CutsAreSafe ==
  ASSUME Detected, NoRecovery
  PROVE  Spec /\ []RetriesLeft => []CrashSafe
  <1>1. TypeInv /\ SqInv /\ MapInv /\ DataInv => CrashSafe
    BY ZenonT(30), SafeWins DEF DataInv, Safe, CrashSafe
  <1>. QED  BY <1>1, DataAlways, PTL

\* Between calls ubi_eba_read_leb() returns what was written, whatever moves,
\* scrubbing and retries took place in between, as long as no call runs out of
\* retries and recover_peb() is not called.
THEOREM ReadsBack ==
  ASSUME Detected, NoRecovery
  PROVE  Spec /\ []RetriesLeft => []ReadBack
  <1>1. TypeInv /\ SqInv /\ MapInv /\ DataInv => ReadBack
    <2>. SUFFICES ASSUME DataInv, Ready, NEW l \in LEB  PROVE Content(l) \in may[l]
      BY Zenon DEF ReadBack
    <2>1. PICK g \in PEB \cup {None} : SafeAt(l, g) /\ g = eba_tbl[l]
      BY Zenon DEF DataInv, Safe, GoodOf, Ready
    <2>. QED  BY Zenon, <2>1 DEF Content, SafeAt
  <1>. QED  BY <1>1, DataAlways, PTL
=============================================================================
