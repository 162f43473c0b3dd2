----------------------------- MODULE UbiEbaData -----------------------------
(***************************************************************************)
(* What is written is what is read, after a power cut at any moment too,   *)
(* for every number of PEBs and LEBs and every bound.                      *)
(***************************************************************************)
EXTENDS UbiEbaInv, TLAPS

-----------------------------------------------------------------------------
(* Contents, whole and torn. *)

\* Nothing written before or after changes nothing.
LEMMA CatEmpty ==
  ASSUME NEW d \in Contents
  PROVE  << >> \o d = d /\ d \o << >> = d
  BY DEF Contents

\* Reading as much as there is reads it all.
LEMMA WholeSeq ==
  ASSUME NEW S, NEW d \in Seq(S), NEW n, n = Len(d)
  PROVE  SubSeq(d, 1, n) = d
  <1>1. SubSeq(d, 1, n) \in Seq(S) /\ Len(SubSeq(d, 1, n)) = Len(d)
    OBVIOUS
  <1>2. \A i \in 1 .. Len(d) : SubSeq(d, 1, n)[i] = d[i]
    OBVIOUS
  <1>. QED  BY <1>1, <1>2

\* A CRC over no less than was written is right for nothing else.
LEMMA CrcWhole ==
  ASSUME NEW r \in PebState, Len(r.data) <= Len(r.data_crc), CrcOK(r)
  PROVE  r.data = r.data_crc
  <1>1. r.data \in Contents /\ r.data_crc \in Contents
    BY Zenon DEF PebState
  <1>2. Len(r.data) = Len(r.data_crc) /\ SubSeq(r.data, 1, Len(r.data_crc)) = r.data_crc
    BY <1>1 DEF CrcOK, Contents
  <1>. QED  BY Zenon, <1>1, <1>2, WholeSeq DEF Contents

\* It is right for what it was computed over.
LEMMA CrcRight ==
  ASSUME NEW r \in PebState, r.data = r.data_crc
  PROVE  CrcOK(r)
  <1>1. r.data \in Contents
    BY Zenon DEF PebState
  <1>2. SubSeq(r.data, 1, Len(r.data)) = r.data
    BY Zenon, <1>1, WholeSeq DEF Contents
  <1>. QED  BY <1>1, <1>2 DEF CrcOK, Contents

\* An interrupted write of d is no longer than d and not made of whole chunks.
LEMMA CutLen ==
  ASSUME NEW d \in Contents, NEW x \in Cut(d)
  PROVE  x \in Contents /\ Len(x) <= Len(d) /\ x \notin Seq(Chunk) /\ x # << >>
  <1>1. PICK k \in 0 .. Len(d) - 1 : \E j \in Torn : x = SubSeq(d, 1, k) \o <<j>>
    BY Zenon DEF Cut
  <1>2. PICK j \in Torn : x = SubSeq(d, 1, k) \o <<j>>
    BY Zenon, <1>1
  <1>3. Len(d) \in Nat /\ d \in Seq(Chunk \cup {Junk, EccBad})
    BY DEF Contents
  <1>4. SubSeq(d, 1, k) \in Seq(Chunk \cup {Junk, EccBad}) /\ Len(SubSeq(d, 1, k)) = k
    BY <1>1, <1>3
  <1>5. j \in {Junk, EccBad} /\ j \notin Chunk
    BY Zenon, MediaAssumption
  <1>6. x \in Contents /\ Len(x) = k + 1 /\ x[k + 1] = j
    BY <1>2, <1>4, <1>5 DEF Contents
  <1>7. x \notin Seq(Chunk)
    BY <1>1, <1>5, <1>6
  <1>. QED  BY <1>1, <1>3, <1>6, <1>7

\* An unfinished erasure leaves as much as there was, and no whole chunk.
LEMMA GarbledLen ==
  ASSUME NEW d \in Contents, NEW x \in Garbled(d)
  PROVE  x \in Contents /\ Len(x) = Len(d) /\ (d = << >> => x = << >>)
         /\ (x \in Seq(Chunk) => x = << >> /\ d = << >>)
  <1>1. PICK j \in Torn : x = [i \in DOMAIN d |-> j]
    BY Zenon DEF Garbled
  <1>2. d \in Seq(Chunk \cup {Junk, EccBad}) /\ Len(d) \in Nat /\ DOMAIN d = 1 .. Len(d)
    BY DEF Contents
  <1>3. j \in {Junk, EccBad} /\ j \notin Chunk
    BY Zenon, MediaAssumption
  <1>4. x \in Contents /\ Len(x) = Len(d)
    BY <1>1, <1>2, <1>3 DEF Contents
  <1>5. ASSUME d # << >>  PROVE x \notin Seq(Chunk)
    <2>1. 1 \in 1 .. Len(d)
      BY <1>2, <1>5
    <2>2. x[1] = j /\ Len(x) >= 1
      BY <1>1, <1>2, <1>4, <2>1
    <2>. QED  BY <1>3, <1>4, <2>1, <2>2
  <1>6. d = << >> => x = << >>
    BY <1>2, <1>4 DEF Contents
  <1>. QED  BY Zenon, <1>4, <1>5, <1>6

-----------------------------------------------------------------------------
(* Which copy attaching decides for. *)

\* What an erasure, an EC header or a bad-block mark, finished or not, leaves of a
\* PEB in state r.
Tears(r, s) ==
  Live(s) => /\ Live(r) /\ s.lnum = r.lnum /\ s.sqnum = r.sqnum
             /\ s.copy_flag = r.copy_flag /\ s.data_crc = r.data_crc
             /\ s.data = r.data \/ s.data \in Garbled(r.data)

\* The scan takes for copies of l what Holds says.
LEMMA CopiesHold ==
  ASSUME TypeInv, NEW l \in LEB, NEW p
  PROVE  p \in Copies(l) <=> p \in PEB /\ Holds(p, l)
  <1>1. ASSUME p \in PEB  PROVE ScanClass(flash[p]) = "used" <=> Live(flash[p])
    <2>1. flash[p] \in PebState
      BY Zenon, <1>1 DEF TypeInv, TypeOK
    <2>2. flash[p].ec \in {"none", "ok", "bad"} /\ flash[p].vid \in {"none", "ok", "bad"}
          /\ flash[p].bad \in BOOLEAN
      BY Zenon, <2>1 DEF PebState
    <2>. QED  BY Zenon, <2>2 DEF ScanClass, Live
  <1>. QED  BY Zenon, <1>1 DEF Copies, Seen, Holds

\* A harmless copy that wins has contents the LEB may have, and one that loses is
\* no threat either.
LEMMA BesideWins ==
  ASSUME NEW r \in PebState, NEW s \in PebState, NEW m, s.data \in m, Beside(r, s, m)
  PROVE  /\ Beats(r, s) => r.data \in m
         /\ Beats(r, s) => Beside(s, r, {r.data})
         /\ Beats(s, r) => Beside(r, s, {s.data})
  <1>0. /\ r.sqnum \in Nat /\ s.sqnum \in Nat /\ r.data \in Contents /\ s.data \in Contents
        /\ r.data_crc \in Contents /\ Len(r.data) \in Nat /\ Len(r.data_crc) \in Nat
    BY DEF PebState, Contents
  <1>1. CASE r.data = << >> /\ s.data = << >>
    BY Zenon, <1>1 DEF Beside
  <1>2. CASE /\ r.sqnum > s.sqnum /\ r.copy_flag /\ Len(r.data) <= Len(r.data_crc)
             /\ r.data_crc = s.data
    <2>1. CrcOK(r) => r.data = s.data
      BY Zenon, <1>2, CrcWhole
    <2>. QED  BY <1>0, <1>2, <2>1 DEF Beats, Beside
  <1>3. CASE /\ r.sqnum > s.sqnum /\ r.copy_flag /\ Len(r.data) <= Len(r.data_crc)
             /\ r.data_crc \in Seq(Chunk) /\ (CrcOK(r) => r.data \in m)
    <2>1. Beats(r, s) <=> CrcOK(r)
      BY Zenon, <1>3 DEF Beats
    <2>2. Beats(s, r) <=> ~CrcOK(r)
      BY <1>0, <1>3 DEF Beats
    <2>. QED  BY <1>0, <1>3, <2>1, <2>2 DEF Beside
  <1>4. CASE r.sqnum <= s.sqnum /\ (s.copy_flag => CrcOK(s))
    <2>1. ~Beats(r, s)
      BY <1>0, <1>4 DEF Beats
    <2>. QED  BY Zenon, <1>4, <2>1 DEF Beside
  <1>. QED  BY Zenon, <1>1, <1>2, <1>3, <1>4 DEF Beside

\* Erasing it, also when that is interrupted, keeps it harmless.
LEMMA BesideTears ==
  ASSUME NEW r \in PebState, NEW s \in PebState, NEW m, Beside(r, s, m),
         NEW t \in PebState, Live(t), Tears(r, t)
  PROVE  Beside(t, s, m)
  <1>0. /\ r.data \in Contents /\ t.sqnum = r.sqnum /\ t.copy_flag = r.copy_flag
        /\ t.data_crc = r.data_crc /\ (t.data = r.data \/ t.data \in Garbled(r.data))
    BY Zenon DEF Tears, PebState
  <1>1. /\ Len(t.data) = Len(r.data) /\ (r.data = << >> => t.data = << >>)
        /\ t.data \in Seq(Chunk) => t.data = r.data
    BY Zenon, <1>0, GarbledLen
  <1>2. ASSUME t.data_crc \in Seq(Chunk), Len(t.data) <= Len(t.data_crc), CrcOK(t)
        PROVE  CrcOK(r) /\ t.data = r.data
    <2>1. t.data = t.data_crc
      BY Zenon, <1>2, CrcWhole
    <2>2. t.data = r.data
      BY Zenon, <1>1, <1>2, <2>1
    <2>. QED  BY Zenon, <1>0, <1>2, <2>2 DEF CrcOK
  <1>. QED  BY Zenon, <1>0, <1>1, <1>2 DEF Beside

\* More that may be found does no harm.
LEMMA BesideMore ==
  ASSUME NEW r, NEW s, NEW m, NEW n, m \subseteq n, Beside(r, s, m)
  PROVE  Beside(r, s, n)
  BY Zenon DEF Beside

\* Attaching finds contents the LEB may have.
LEMMA SafeWins ==
  ASSUME TypeInv, NEW l \in LEB, NEW g \in PEB \cup {None}, SafeAt(l, g),
         NEW p \in PEB \cup {None}, IsWinner(l, p)
  PROVE  DataOf(p) \in may[l]
  <1>1. CASE p = None
    <2>1. g = None
      BY Zenon, <1>1, CopiesHold, MediaAssumption DEF IsWinner, SafeAt
    <2>. QED  BY Zenon, <1>1, <2>1 DEF DataOf, SafeAt
  <1>2. CASE p # None
    <2>1. p \in PEB /\ Holds(p, l) /\ \A q \in PEB : Holds(q, l) /\ q # p => Beats(flash[p], flash[q])
      BY Zenon, <1>2, CopiesHold DEF IsWinner
    <2>2. CASE g = None
      BY Zenon, <1>2, <2>1, <2>2 DEF SafeAt, DataOf
    <2>3. CASE g # None /\ g # p
      <3>1. g \in PEB /\ Holds(g, l) /\ flash[g].data \in may[l] /\ Beside(flash[p], flash[g], may[l])
        BY Zenon, <2>1, <2>3 DEF SafeAt
      <3>2. flash[p] \in PebState /\ flash[g] \in PebState /\ Beats(flash[p], flash[g])
        BY Zenon, <2>1, <2>3, <3>1 DEF TypeInv, TypeOK
      <3>. QED  BY Zenon, <1>2, <3>1, <3>2, BesideWins DEF DataOf
    <2>4. CASE g # None /\ g = p
      BY Zenon, <1>2, <2>4 DEF SafeAt, DataOf
    <2>. QED  BY Zenon, <2>2, <2>3, <2>4
  <1>. QED  BY Zenon, <1>1, <1>2

\* The copy attaching decides for becomes the good one.
LEMMA SafeWinner ==
  ASSUME TypeInv, NoThird, NEW l \in LEB, NEW g \in PEB \cup {None}, SafeAt(l, g),
         NEW w \in PEB \cup {None}, IsWinner(l, w), flash' = flash, may'[l] = {DataOf(w)}
  PROVE  SafeAt(l, w)'
  <1>0. \A p : Holds(p, l)' <=> Holds(p, l)
    BY Zenon DEF Holds
  <1>1. CASE w = None
    <2>1. \A p \in PEB : ~Holds(p, l)
      BY Zenon, <1>1, CopiesHold, MediaAssumption DEF IsWinner
    <2>. QED  BY Zenon, <1>0, <1>1, <2>1 DEF SafeAt, DataOf
  <1>2. CASE w # None
    <2>1. w \in PEB /\ Holds(w, l) /\ \A q \in PEB : Holds(q, l) /\ q # w => Beats(flash[w], flash[q])
      BY Zenon, <1>2, CopiesHold DEF IsWinner
    <2>2. may'[l] = {flash[w].data}
      BY Zenon, <1>2 DEF DataOf
    <2>3. ASSUME NEW q \in PEB, q # w, Holds(q, l), g # None, g = w
          PROVE  Beside(flash[q], flash[w], {flash[w].data})
      <3>1. Beside(flash[q], flash[w], may[l]) /\ flash[w].data \in may[l]
        BY Zenon, <2>3 DEF SafeAt
      <3>2. flash[q] \in PebState /\ flash[w] \in PebState /\ Beats(flash[w], flash[q])
        BY Zenon, <2>1, <2>3 DEF TypeInv, TypeOK
      <3>. QED  BY Zenon, <3>1, <3>2, BesideWins
    <2>4. ASSUME NEW q \in PEB, q # w, Holds(q, l), g # None, g # w, q = g
          PROVE  Beside(flash[q], flash[w], {flash[w].data})
      <3>1. Beside(flash[w], flash[g], may[l]) /\ flash[g].data \in may[l]
        BY Zenon, <2>1, <2>4 DEF SafeAt
      <3>2. flash[g] \in PebState /\ flash[w] \in PebState /\ Beats(flash[w], flash[g])
        BY Zenon, <2>1, <2>4 DEF TypeInv, TypeOK
      <3>. QED  BY Zenon, <2>4, <3>1, <3>2, BesideWins
    <2>5. CASE g = None
      BY Zenon, <1>0, <1>2, <2>1, <2>2, <2>5 DEF SafeAt
    <2>6. CASE g # None /\ \A q \in PEB : Holds(q, l) => q \in {g, w}
      BY Zenon, <1>0, <1>2, <2>1, <2>2, <2>3, <2>4, <2>6 DEF SafeAt
    <2>7. CASE g = w
      BY Zenon, <1>0, <1>2, <2>1, <2>2, <2>3, <2>7 DEF SafeAt
    <2>8. ASSUME NEW q \in PEB, Holds(q, l), q \notin {g, w}, g # w, g # None
          PROVE  FALSE
      <3>1. g \in PEB /\ Holds(g, l)
        BY Zenon, <2>8 DEF SafeAt
      <3>. QED  BY Zenon, <2>1, <2>8, <3>1 DEF NoThird, Holds
    <2>. QED  BY Zenon, <2>5, <2>6, <2>7, <2>8
  <1>. QED  BY Zenon, <1>1, <1>2

\* Nothing happens to the flash.
LEMMA SameSafe ==
  ASSUME NEW l \in LEB, NEW g, SafeAt(l, g), flash' = flash, may[l] \subseteq may'[l]
  PROVE  SafeAt(l, g)'
  <1>1. \A p : Holds(p, l)' <=> Holds(p, l)
    BY Zenon DEF Holds
  <1>2. \A q, p : Beside(flash[q], flash[p], may[l]) => Beside(flash'[q], flash'[p], may'[l])
    BY Zenon, BesideMore
  <1>. QED  BY Zenon, <1>1, <1>2 DEF SafeAt

\* One PEB changes that is not the good one.
LEMMA OtherSafe ==
  ASSUME TypeInv, NEW x \in PEB, NEW s, flash' = [flash EXCEPT ![x] = s],
         NEW l \in LEB, NEW g \in PEB \cup {None}, SafeAt(l, g), x # g, may[l] \subseteq may'[l],
         Live(s) /\ s.lnum = l => IF g = None
                                    THEN s.data \in may'[l] /\ \A q \in PEB : Holds(q, l) => q = x
                                    ELSE Beside(s, flash[g], may'[l])
  PROVE  SafeAt(l, g)'
  <1>1. flash'[x] = s /\ \A p \in PEB : p # x => flash'[p] = flash[p]
    BY Zenon DEF TypeInv, TypeOK
  <1>2. \A p \in PEB : p # x => (Holds(p, l)' <=> Holds(p, l))
    BY Zenon, <1>1 DEF Holds
  <1>3. Holds(x, l)' <=> Live(s) /\ s.lnum = l
    BY Zenon, <1>1 DEF Holds
  <1>4. CASE g = None
    BY Zenon, <1>1, <1>2, <1>3, <1>4 DEF SafeAt
  <1>5. CASE g # None
    <2>1. g \in PEB /\ g # x /\ flash'[g] = flash[g]
      BY Zenon, <1>1, <1>5
    <2>2. \A q \in PEB : Beside(flash[q], flash[g], may[l]) => Beside(flash[q], flash[g], may'[l])
      BY Zenon, BesideMore
    <2>. QED  BY Zenon, <1>1, <1>2, <1>3, <1>5, <2>1, <2>2 DEF SafeAt
  <1>. QED  BY Zenon, <1>4, <1>5

\* One PEB changes that is not the good one and does not hold the LEB afterwards.
LEMMA GoneSafe ==
  ASSUME TypeInv, NEW x \in PEB, NEW s, flash' = [flash EXCEPT ![x] = s],
         NEW l \in LEB, NEW g \in PEB \cup {None}, SafeAt(l, g), x # g, may[l] \subseteq may'[l],
         ~(Live(s) /\ s.lnum = l)
  PROVE  SafeAt(l, g)'
  BY Zenon, OtherSafe

\* One PEB changes that has nothing to do with the LEB.
LEMMA AwaySafe ==
  ASSUME TypeInv, NEW x \in PEB, NEW s, flash' = [flash EXCEPT ![x] = s],
         NEW l \in LEB, NEW g \in PEB \cup {None}, SafeAt(l, g), may[l] \subseteq may'[l],
         ~Holds(x, l), ~(Live(s) /\ s.lnum = l)
  PROVE  SafeAt(l, g)'
  <1>1. x # g
    BY Zenon, MediaAssumption DEF SafeAt
  <1>. QED  BY Zenon, <1>1, GoneSafe

\* One PEB is erased, or marked, perhaps in part.
LEMMA TearSafe ==
  ASSUME TypeInv, NEW x \in PEB, NEW s \in PebState, flash' = [flash EXCEPT ![x] = s],
         Tears(flash[x], s),
         NEW l \in LEB, NEW g \in PEB \cup {None}, SafeAt(l, g), x # g, may[l] \subseteq may'[l],
         g = None /\ Holds(x, l) => Garbled(flash[x].data) \subseteq may'[l]
  PROVE  SafeAt(l, g)'
  <1>1. ASSUME Live(s), s.lnum = l
        PROVE  IF g = None THEN s.data \in may'[l] /\ \A q \in PEB : Holds(q, l) => q = x
               ELSE Beside(s, flash[g], may'[l])
    <2>1. Holds(x, l) /\ (s.data = flash[x].data \/ s.data \in Garbled(flash[x].data))
      BY Zenon, <1>1 DEF Tears, Holds
    <2>2. CASE g = None
      BY Zenon, <2>1, <2>2 DEF SafeAt
    <2>3. CASE g # None
      <3>1. g \in PEB /\ Beside(flash[x], flash[g], may[l])
        BY Zenon, <2>1, <2>3 DEF SafeAt
      <3>2. flash[x] \in PebState /\ flash[g] \in PebState
        BY Zenon, <3>1 DEF TypeInv, TypeOK
      <3>3. Beside(s, flash[g], may[l])
        BY Zenon, <1>1, <3>1, <3>2, BesideTears
      <3>. QED  BY Zenon, <2>3, <3>3, BesideMore
    <2>. QED  BY Zenon, <2>2, <2>3
  <1>. QED  BY Zenon, <1>1, OtherSafe

\* What the operations of the erase worker leave.
LEMMA WorkerTears ==
  ASSUME NEW r \in PebState, r.vid = "ok" => r.ec # "none",
         NEW s \in TornErase(r) \cup TornEc(r) \cup TornVid(r) \cup
                   {Blank, [r EXCEPT !.ec = "ok"], [r EXCEPT !.bad = TRUE]}
  PROVE  Tears(r, s)
  <1>0. ~Live(Blank) /\ ~Live([Blank EXCEPT !.ec = "bad", !.vid = "bad"])
    BY Zenon DEF Live, Blank
  <1>1. CASE s \in {r, Blank, [Blank EXCEPT !.ec = "bad", !.vid = "bad"]}
    BY Zenon, <1>0, <1>1 DEF Tears
  <1>2. CASE s \in {[r EXCEPT !.bad = TRUE], [r EXCEPT !.vid = "bad"]}
    <2>1. ~Live(s)
      BY Zenon, <1>2 DEF Live, PebState
    <2>. QED  BY Zenon, <2>1 DEF Tears
  <1>3. CASE s \in {[r EXCEPT !.ec = "bad"], [r EXCEPT !.ec = "ok"]}
    BY Zenon, <1>3 DEF Tears, Live, PebState
  <1>4. ASSUME NEW d \in Garbled(r.data), s = [r EXCEPT !.data = d]  PROVE Tears(r, s)
    BY Zenon, <1>4 DEF Tears, Live, PebState
  <1>5. ASSUME NEW d \in Garbled(r.data), s = [r EXCEPT !.ec = "bad", !.data = d]  PROVE Tears(r, s)
    <2>1. /\ s.bad = r.bad /\ s.vid = r.vid /\ s.lnum = r.lnum /\ s.sqnum = r.sqnum
          /\ s.copy_flag = r.copy_flag /\ s.data_crc = r.data_crc /\ s.data = d
      BY Zenon, <1>5 DEF PebState
    <2>. QED  BY Zenon, <2>1 DEF Tears, Live
  <1>. QED  BY Zenon, <1>1, <1>2, <1>3, <1>4, <1>5 DEF TornErase, TornEc, TornVid

-----------------------------------------------------------------------------
(* Steps that leave the flash alone. *)

\* Between two steps of a call on a writable device the only copies are the mapped
\* one and the one being written.
LEMMA Alone ==
  ASSUME TypeInv, MapInv, up = "on", wk.pc = "idle", ~ro_mode,
         NEW l \in LEB, NEW q \in PEB, Holds(q, l)
  PROVE  Maps(l, q) \/ (HasNew /\ q = op.pnum)
  <1>1. Found(q) /\ flash[q].vid = "ok" /\ ~flash[q].bad /\ flash[q].lnum = l
    BY Zenon DEF MapInv, NoneLost, Holds, Live
  <1>2. Formatted.vid = "none"
    BY Zenon DEF Formatted, Blank
  <1>3. tree[q] \notin {"free", "bad"}
    BY Zenon, <1>1, <1>2 DEF MapInv, Erased, Entries
  <1>4. \A k \in LEB : Maps(k, q) => k = l
    BY Zenon, <1>1 DEF MapInv, Mapped, Carries
  <1>5. Busy(q) => HasNew /\ q = op.pnum
    BY Zenon, <1>1, <1>2 DEF Busy, MapInv, Erased
  <1>. QED  BY Zenon, <1>1, <1>3, <1>4, <1>5 DEF Found

\* The good copies stay what they are.
LEMMA QuietSafe ==
  ASSUME Safe, up # "off", flash' = flash,
         \A l \in LEB : GoodOf(l)' = GoodOf(l) /\ may[l] \subseteq may'[l]
  PROVE  Safe'
  <1>. SUFFICES ASSUME NEW l \in LEB
                PROVE  \E g \in PEB \cup {None} : SafeAt(l, g)' /\ g = GoodOf(l)'
    BY Zenon DEF Safe
  <1>1. PICK g \in PEB \cup {None} : SafeAt(l, g) /\ g = GoodOf(l)
    BY Zenon DEF Safe
  <1>. QED  BY Zenon, <1>1, SameSafe

\* A call ends, or has not begun: nothing is promised about what it writes.
LEMMA IdleWriting ==
  ASSUME op' = IdleOp
  PROVE  Writing' /\ op'.tries = 0 /\ op'.pc = "idle"
  BY DEF IdleOp, Writing

\* A write or an atomic change begins.
LEMMA BeginData ==
  ASSUME TypeInv, DataInv, up = "on", op.pc \in {"idle", "unmapped"}, wk.pc = "idle",
         NEW l \in LEB, NEW kind, NEW d \in Seq(Chunk), Len(d) <= 1, NEW allowed,
         d \in allowed, eba_tbl[l] = None => Partial(d) \subseteq allowed,
         Begin(l, kind, d, allowed), UNCHANGED <<flash, up, eba_tbl, wk, errs>>
  PROVE  DataInv'
  <1>1. /\ op'.pc = "get" /\ op'.lnum = l /\ op'.buf = d /\ op'.want = d
        /\ op'.sqnum = global_sqnum /\ op'.tries = 0
    BY Zenon DEF Begin, IdleOp
  <1>2. \A k \in LEB : may[k] \subseteq may'[k] /\ allowed \subseteq may'[l]
    BY Zenon DEF Begin, TypeInv, TypeOK
  <1>3. global_sqnum' = global_sqnum + 1 /\ global_sqnum \in Nat
    BY Zenon DEF Begin, TypeInv, TypeOK
  <1>4. Safe'
    BY Zenon, <1>1, <1>2, QuietSafe DEF DataInv, GoodOf
  <1>5. Writing'
    BY Zenon, <1>1, <1>2, <1>3 DEF Writing
  <1>6. Counted'
    BY <1>1 DEF DataInv, Counted, TypeInv, TypeOK
  <1>7. Working'
    BY Zenon DEF Working
  <1>. QED  BY Zenon, <1>4, <1>5, <1>6, <1>7 DEF DataInv

\* ubi_eba_write_leb() and ubi_eba_atomic_leb_change() start.
LEMMA WriteData ==
  ASSUME TypeInv, DataInv, NEW l \in LEB, NEW d \in Seq(Chunk), Len(d) <= 1,
         Write(l, d) \/ Change(l, d)
  PROVE  DataInv'
  <1>1. d \in Partial(d)
    BY Zenon DEF Partial
  <1>2. CASE Write(l, d)
    BY Zenon, <1>1, <1>2, BeginData DEF Write, Ready
  <1>3. CASE Change(l, d)
    BY Zenon, <1>1, <1>3, BeginData DEF Change, Ready
  <1>. QED  BY Zenon, <1>2, <1>3

\* ubi_eba_write_leb() on a mapped LEB starts.
LEMMA AppendData ==
  ASSUME TypeInv, DataInv, NEW l \in LEB, NEW d \in Seq(Chunk), Len(d) <= 1, AppendTo(l, d)
  PROVE  DataInv'
  <1>1. /\ up = "on" /\ wk.pc = "idle" /\ op.pc = "idle"
        /\ UNCHANGED <<flash, up, eba_tbl, global_sqnum, wk, errs>> /\ eba_tbl[l] # None
    BY Zenon DEF AppendTo, Ready
  <1>2. /\ op'.pc = "append" /\ op'.lnum = l /\ op'.buf = d /\ op'.from = eba_tbl[l]
        /\ op'.want = Content(l) \o d /\ op'.tries = 0
    BY Zenon DEF AppendTo, IdleOp
  <1>3. Content(l) = flash[eba_tbl[l]].data
    BY Zenon, <1>1 DEF Content
  <1>4. may' = [may EXCEPT ![l] = @ \cup {Content(l) \o x : x \in Partial(d)}]
    BY Zenon DEF AppendTo
  <1>5. /\ \A k \in LEB : may[k] \subseteq may'[k]
        /\ \A x \in Partial(d) : Content(l) \o x \in may'[l]
    BY Zenon, <1>4 DEF TypeInv, TypeOK
  <1>6. Safe'
    BY Zenon, <1>1, <1>2, <1>5, QuietSafe DEF DataInv, GoodOf
  <1>7. Writing'
    BY Zenon, <1>1, <1>2, <1>3, <1>5 DEF Writing
  <1>8. Counted'
    BY <1>1, <1>2 DEF DataInv, Counted, TypeInv, TypeOK
  <1>9. Working'
    BY Zenon, <1>1 DEF Working
  <1>. QED  BY Zenon, <1>6, <1>7, <1>8, <1>9 DEF DataInv

\* ubi_wl_scrub_peb() is called.
LEMMA ReadScrubData ==
  ASSUME TypeInv, DataInv, NEW l \in LEB, ReadScrub(l)
  PROVE  DataInv'
  <1>1. /\ up = "on" /\ op.pc = "idle" /\ wk.pc = "idle" /\ wk'.pc \in {"idle", "ensure"}
        /\ UNCHANGED <<flash, up, eba_tbl, global_sqnum, op, may>>
        /\ errs' = errs + 1 /\ errs < MaxErr
    BY Zenon DEF ReadScrub, Ready, Fault, IdleWk
  <1>2. Safe'
    BY Zenon, <1>1, QuietSafe DEF DataInv, GoodOf
  <1>3. Writing' /\ Working'
    BY Zenon, <1>1 DEF DataInv, Writing, Working
  <1>4. Counted'
    BY <1>1, EbaAssumption DEF DataInv, Counted, TypeInv, TypeOK, OpState
  <1>. QED  BY Zenon, <1>2, <1>3, <1>4 DEF DataInv

\* ubi_eba_unmap_leb(): the PEB is put, and the LEB may still be found on it, whole
\* or garbled, until it is erased.
LEMMA UnmapData ==
  ASSUME TypeInv, MapInv, DataInv, NEW l \in LEB, NEW kind, Unmap(l, kind)
  PROVE  DataInv'
  <1>1. /\ up = "on" /\ wk.pc = "idle" /\ op.pc = "idle" /\ ~ro_mode /\ eba_tbl[l] # None
        /\ UNCHANGED <<flash, up, global_sqnum, errs>>
        /\ eba_tbl' = [eba_tbl EXCEPT ![l] = None]
        /\ may' = [may EXCEPT ![l] = @ \cup {<< >>} \cup Garbled(Content(l))]
    BY Zenon DEF Unmap, Ready
  <1>2. /\ op'.pc \in {"idle", "unmapped"} /\ op'.buf = << >> /\ op'.want = << >>
        /\ op'.tries = 0
    <2>1. op' = IdleOp \/ op' = [IdleOp EXCEPT !.pc = "unmapped", !.kind = kind, !.lnum = l]
      BY Zenon DEF Unmap, PutPeb
    <2>2. CASE op' = IdleOp
      BY Zenon, <2>2 DEF IdleOp
    <2>3. CASE op' = [IdleOp EXCEPT !.pc = "unmapped", !.kind = kind, !.lnum = l]
      BY Zenon, <2>3 DEF IdleOp
    <2>. QED  BY Zenon, <2>1, <2>2, <2>3
  <1>3. wk'.pc \in {"idle", "erase"} /\ (wk'.pc = "erase" => wk'.e1 = eba_tbl[l])
    <2>1. wk' = wk \/ wk' = [IdleWk EXCEPT !.pc = "erase", !.e1 = eba_tbl[l]]
      BY Zenon DEF Unmap, PutPeb
    <2>. QED  BY Zenon, <1>1, <2>1 DEF IdleWk
  <1>4. PICK p \in PEB : p = eba_tbl[l]
    BY Zenon, <1>1 DEF TypeInv, TypeOK
  <1>5. /\ \A k \in LEB : may[k] \subseteq may'[k]
        /\ << >> \in may'[l] /\ Garbled(flash[p].data) \subseteq may'[l]
    BY Zenon, <1>1, <1>4 DEF TypeInv, TypeOK, Content
  <1>6. \A k \in LEB : GoodOf(k) = eba_tbl[k] /\ GoodOf(k)' = eba_tbl'[k]
    BY Zenon, <1>1, <1>2 DEF GoodOf
  <1>7. eba_tbl'[l] = None /\ \A k \in LEB \ {l} : eba_tbl'[k] = eba_tbl[k]
    BY Zenon, <1>1 DEF TypeInv, TypeOK
  <1>8. \A q \in PEB : Holds(q, l) => q = p
    BY Zenon, <1>1, <1>4, Alone DEF Maps, HasNew
  <1>9. \A q : \A k : Holds(q, k)' <=> Holds(q, k)
    BY Zenon, <1>1 DEF Holds
  <1>10. SafeAt(l, None)'
    <2>1. PICK g \in PEB \cup {None} : SafeAt(l, g) /\ g = p
      BY Zenon, <1>1, <1>4, <1>6 DEF DataInv, Safe
    <2>2. flash[p].data \in may[l]
      BY Zenon, <1>4, <2>1, MediaAssumption DEF SafeAt
    <2>. QED  BY Zenon, <1>1, <1>5, <1>8, <1>9, <2>2 DEF SafeAt
  <1>11. ASSUME NEW k \in LEB \ {l}
         PROVE  \E g \in PEB \cup {None} : SafeAt(k, g)' /\ g = GoodOf(k)'
    <2>1. PICK g \in PEB \cup {None} : SafeAt(k, g) /\ g = GoodOf(k)
      BY Zenon, <1>1 DEF DataInv, Safe
    <2>2. SafeAt(k, g)'
      BY Zenon, <1>1, <1>5, <2>1, SameSafe
    <2>. QED  BY Zenon, <1>6, <1>7, <2>1, <2>2
  <1>12. Safe'
    BY Zenon, <1>6, <1>7, <1>10, <1>11 DEF Safe
  <1>13. Writing'
    BY <1>2 DEF Writing
  <1>14. Counted'
    BY <1>1, <1>2 DEF DataInv, Counted, TypeInv, TypeOK
  <1>15. Working'
    <2>1. \A k \in LEB : Holds(p, k) => k = l
      BY Zenon, <1>1, <1>4 DEF MapInv, Mapped, Maps, Carries, Holds
    <2>. QED  BY Zenon, <1>1, <1>3, <1>4, <1>5, <1>9, <2>1 DEF Working
  <1>. QED  BY Zenon, <1>12, <1>13, <1>14, <1>15 DEF DataInv

\* The erasure of the unmapped PEB is over: with no error, nothing holds the LEB.
LEMMA UnmappedData ==
  ASSUME TypeInv, MapInv, DataInv, OpUnmapped
  PROVE  DataInv'
  <1>1. /\ up = "on" /\ op.pc = "unmapped" /\ wk.pc = "idle" /\ op.lnum \in LEB
        /\ UNCHANGED <<flash, up, eba_tbl, tree, wk, errs>>
    BY Zenon DEF OpUnmapped, Running, TypeInv, Wf
  <1>2. eba_tbl[op.lnum] = None /\ op.want = << >>
    BY Zenon, <1>1 DEF MapInv, Targets, DataInv, Writing
  <1>3. CASE ro_mode /\ op' = IdleOp /\ UNCHANGED <<may, global_sqnum>>
    <2>1. Writing' /\ op'.tries = 0 /\ op'.pc = "idle"
      BY Zenon, <1>3, IdleWriting
    <2>2. Safe'
      BY Zenon, <1>1, <1>3, <2>1, QuietSafe DEF DataInv, GoodOf
    <2>3. Counted' /\ Working'
      BY <1>1, <2>1 DEF DataInv, Counted, Working, TypeInv, TypeOK
    <2>. QED  BY Zenon, <2>1, <2>2, <2>3 DEF DataInv
  <1>4. CASE ~ro_mode /\ Succeed /\ UNCHANGED global_sqnum
    <2>1. Writing' /\ op'.tries = 0 /\ op'.pc = "idle"
      BY Zenon, <1>4, IdleWriting DEF Succeed
    <2>2. PICK l \in LEB : l = op.lnum
      BY Zenon, <1>1
    <2>3. may'[l] = {<< >>} /\ \A k \in LEB \ {l} : may'[k] = may[k]
      BY Zenon, <1>2, <1>4, <2>2 DEF Succeed, TypeInv, TypeOK
    <2>4. \A q \in PEB : ~Holds(q, l)
      BY Zenon, <1>1, <1>2, <1>4, <2>2, Alone, MediaAssumption DEF Maps, HasNew
    <2>5. SafeAt(l, None)'
      BY Zenon, <1>1, <2>3, <2>4 DEF SafeAt, Holds
    <2>6. \A k \in LEB : GoodOf(k)' = GoodOf(k) /\ GoodOf(k) = eba_tbl[k]
      BY Zenon, <1>1, <2>1 DEF GoodOf
    <2>7. ASSUME NEW k \in LEB \ {l}
          PROVE  \E g \in PEB \cup {None} : SafeAt(k, g)' /\ g = GoodOf(k)'
      <3>1. PICK g \in PEB \cup {None} : SafeAt(k, g) /\ g = GoodOf(k)
        BY Zenon, <1>1 DEF DataInv, Safe
      <3>2. SafeAt(k, g)'
        BY Zenon, <1>1, <2>3, <3>1, SameSafe
      <3>. QED  BY Zenon, <2>6, <3>1, <3>2
    <2>8. Safe'
      BY Zenon, <1>2, <2>2, <2>5, <2>6, <2>7 DEF Safe
    <2>9. Counted' /\ Working'
      BY <1>1, <2>1 DEF DataInv, Counted, Working, TypeInv, TypeOK
    <2>. QED  BY Zenon, <2>1, <2>8, <2>9 DEF DataInv
  <1>5. CASE ~ro_mode /\ Begin(op.lnum, "write", << >>, {<< >>})
    <2>0. << >> \in Seq(Chunk) /\ Len(<< >>) = 0 /\ Partial(<< >>) \subseteq {<< >>}
      BY DEF Partial, Cut
    <2>1. PICK d : d = << >>
      BY Zenon
    <2>2. PICK allowed : allowed = {d}
      BY Zenon
    <2>3. UNCHANGED <<flash, up, eba_tbl, wk, errs>> /\ op.pc \in {"idle", "unmapped"}
      BY Zenon, <1>1
    <2>4. /\ Begin(op.lnum, "write", d, allowed) /\ d \in allowed
          /\ d \in Seq(Chunk) /\ Len(d) <= 1 /\ Partial(d) \subseteq allowed
      BY <1>5, <2>0, <2>1, <2>2
    <2>. QED  BY Zenon, <1>1, <2>3, <2>4, BeginData
  <1>. QED  BY Zenon, <1>3, <1>4, <1>5 DEF OpUnmapped

\* A free PEB is taken, or there is none.
LEMMA GetData ==
  ASSUME TypeInv, DataInv, OpGet
  PROVE  DataInv'
  <1>1. /\ up = "on" /\ op.pc = "get" /\ wk.pc = "idle"
        /\ UNCHANGED <<flash, up, eba_tbl, global_sqnum, wk, may, errs>>
    BY Zenon DEF OpGet, Running
  <1>2. op' = IdleOp \/ \E p \in PEB : op' = [op EXCEPT !.pc = "vid", !.pnum = p]
    BY Zenon DEF OpGet, In
  <1>3. Working'
    BY Zenon, <1>1 DEF Working
  <1>4. CASE op' = IdleOp
    <2>1. Writing' /\ op'.tries = 0 /\ op'.pc = "idle"
      BY Zenon, <1>4, IdleWriting
    <2>2. Safe'
      BY Zenon, <1>1, <2>1, QuietSafe DEF DataInv, GoodOf
    <2>. QED  BY <1>1, <1>3, <2>1, <2>2 DEF DataInv, Counted, TypeInv, TypeOK
  <1>5. ASSUME NEW p \in PEB, op' = [op EXCEPT !.pc = "vid", !.pnum = p]  PROVE DataInv'
    <2>1. /\ op'.pc = "vid" /\ op'.lnum = op.lnum /\ op'.buf = op.buf /\ op'.want = op.want
          /\ op'.sqnum = op.sqnum /\ op'.tries = op.tries
      BY Zenon, <1>5 DEF TypeInv, TypeOK, OpState
    <2>2. Safe'
      BY Zenon, <1>1, <2>1, QuietSafe DEF DataInv, GoodOf
    <2>3. Writing'
      BY Zenon, <1>1, <2>1 DEF DataInv, Writing
    <2>4. Counted'
      BY Zenon, <1>1, <2>1 DEF DataInv, Counted
    <2>. QED  BY Zenon, <1>3, <2>2, <2>3, <2>4 DEF DataInv
  <1>. QED  BY Zenon, <1>2, <1>4, <1>5

\* The write is tried again and not given up.
LEMMA RetryData ==
  ASSUME TypeInv, DataInv, RetriesLeft, OpRetry
  PROVE  DataInv'
  <1>1. /\ up = "on" /\ op.pc = "retry" /\ wk.pc = "idle"
        /\ UNCHANGED <<flash, up, eba_tbl, wk, errs>>
    BY Zenon DEF OpRetry, Running
  <1>2. op.tries \in Nat /\ errs \in Nat /\ global_sqnum \in Nat
    BY Zenon DEF TypeInv, TypeOK, OpState
  <1>3. ~(op.tries + 1 > UBI_IO_RETRIES)
    BY <1>1, <1>2, EbaAssumption DEF RetriesLeft
  <1>4. /\ op' = [op EXCEPT !.pc = "get", !.tries = @ + 1, !.sqnum = global_sqnum]
        /\ global_sqnum' = global_sqnum + 1 /\ may' = may
    BY Zenon, <1>3 DEF OpRetry
  <1>5. /\ op'.pc = "get" /\ op'.lnum = op.lnum /\ op'.buf = op.buf /\ op'.want = op.want
        /\ op'.sqnum = global_sqnum /\ op'.tries = op.tries + 1
    BY Zenon, <1>4 DEF TypeInv, TypeOK, OpState
  <1>6. Safe'
    BY Zenon, <1>1, <1>4, <1>5, QuietSafe DEF DataInv, GoodOf
  <1>7. Writing'
    BY Zenon, <1>1, <1>2, <1>4, <1>5 DEF DataInv, Writing
  <1>8. Counted'
    BY Zenon, <1>1, <1>2, <1>5 DEF DataInv, Counted
  <1>9. Working'
    BY Zenon, <1>1 DEF Working
  <1>. QED  BY Zenon, <1>6, <1>7, <1>8, <1>9 DEF DataInv

\* An atomic change ends: what is left of the old PEB is older than the new one.
LEMMA RemapData ==
  ASSUME TypeInv, DataInv, OpRemap
  PROVE  DataInv'
  <1>1. /\ up = "on" /\ op.pc = "remap" /\ wk.pc = "idle" /\ op' = IdleOp
        /\ UNCHANGED <<flash, up, wk, errs, global_sqnum>>
        /\ eba_tbl' = [eba_tbl EXCEPT ![op.lnum] = op.pnum]
        /\ may' = [may EXCEPT ![op.lnum] = {op.want}]
    BY Zenon DEF OpRemap, Running, Succeed
  <1>2. PICK l \in LEB : l = op.lnum
    BY Zenon, <1>1 DEF TypeInv, Wf
  <1>3. PICK p \in PEB : p = op.pnum
    BY Zenon, <1>1 DEF TypeInv, Wf
  <1>4. /\ Live(flash[p]) /\ flash[p].data = op.want /\ flash[p].data_crc = op.want
        /\ \A q \in PEB \ {p} : Holds(q, l) => flash[q].sqnum <= flash[p].sqnum
    BY Zenon, <1>1, <1>2, <1>3 DEF DataInv, Writing
  <1>5. Writing' /\ op'.tries = 0 /\ op'.pc = "idle"
    BY Zenon, <1>1, IdleWriting
  <1>6. /\ \A k \in LEB : GoodOf(k)' = GoodOf(k)
        /\ GoodOf(l) = p /\ may'[l] = {op.want} /\ \A k \in LEB \ {l} : may'[k] = may[k]
    BY Zenon, <1>1, <1>2, <1>3, <1>5 DEF GoodOf, TypeInv, TypeOK
  <1>7. SafeAt(l, p)'
    <2>1. PICK g \in PEB \cup {None} : SafeAt(l, g) /\ g = p
      BY Zenon, <1>1, <1>6 DEF DataInv, Safe
    <2>2. p # None /\ Holds(p, l)
      BY Zenon, <2>1, MediaAssumption DEF SafeAt
    <2>3. CrcOK(flash[p])
      BY Zenon, <1>4, CrcRight DEF TypeInv, TypeOK
    <2>4. \A q \in PEB \ {p} : Holds(q, l) => Beside(flash[q], flash[p], {op.want})
      BY Zenon, <1>4, <2>3 DEF Beside
    <2>. QED  BY Zenon, <1>1, <1>4, <1>6, <2>2, <2>4 DEF SafeAt, Holds
  <1>8. ASSUME NEW k \in LEB \ {l}
        PROVE  \E g \in PEB \cup {None} : SafeAt(k, g)' /\ g = GoodOf(k)'
    <2>1. PICK g \in PEB \cup {None} : SafeAt(k, g) /\ g = GoodOf(k)
      BY Zenon, <1>1 DEF DataInv, Safe
    <2>2. SafeAt(k, g)'
      BY Zenon, <1>1, <1>6, <2>1, SameSafe
    <2>. QED  BY Zenon, <1>6, <2>1, <2>2
  <1>9. Safe'
    BY Zenon, <1>6, <1>7, <1>8 DEF Safe
  <1>10. Counted' /\ Working'
    BY <1>1, <1>5 DEF DataInv, Counted, Working, TypeInv, TypeOK
  <1>. QED  BY Zenon, <1>5, <1>9, <1>10 DEF DataInv

\* The worker finds nothing to move, or chooses what to move.
LEMMA ChooseData ==
  ASSUME TypeInv, SqInv, DataInv, WkNoMove \/ WkMove
  PROVE  DataInv'
  <1>1. /\ UNCHANGED <<flash, up, eba_tbl, global_sqnum, op, may, errs>>
        /\ wk'.pc \in {"idle", "mread"} /\ wk.pc = "ensure"
    <2>1. CASE WkNoMove
      BY Zenon, <2>1 DEF WkNoMove, IdleWk
    <2>2. CASE WkMove
      BY Zenon, <2>2 DEF WkMove, IdleWk
    <2>. QED  BY Zenon, <2>1, <2>2
  <1>2. up # "off" /\ op.pc \in Waits
    BY Zenon, <1>1 DEF SqInv, Nested
  <1>3. Safe'
    BY Zenon, <1>1, <1>2, QuietSafe DEF DataInv, GoodOf
  <1>4. Writing'
    BY Zenon, <1>1 DEF DataInv, Writing, Holds
  <1>5. Counted' /\ Working'
    BY Zenon, <1>1 DEF DataInv, Counted, Working, Holds
  <1>. QED  BY Zenon, <1>3, <1>4, <1>5 DEF DataInv

\* The PEB to be moved is read: a number is given out, or the target is to be erased.
LEMMA MoveReadData ==
  ASSUME TypeInv, SqInv, MapInv, DataInv, WkRead
  PROVE  DataInv'
  <1>1. /\ UNCHANGED <<flash, up, op, may, eba_tbl>> /\ wk.pc = "mread"
        /\ up = "on" /\ op.pc \in Waits
    BY Zenon DEF WkRead, NotMoved, MoveError, SqInv, Nested, MapInv, Entries
  <1>2. errs' = errs \/ (errs' = errs + 1 /\ errs < MaxErr)
    BY Zenon DEF WkRead, Fault
  <1>3. Safe'
    BY Zenon, <1>1, QuietSafe DEF DataInv, GoodOf
  <1>4. Writing'
    BY Zenon, <1>1 DEF DataInv, Writing, Holds, Waits
  <1>5. Counted'
    BY <1>1, <1>2, EbaAssumption DEF DataInv, Counted, TypeInv, TypeOK, OpState
  <1>6. /\ wk'.pc \in {"erase", "mvid", "idle"}
        /\ wk'.pc = "erase" => wk'.e1 = wk.e2
        /\ wk'.pc = "mvid" => wk'.sqnum = global_sqnum /\ global_sqnum' = global_sqnum + 1
    <2>1. \/ wk' = [IdleWk EXCEPT !.pc = "erase", !.e1 = wk.e2]
          \/ /\ wk' = [wk EXCEPT !.pc = "mvid", !.sqnum = global_sqnum]
             /\ global_sqnum' = global_sqnum + 1
          \/ wk' = IdleWk
      BY Zenon DEF WkRead, NotMoved, MoveError
    <2>2. CASE wk' = [IdleWk EXCEPT !.pc = "erase", !.e1 = wk.e2]
      BY Zenon, <2>2 DEF IdleWk
    <2>3. CASE /\ wk' = [wk EXCEPT !.pc = "mvid", !.sqnum = global_sqnum]
               /\ global_sqnum' = global_sqnum + 1
      BY Zenon, <2>3 DEF TypeInv, TypeOK, WkState
    <2>4. CASE wk' = IdleWk
      BY Zenon, <2>4 DEF IdleWk
    <2>. QED  BY Zenon, <2>1, <2>2, <2>3, <2>4
  <1>7. \A l : ~Holds(wk.e2, l)
    BY Zenon, <1>1 DEF MapInv, Erased, Holds, Live, Formatted, Blank
  <1>8. Working'
    BY Zenon, <1>1, <1>6, <1>7 DEF Working, Holds
  <1>. QED  BY Zenon, <1>3, <1>4, <1>5, <1>8 DEF DataInv

\* A PEB of the erase and corr lists: its LEB, if it has one, is mapped to another.
LEMMA InitEraseData ==
  ASSUME TypeInv, SqInv, DataInv, NEW p \in PEB, InitErase(p)
  PROVE  DataInv'
  <1>1. /\ UNCHANGED <<flash, up, eba_tbl, global_sqnum, op, may, errs>>
        /\ up = "init" /\ op.pc = "idle"
        /\ wk' = [IdleWk EXCEPT !.pc = "erase", !.e1 = p]
    BY Zenon DEF InitErase, SqInv, Nested
  <1>2. wk'.pc = "erase" /\ wk'.e1 = p
    BY Zenon, <1>1 DEF IdleWk
  <1>3. Safe'
    BY Zenon, <1>1, QuietSafe DEF DataInv, GoodOf
  <1>4. Writing' /\ Counted'
    BY Zenon, <1>1 DEF DataInv, Writing, Counted
  <1>5. \A l \in LEB, q \in PEB : Holds(q, l) => GoodOf(l) # None /\ eba_tbl[l] # None
    BY Zenon, <1>1 DEF DataInv, Working, GoodOf
  <1>6. Working'
    BY Zenon, <1>1, <1>2, <1>5 DEF Working, Holds, GoodOf
  <1>. QED  BY Zenon, <1>3, <1>4, <1>6 DEF DataInv

\* The device is attached.
LEMMA InitDoneData ==
  ASSUME TypeInv, SqInv, DataInv, InitDone
  PROVE  DataInv'
  <1>1. /\ UNCHANGED <<flash, eba_tbl, global_sqnum, op, may, errs>>
        /\ up = "init" /\ up' = "on" /\ op.pc = "idle" /\ wk'.pc = "ensure"
    BY Zenon DEF InitDone, SqInv, Nested, IdleWk
  <1>2. Safe'
    BY Zenon, <1>1, QuietSafe DEF DataInv, GoodOf
  <1>3. Writing' /\ Counted' /\ Working'
    BY Zenon, <1>1 DEF DataInv, Writing, Counted, Working
  <1>. QED  BY Zenon, <1>2, <1>3 DEF DataInv

-----------------------------------------------------------------------------
(* Writing to a new PEB. *)

\* An unfinished erasure of what an interrupted write of one chunk left looks like
\* such a write again.
LEMMA GarbledPartial ==
  ASSUME NEW d \in Seq(Chunk), Len(d) <= 1, NEW x \in Partial(d), NEW y \in Garbled(x)
  PROVE  y \in Partial(d)
  <1>1. d \in Contents /\ << >> \in Contents
    BY DEF Contents
  <1>2. x \in Contents /\ Len(x) <= Len(d)
    <2>1. x = << >> \/ x = d \/ x \in Cut(d)
      BY Zenon DEF Partial
    <2>2. Len(<< >>) = 0 /\ Len(d) \in Nat
      OBVIOUS
    <2>. QED  BY <1>1, <2>1, <2>2, CutLen
  <1>3. PICK j \in Torn : y = [i \in DOMAIN x |-> j]
    BY Zenon DEF Garbled
  <1>4. x \in Seq(Chunk \cup {Junk, EccBad}) /\ Len(x) \in Nat /\ Len(d) \in Nat
    BY <1>1, <1>2 DEF Contents
  <1>5. CASE Len(x) = 0
    <2>1. x = << >>
      BY <1>4, <1>5
    <2>2. y = << >>
      BY Zenon, <1>2, <2>1, GarbledLen
    <2>. QED  BY Zenon, <2>2 DEF Partial
  <1>6. CASE Len(x) = 1
    <2>1. DOMAIN x = 1 .. 1 /\ Len(d) = 1
      BY <1>2, <1>4, <1>6
    <2>2. y = <<j>>
      BY <1>3, <2>1
    <2>3. SubSeq(d, 1, 0) \o <<j>> = <<j>>
      <3>1. SubSeq(d, 1, 0) = << >>
        OBVIOUS
      <3>2. <<j>> \in Contents
        BY MediaAssumption DEF Contents
      <3>3. << >> \o <<j>> = <<j>>
        BY Zenon, <3>2, CatEmpty
      <3>. QED  BY <3>1, <3>3, Zenon
    <2>4. 0 \in 0 .. Len(d) - 1
      BY <2>1
    <2>5. <<j>> \in {SubSeq(d, 1, 0) \o <<i>> : i \in Torn}
      BY Zenon, <2>3
    <2>6. <<j>> \in Cut(d)
      BY Zenon, <2>4, <2>5 DEF Cut
    <2>. QED  BY Zenon, <2>2, <2>6 DEF Partial
  <1>7. Len(x) = 0 \/ Len(x) = 1
    <2>1. PICK n \in Nat : n = Len(x)
      BY Zenon, <1>4
    <2>2. n <= 1
      BY <1>2, <1>4, <2>1
    <2>3. n = 0 \/ n = 1
      BY <2>2
    <2>. QED  BY Zenon, <2>1, <2>3
  <1>. QED  BY Zenon, <1>5, <1>6, <1>7

\* What the call may leave on its new PEB before the LEB is remapped.
NewOK(r) ==
  Live(r) => /\ r.lnum = op.lnum
             /\ IF eba_tbl[op.lnum] = None
                  THEN r.data \in Partial(op.buf)
                  ELSE Beside(r, flash[eba_tbl[op.lnum]], may[op.lnum])

\* The new PEB is not the mapped one, and holds no other LEB.
LEMMA NewApart ==
  ASSUME TypeInv, MapInv, op.pc \in {"vid", "data"}
  PROVE  /\ op.pnum \in PEB /\ op.lnum \in LEB
         /\ \A k \in LEB : GoodOf(k) = eba_tbl[k] /\ eba_tbl[k] # op.pnum
         /\ \A k \in LEB : Holds(op.pnum, k) => op.pc = "data" /\ k = op.lnum
         /\ op.kind # "change" => eba_tbl[op.lnum] = None
  <1>1. op.pnum \in PEB /\ op.lnum \in LEB
    BY Zenon DEF TypeInv, Wf
  <1>2. Formatted.vid # "ok"
    BY Zenon DEF Formatted, Blank
  <1>3. ASSUME NEW k \in LEB, eba_tbl[k] = op.pnum  PROVE FALSE
    <2>1. Maps(k, op.pnum)
      BY Zenon, <1>3 DEF Maps
    <2>2. Carries(op.pnum, k)
      BY Zenon, <1>1, <2>1 DEF MapInv, Mapped
    <2>. QED  BY Zenon, <1>1, <1>2, <1>3, <2>2 DEF MapInv, Mapped, Erased, HasNew, Carries
  <1>4. \A k \in LEB : Holds(op.pnum, k) => op.pc = "data" /\ k = op.lnum
    BY Zenon, <1>1, <1>2 DEF MapInv, Mapped, Erased, HasNew, Carries, Holds, Live
  <1>5. op.kind # "change" => eba_tbl[op.lnum] = None
    BY Zenon DEF MapInv, Targets
  <1>. QED  BY Zenon, <1>1, <1>3, <1>4, <1>5 DEF GoodOf

\* It does no harm to any LEB.
LEMMA NewSafe ==
  ASSUME TypeInv, MapInv, DataInv, up = "on", wk.pc = "idle", op.pc \in {"vid", "data"},
         op.pc = "vid" => ~ro_mode,
         NEW r, NewOK(r), flash' = [flash EXCEPT ![op.pnum] = r], may' = may,
         NEW k \in LEB, NEW g \in PEB \cup {None}, g = eba_tbl[k]
  PROVE  SafeAt(k, g)'
  <1>1. /\ op.pnum \in PEB /\ op.lnum \in LEB /\ GoodOf(k) = g /\ g # op.pnum
        /\ Holds(op.pnum, k) => op.pc = "data" /\ k = op.lnum
    BY Zenon, NewApart
  <1>2. SafeAt(k, g)
    BY Zenon, <1>1 DEF DataInv, Safe
  <1>3. CASE ~(Live(r) /\ r.lnum = k)
    BY Zenon, <1>1, <1>2, <1>3, GoneSafe
  <1>4. CASE Live(r) /\ r.lnum = k /\ g = None
    <2>1. k = op.lnum /\ r.data \in Partial(op.buf)
      BY Zenon, <1>4 DEF NewOK
    <2>2. r.data \in may[k]
      BY Zenon, <1>4, <2>1 DEF DataInv, Writing
    <2>3. CASE op.pc = "vid"
      <3>1. \A q \in PEB : Holds(q, k) => q = op.pnum
        BY Zenon, <1>4, <2>3, Alone, MediaAssumption DEF Maps, HasNew
      <3>. QED  BY Zenon, <1>1, <1>2, <1>4, <2>2, <3>1, OtherSafe
    <2>4. CASE op.pc = "data"
      <3>1. Holds(op.pnum, k)
        BY Zenon, <2>1, <2>4 DEF MapInv, Mapped, HasNew, Carries, Holds, DataInv, Writing
      <3>2. \A q \in PEB : Holds(q, k) => q = op.pnum
        BY Zenon, <1>1, <1>2, <1>4, <3>1 DEF SafeAt
      <3>. QED  BY Zenon, <1>1, <1>2, <1>4, <2>2, <3>2, OtherSafe
    <2>. QED  BY Zenon, <2>3, <2>4
  <1>5. CASE Live(r) /\ r.lnum = k /\ g # None
    <2>1. Beside(r, flash[g], may[k])
      BY Zenon, <1>5 DEF NewOK
    <2>. QED  BY Zenon, <1>1, <1>2, <1>5, <2>1, OtherSafe
  <1>. QED  BY Zenon, <1>3, <1>4, <1>5

\* ubi_wl_put_peb() either starts the erase worker or changes only the mode.
LEMMA PutCases ==
  ASSUME NEW p, NEW next, NEW failed, PutPeb(p, next, failed)
  PROVE  \/ op' = next /\ wk' = [IdleWk EXCEPT !.pc = "erase", !.e1 = p]
         \/ op' = failed /\ wk' = wk
  BY Zenon DEF PutPeb

\* The worker the call starts.
LEMMA EraseWk ==
  ASSUME NEW p, wk' = [IdleWk EXCEPT !.pc = "erase", !.e1 = p]
  PROVE  wk'.pc = "erase" /\ wk'.e1 = p
  BY Zenon DEF IdleWk

\* A write of the new PEB fails: the PEB is put, or the device is read-only.
LEMMA WriteErrorData ==
  ASSUME TypeInv, MapInv, DataInv, up = "on", wk.pc = "idle", op.pc \in {"vid", "data"},
         NEW torn, \A r \in torn : NewOK(r), WriteError(torn)
  PROVE  DataInv'
  <1>1. /\ op.pnum \in PEB /\ op.lnum \in LEB
        /\ \A k \in LEB : GoodOf(k) = eba_tbl[k] /\ eba_tbl[k] # op.pnum
    BY Zenon, NewApart
  <1>2. UNCHANGED <<up, eba_tbl, global_sqnum, may>>
    BY Zenon DEF WriteError, FailRo
  <1>3. errs' = errs \/ (errs' = errs + 1 /\ errs < MaxErr)
    BY Zenon DEF WriteError, Fault
  <1>4. /\ errs \in Nat /\ op.tries \in Nat /\ MaxErr \in Nat /\ eba_tbl \in [LEB -> PEB \cup {None}]
        /\ op \in OpState
    BY Zenon, EbaAssumption DEF TypeInv, TypeOK, OpState
  <1>5. CASE ro_mode /\ op' = IdleOp /\ UNCHANGED <<flash, wk>>
    <2>1. Writing' /\ op'.tries = 0 /\ op'.pc = "idle"
      BY Zenon, <1>5, IdleWriting
    <2>2. Safe'
      BY Zenon, <1>1, <1>2, <1>5, <2>1, QuietSafe DEF DataInv, GoodOf
    <2>3. Counted' /\ Working'
      BY <1>2, <1>3, <1>4, <1>5, <2>1 DEF DataInv, Counted, Working
    <2>. QED  BY Zenon, <2>1, <2>2, <2>3 DEF DataInv
  <1>6. ASSUME ~ro_mode, NEW r \in torn, flash' = [flash EXCEPT ![op.pnum] = r], op'.pc # "remap"
        PROVE  Safe'
    <2>1. SUFFICES ASSUME NEW k \in LEB
                   PROVE  \E g \in PEB \cup {None} : SafeAt(k, g)' /\ g = GoodOf(k)'
      BY Zenon DEF Safe
    <2>2. PICK g \in PEB \cup {None} : g = eba_tbl[k]
      BY Zenon, <1>4
    <2>3. SafeAt(k, g)'
      BY Zenon, <1>2, <1>6, <2>2, NewSafe
    <2>. QED  BY Zenon, <1>2, <1>6, <2>2, <2>3 DEF GoodOf
  <1>7. ASSUME ~ro_mode, NEW r \in torn, flash' = [flash EXCEPT ![op.pnum] = r],
               op' = IdleOp, wk' = wk
        PROVE  DataInv'
    <2>1. Writing' /\ op'.tries = 0 /\ op'.pc = "idle"
      BY Zenon, <1>7, IdleWriting
    <2>2. Counted' /\ Working'
      BY <1>2, <1>3, <1>4, <1>7, <2>1 DEF DataInv, Counted, Working
    <2>. QED  BY Zenon, <1>6, <1>7, <2>1, <2>2 DEF DataInv
  <1>8. ASSUME ~ro_mode, NEW r \in torn, flash' = [flash EXCEPT ![op.pnum] = r], "write" \in Faults,
               op' = [op EXCEPT !.pc = "retry"], errs' = errs + 1, errs < MaxErr,
               wk' = [IdleWk EXCEPT !.pc = "erase", !.e1 = op.pnum]
        PROVE  DataInv'
    <2>1. /\ op'.pc = "retry" /\ op'.lnum = op.lnum /\ op'.buf = op.buf /\ op'.want = op.want
          /\ op'.tries = op.tries
      BY Zenon, <1>4, <1>8 DEF OpState
    <2>2. Safe'
      BY Zenon, <1>6, <1>8, <2>1
    <2>3. Writing'
      BY Zenon, <1>2, <2>1 DEF DataInv, Writing
    <2>4. Counted'
      BY <1>4, <1>8, <2>1 DEF DataInv, Counted
    <2>5. flash'[op.pnum] = r
      BY Zenon, <1>1, <1>8 DEF TypeInv, TypeOK
    <2>6. wk'.pc = "erase" /\ wk'.e1 = op.pnum
      BY Zenon, <1>8, EraseWk
    <2>7. ASSUME NEW k \in LEB, Live(r), r.lnum = k, eba_tbl[k] = None
          PROVE  Garbled(r.data) \subseteq may[k]
      <3>1. k = op.lnum /\ r.data \in Partial(op.buf) /\ Partial(op.buf) \subseteq may[k]
        BY Zenon, <1>8, <2>7 DEF NewOK, DataInv, Writing
      <3>. QED  BY Zenon, <3>1, GarbledPartial DEF DataInv, Writing
    <2>8. Working'
      BY Zenon, <1>2, <2>1, <2>5, <2>6, <2>7 DEF Working, Holds, GoodOf
    <2>. QED  BY Zenon, <2>2, <2>3, <2>4, <2>8 DEF DataInv
  <1>9. CASE ~ro_mode /\ Fault("write")
    <2>1. PICK r \in torn : flash' = [flash EXCEPT ![op.pnum] = r]
      BY Zenon, <1>9 DEF WriteError
    <2>2. CASE PutPeb(op.pnum, [op EXCEPT !.pc = "retry"], IdleOp)
      BY Zenon, <1>7, <1>8, <1>9, <2>1, <2>2, PutCases DEF Fault
    <2>3. CASE FailRo /\ wk' = wk
      BY Zenon, <1>7, <1>9, <2>1, <2>3 DEF FailRo
    <2>. QED  BY Zenon, <1>9, <2>2, <2>3 DEF WriteError
  <1>10. CASE ~ro_mode /\ Fault("io") /\ FailRo /\ UNCHANGED <<tree, wk>>
    <2>1. PICK r \in torn : flash' = [flash EXCEPT ![op.pnum] = r]
      BY Zenon, <1>10 DEF WriteError
    <2>. QED  BY Zenon, <1>7, <1>10, <2>1 DEF FailRo
  <1>. QED  BY Zenon, <1>5, <1>9, <1>10 DEF WriteError, FailRo

\* Both writes to the new PEB are done.
LEMMA WrittenData ==
  ASSUME TypeInv, MapInv, DataInv, up = "on", wk.pc = "idle", ~ro_mode,
         op.pc \in {"vid", "data"}, NEW s \in PebState, flash' = [flash EXCEPT ![op.pnum] = s],
         Live(s), s.lnum = op.lnum, s.data = op.want,
         op.kind = "change" => s.copy_flag /\ s.data_crc = op.want,
         eba_tbl[op.lnum] # None => s.sqnum > flash[eba_tbl[op.lnum]].sqnum,
         Written, UNCHANGED <<up, global_sqnum, errs>>
  PROVE  DataInv'
  <1>1. /\ op.pnum \in PEB /\ op.lnum \in LEB
        /\ \A k \in LEB : GoodOf(k) = eba_tbl[k] /\ eba_tbl[k] # op.pnum
        /\ \A k \in LEB : Holds(op.pnum, k) => k = op.lnum
        /\ op.kind # "change" => eba_tbl[op.lnum] = None
    BY Zenon, NewApart
  <1>2. PICK l \in LEB : l = op.lnum
    BY Zenon, <1>1
  <1>3. PICK p \in PEB : p = op.pnum
    BY Zenon, <1>1
  <1>4. PICK b \in PEB \cup {None} : b = eba_tbl[l]
    BY Zenon DEF TypeInv, TypeOK
  <1>5. flash'[p] = s /\ \A q \in PEB \ {p} : flash'[q] = flash[q]
    BY Zenon, <1>3 DEF TypeInv, TypeOK
  <1>6. \A q \in PEB : Holds(q, l) => q \in {b, p}
    BY ZenonT(30), <1>2, <1>3, <1>4, Alone DEF Maps
  <1>7. op.want \in may[l] /\ op.want \in Seq(Chunk) /\ op.want \in Contents
    BY <1>2 DEF DataInv, Writing, Contents
  <1>8. /\ \A q \in PEB \ {p} : \A k : Holds(q, k)' <=> Holds(q, k)
        /\ Holds(p, l)' /\ \A k \in LEB \ {l} : ~Holds(p, k)'
    BY Zenon, <1>2, <1>3, <1>5 DEF Holds
  <1>9. ASSUME NEW k \in LEB \ {l}, may'[k] = may[k], NEW g \in PEB \cup {None}, g = eba_tbl[k]
        PROVE  SafeAt(k, g)'
    <2>1. SafeAt(k, g)
      BY Zenon, <1>1, <1>9 DEF DataInv, Safe
    <2>2. ~Holds(op.pnum, k) /\ ~(Live(s) /\ s.lnum = k) /\ may[k] \subseteq may'[k]
      BY Zenon, <1>1, <1>2, <1>9
    <2>. QED  BY Zenon, <1>1, <2>1, <2>2, AwaySafe
  <1>10. CASE op.kind = "change" /\ b # None
    <2>1. /\ PutPeb(b, [op EXCEPT !.pc = "remap"], IdleOp)
          /\ UNCHANGED <<eba_tbl, may>>
      BY Zenon, <1>2, <1>4, <1>10 DEF Written
    <2>2. b \in PEB /\ b # p /\ Holds(b, l) /\ flash'[b] = flash[b]
      <3>1. SafeAt(l, b)
        BY Zenon, <1>1, <1>4 DEF DataInv, Safe
      <3>. QED  BY <1>1, <1>3, <1>4, <1>5, <1>10, <3>1 DEF SafeAt
    <2>3. s.copy_flag /\ s.data_crc = op.want /\ s.sqnum > flash[b].sqnum /\ CrcOK(s)
      BY Zenon, <1>2, <1>4, <1>10, CrcRight
    <2>4. /\ s.sqnum \in Nat /\ flash[b].sqnum \in Nat
      BY Zenon, <2>2 DEF TypeInv, TypeOK, PebState
    <2>5. CASE op' = [op EXCEPT !.pc = "remap"] /\ wk' = [IdleWk EXCEPT !.pc = "erase", !.e1 = b]
      <3>1. /\ op'.pc = "remap" /\ op'.lnum = l /\ op'.pnum = p /\ op'.want = op.want
            /\ op'.buf = op.buf /\ op'.tries = op.tries
        BY Zenon, <1>2, <1>3, <2>5 DEF TypeInv, TypeOK, OpState
      <3>2. wk'.pc = "erase" /\ wk'.e1 = b
        BY Zenon, <2>5, EraseWk
      <3>3. SafeAt(l, p)'
        <4>1. Beside(flash[b], s, may[l])
          BY <2>3, <2>4 DEF Beside
        <4>. QED  BY Zenon, <1>5, <1>6, <1>7, <1>8, <2>1, <2>2, <4>1, MediaAssumption DEF SafeAt
      <3>4. GoodOf(l)' = p /\ \A k \in LEB \ {l} : GoodOf(k)' = eba_tbl[k]
        BY Zenon, <2>1, <3>1 DEF GoodOf
      <3>5. Safe'
        <4>1. ASSUME NEW k \in LEB \ {l}
              PROVE  \E g \in PEB \cup {None} : SafeAt(k, g)' /\ g = GoodOf(k)'
          BY ZenonT(30), <1>9, <2>1, <3>4 DEF TypeInv, TypeOK
        <4>. QED  BY Zenon, <3>3, <3>4, <4>1 DEF Safe
      <3>6. Writing'
        <4>1. \A q \in PEB \ {p} : Holds(q, l)' => flash'[q].sqnum <= s.sqnum
          BY <1>6, <1>8, <2>2, <2>3, <2>4
        <4>. QED  BY <1>2, <1>5, <1>7, <2>1, <2>3, <3>1, <4>1 DEF DataInv, Writing
      <3>7. Counted'
        BY Zenon, <3>1 DEF DataInv, Counted
      <3>8. Working'
        <4>1. \A k : Holds(b, k)' => k = l
          BY Zenon, <1>8, <2>2 DEF Holds
        <4>. QED  BY Zenon, <3>2, <3>4, <4>1, MediaAssumption DEF Working
      <3>. QED  BY Zenon, <3>5, <3>6, <3>7, <3>8 DEF DataInv
    <2>6. CASE op' = IdleOp /\ wk' = wk
      <3>1. Writing' /\ op'.tries = 0 /\ op'.pc = "idle"
        BY Zenon, <2>6, IdleWriting
      <3>2. SafeAt(l, b)'
        <4>1. Beside(s, flash[b], may[l])
          BY <1>7, <2>3, <2>4 DEF Beside
        <4>2. NewOK(s)
          BY Zenon, <1>2, <1>4, <1>10, <4>1 DEF NewOK
        <4>. QED  BY Zenon, <1>4, <2>1, <4>2, NewSafe
      <3>3. \A k \in LEB : GoodOf(k)' = eba_tbl[k]
        BY Zenon, <2>1, <3>1 DEF GoodOf
      <3>4. Safe'
        <4>1. ASSUME NEW k \in LEB \ {l}
              PROVE  \E g \in PEB \cup {None} : SafeAt(k, g)' /\ g = GoodOf(k)'
          BY ZenonT(30), <1>9, <2>1, <3>3 DEF TypeInv, TypeOK
        <4>. QED  BY Zenon, <1>4, <3>2, <3>3, <4>1 DEF Safe
      <3>5. Counted' /\ Working'
        BY <2>6, <3>1 DEF DataInv, Counted, Working, TypeInv, TypeOK
      <3>. QED  BY Zenon, <3>1, <3>4, <3>5 DEF DataInv
    <2>. QED  BY Zenon, <2>1, <2>5, <2>6, PutCases
  <1>11. CASE ~(op.kind = "change" /\ b # None)
    <2>1. /\ b = None /\ eba_tbl' = [eba_tbl EXCEPT ![l] = p] /\ op' = IdleOp /\ wk' = wk
          /\ may' = [may EXCEPT ![l] = {op.want}]
      BY Zenon, <1>1, <1>2, <1>3, <1>4, <1>11 DEF Written, Succeed
    <2>2. Writing' /\ op'.tries = 0 /\ op'.pc = "idle"
      BY Zenon, <2>1, IdleWriting
    <2>3. /\ may'[l] = {op.want} /\ eba_tbl'[l] = p
          /\ \A k \in LEB \ {l} : may'[k] = may[k] /\ eba_tbl'[k] = eba_tbl[k]
      BY Zenon, <2>1 DEF TypeInv, TypeOK
    <2>4. \A k \in LEB : GoodOf(k)' = eba_tbl'[k]
      BY Zenon, <2>2 DEF GoodOf
    <2>5. \A q \in PEB : Holds(q, l)' => q = p
      BY Zenon, <1>6, <1>8, <2>1, MediaAssumption
    <2>6. SafeAt(l, p)'
      BY Zenon, <1>5, <1>8, <2>3, <2>5, MediaAssumption DEF SafeAt
    <2>7. ASSUME NEW k \in LEB \ {l}
          PROVE  \E g \in PEB \cup {None} : SafeAt(k, g)' /\ g = GoodOf(k)'
      BY <1>9, <2>3, <2>4 DEF TypeInv, TypeOK
    <2>8. Safe'
      BY Zenon, <2>3, <2>4, <2>6, <2>7 DEF Safe
    <2>9. Counted' /\ Working'
      BY <2>1, <2>2 DEF DataInv, Counted, Working, TypeInv, TypeOK
    <2>. QED  BY Zenon, <2>2, <2>8, <2>9 DEF DataInv
  <1>. QED  BY Zenon, <1>10, <1>11

\* ubi_io_write_vid_hdr() to the new PEB.
LEMMA VidData ==
  ASSUME TypeInv, SqInv, MapInv, DataInv, OpVid
  PROVE  DataInv'
  <1>1. /\ up = "on" /\ op.pc = "vid" /\ wk.pc = "idle" /\ flash[op.pnum] = Formatted
    BY Zenon DEF OpVid, Running, MapInv, Erased
  <1>2. /\ op.pnum \in PEB /\ op.lnum \in LEB
        /\ \A k \in LEB : GoodOf(k) = eba_tbl[k] /\ eba_tbl[k] # op.pnum
        /\ op.kind # "change" => eba_tbl[op.lnum] = None
    BY Zenon, <1>1, NewApart
  <1>3. /\ op.want = op.buf /\ op.buf \in Seq(Chunk) /\ op.want \in may[op.lnum]
        /\ op.buf \in Contents /\ op.sqnum + 1 = global_sqnum /\ op.sqnum \in Nat
    BY Zenon, <1>1 DEF DataInv, Writing, Contents, TypeInv, TypeOK, OpState
  <1>4. PICK s : s = WithVid(flash[op.pnum], op.lnum, op.sqnum, op.kind = "change",
                             IF op.kind = "change" THEN op.buf ELSE << >>)
    BY Zenon
  <1>5. /\ s.bad = FALSE /\ s.ec = "ok" /\ s.vid = "ok" /\ s.lnum = op.lnum /\ s.sqnum = op.sqnum
        /\ s.copy_flag = (op.kind = "change") /\ s.data = << >>
        /\ s.data_crc = IF op.kind = "change" THEN op.buf ELSE << >>
    BY Zenon, <1>1, <1>4 DEF WithVid, Formatted, Blank
  <1>6. s \in PebState
    <2>1. flash[op.pnum] \in PebState /\ << >> \in Contents
      BY <1>2 DEF TypeInv, TypeOK, Contents
    <2>2. (IF op.kind = "change" THEN op.buf ELSE << >>) \in Contents
      BY Zenon, <1>3, <2>1
    <2>. QED  BY Zenon, <1>2, <1>3, <1>4, <2>1, <2>2 DEF WithVid, PebState
  <1>7. Live(s)
    BY Zenon, <1>5 DEF Live
  <1>8. eba_tbl[op.lnum] # None => s.sqnum > flash[eba_tbl[op.lnum]].sqnum
    <2>1. SUFFICES ASSUME eba_tbl[op.lnum] # None  PROVE s.sqnum > flash[eba_tbl[op.lnum]].sqnum
      BY Zenon
    <2>2. PICK g \in PEB : g = eba_tbl[op.lnum]
      BY Zenon, <1>2, <2>1 DEF TypeInv, TypeOK
    <2>3. Live(flash[g]) /\ flash[g].sqnum \in Nat
      BY <1>1, <1>2, <2>2, MediaAssumption DEF DataInv, Safe, SafeAt, Holds, TypeInv, TypeOK, PebState
    <2>4. flash[g].sqnum < global_sqnum /\ flash[g].sqnum # op.sqnum
      BY Zenon, <1>1, <2>3 DEF SqInv, Numbered, Fresh
    <2>. QED  BY <1>3, <1>5, <2>2, <2>3, <2>4
  <1>9. ASSUME eba_tbl[op.lnum] # None
        PROVE  Beside(s, flash[eba_tbl[op.lnum]], may[op.lnum])
    <2>1. s.copy_flag /\ s.data_crc = op.buf /\ Len(s.data) = 0
      BY Zenon, <1>2, <1>5, <1>9
    <2>2. Len(op.buf) \in Nat
      BY <1>3
    <2>3. CrcOK(s) => s.data = op.buf
      BY <1>6, <2>1, <2>2, CrcWhole
    <2>. QED  BY <1>3, <1>8, <1>9, <2>1, <2>2, <2>3 DEF Beside
  <1>10. NewOK(s)
    BY Zenon, <1>5, <1>9 DEF NewOK, Partial
  <1>11. CASE ~ro_mode /\ flash' = [flash EXCEPT ![op.pnum] = s] /\ op.buf = << >> /\ Written
              /\ UNCHANGED <<up, global_sqnum, errs>>
    BY Zenon, <1>1, <1>3, <1>5, <1>6, <1>7, <1>8, <1>11, WrittenData
  <1>12. CASE /\ ~ro_mode /\ flash' = [flash EXCEPT ![op.pnum] = s] /\ op' = [op EXCEPT !.pc = "data"]
              /\ UNCHANGED <<up, global_sqnum, errs, eba_tbl, may, wk>>
    <2>1. /\ op'.pc = "data" /\ op'.lnum = op.lnum /\ op'.buf = op.buf /\ op'.want = op.want
          /\ op'.pnum = op.pnum /\ op'.kind = op.kind /\ op'.tries = op.tries
      BY Zenon, <1>12 DEF TypeInv, TypeOK, OpState
    <2>2. Safe'
      <3>1. SUFFICES ASSUME NEW k \in LEB
                     PROVE  \E g \in PEB \cup {None} : SafeAt(k, g)' /\ g = GoodOf(k)'
        BY Zenon DEF Safe
      <3>2. PICK g \in PEB \cup {None} : g = eba_tbl[k]
        BY Zenon DEF TypeInv, TypeOK
      <3>3. SafeAt(k, g)'
        BY Zenon, <1>1, <1>10, <1>12, <3>2, NewSafe
      <3>. QED  BY Zenon, <1>12, <2>1, <3>2, <3>3 DEF GoodOf
    <2>3. flash'[op.pnum] = s /\ \A q \in PEB \ {op.pnum} : flash'[q] = flash[q]
      BY Zenon, <1>2, <1>12 DEF TypeInv, TypeOK
    <2>4. eba_tbl[op.lnum] # None => flash'[eba_tbl[op.lnum]] = flash[eba_tbl[op.lnum]]
      BY Zenon, <1>2, <2>3 DEF TypeInv, TypeOK
    <2>5. Writing'
      BY ZenonT(30), <1>1, <1>5, <1>7, <1>8, <1>12, <2>1, <2>3, <2>4 DEF DataInv, Writing
    <2>6. Counted' /\ Working'
      BY Zenon, <1>1, <1>12, <2>1 DEF DataInv, Counted, Working
    <2>. QED  BY Zenon, <2>2, <2>5, <2>6 DEF DataInv
  <1>13. CASE WriteError(TornVid(flash[op.pnum]) \cup {s})
    <2>1. \A r \in TornVid(flash[op.pnum]) : ~Live(r)
      BY Zenon, <1>1 DEF TornVid, Live, Formatted, Blank
    <2>2. \A r \in TornVid(flash[op.pnum]) \cup {s} : NewOK(r)
      BY Zenon, <1>10, <2>1 DEF NewOK
    <2>. QED  BY Zenon, <1>1, <1>13, <2>2, WriteErrorData
  <1>. QED  BY Zenon, <1>4, <1>11, <1>12, <1>13 DEF OpVid

\* What an interrupted write of the data leaves on the new PEB.
LEMMA TornNew ==
  ASSUME TypeInv, MapInv, DataInv, op.pc = "data", NEW r \in TornData(flash[op.pnum], op.buf)
  PROVE  NewOK(r)
  <1>1. op.pnum \in PEB /\ op.lnum \in LEB /\ (op.kind # "change" => eba_tbl[op.lnum] = None)
    BY Zenon, NewApart
  <1>2. PICK o \in PebState : o = flash[op.pnum]
    BY Zenon, <1>1 DEF TypeInv, TypeOK
  <1>3. /\ Live(o) /\ o.data = << >> /\ o.lnum = op.lnum
        /\ op.kind = "change" => o.copy_flag /\ o.data_crc = op.buf
        /\ eba_tbl[op.lnum] # None => o.sqnum > flash[eba_tbl[op.lnum]].sqnum
        /\ op.buf \in Seq(Chunk) /\ op.buf \in may[op.lnum] /\ op.buf \in Contents
    BY <1>2 DEF DataInv, Writing, MapInv, Mapped, HasNew, Carries, Contents
  <1>4. PICK x \in Cut(op.buf) \cup {op.buf, << >>} : r = WithData(o, x)
    <2>1. << >> \o << >> = << >>
      OBVIOUS
    <2>2. WithData(o, << >>) = o
      BY Zenon, <1>3, <2>1 DEF WithData, PebState
    <2>. QED  BY Zenon, <1>2, <2>2 DEF TornData
  <1>5. x \in Contents /\ Len(x) <= Len(op.buf) /\ Len(x) \in Nat /\ Len(op.buf) \in Nat
    <2>1. << >> \in Contents /\ Len(<< >>) = 0 /\ Len(op.buf) \in Nat
      BY <1>3 DEF Contents
    <2>2. x \in Contents /\ Len(x) <= Len(op.buf)
      BY <1>3, <2>1, CutLen
    <2>. QED  BY <2>1, <2>2 DEF Contents
  <1>6. << >> \o x = x
    BY Zenon, <1>5, CatEmpty
  <1>7. /\ r.data = x /\ r.lnum = o.lnum /\ r.sqnum = o.sqnum /\ r.copy_flag = o.copy_flag
        /\ r.data_crc = o.data_crc /\ r \in PebState
    BY Zenon, <1>3, <1>4, <1>5, <1>6 DEF WithData, PebState
  <1>8. eba_tbl[op.lnum] = None => r.data \in Partial(op.buf)
    BY Zenon, <1>7 DEF Partial
  <1>9. ASSUME eba_tbl[op.lnum] # None  PROVE Beside(r, flash[eba_tbl[op.lnum]], may[op.lnum])
    <2>1. r.copy_flag /\ r.data_crc = op.buf /\ r.sqnum > flash[eba_tbl[op.lnum]].sqnum
      BY Zenon, <1>1, <1>3, <1>7, <1>9
    <2>2. CrcOK(r) => r.data = op.buf
      BY Zenon, <1>5, <1>7, <2>1, CrcWhole
    <2>. QED  BY Zenon, <1>3, <1>5, <1>7, <2>1, <2>2 DEF Beside
  <1>. QED  BY Zenon, <1>3, <1>7, <1>8, <1>9 DEF NewOK

\* ubi_io_write_data() to the new PEB.
LEMMA WriteDataData ==
  ASSUME TypeInv, MapInv, DataInv, OpData
  PROVE  DataInv'
  <1>1. up = "on" /\ op.pc = "data" /\ wk.pc = "idle"
    BY Zenon DEF OpData, Running
  <1>2. CASE WriteError(TornData(flash[op.pnum], op.buf))
    BY Zenon, <1>1, <1>2, TornNew, WriteErrorData
  <1>3. CASE /\ ~ro_mode /\ flash' = [flash EXCEPT ![op.pnum] = WithData(@, op.buf)] /\ Written
             /\ UNCHANGED <<up, global_sqnum, errs>>
    <2>1. op.pnum \in PEB /\ op.lnum \in LEB
      BY Zenon, <1>1, NewApart
    <2>2. PICK o \in PebState : o = flash[op.pnum]
      BY ZenonT(30), <2>1 DEF TypeInv, TypeOK
    <2>3. /\ Live(o) /\ o.data = << >> /\ o.lnum = op.lnum /\ op.want = op.buf
          /\ op.kind = "change" => o.copy_flag /\ o.data_crc = op.buf
          /\ eba_tbl[op.lnum] # None => o.sqnum > flash[eba_tbl[op.lnum]].sqnum
          /\ op.buf \in Contents
      BY <1>1, <2>2 DEF DataInv, Writing, MapInv, Mapped, HasNew, Carries, Contents
    <2>4. << >> \o op.buf = op.buf
      BY Zenon, <2>3, CatEmpty
    <2>5. PICK s : s = WithData(o, op.buf)
      BY Zenon
    <2>6. /\ s.data = op.buf /\ s.lnum = o.lnum /\ s.sqnum = o.sqnum /\ s.copy_flag = o.copy_flag
          /\ s.data_crc = o.data_crc /\ s.bad = o.bad /\ s.ec = o.ec /\ s.vid = o.vid
          /\ s \in PebState
      BY Zenon, <2>3, <2>4, <2>5 DEF WithData, PebState
    <2>7. flash' = [flash EXCEPT ![op.pnum] = s]
      BY Zenon, <1>3, <2>1, <2>2, <2>5 DEF TypeInv, TypeOK
    <2>8. Live(s)
      BY Zenon, <2>3, <2>6 DEF Live
    <2>. QED  BY Zenon, <1>1, <1>3, <2>3, <2>6, <2>7, <2>8, WrittenData
  <1>. QED  BY Zenon, <1>2, <1>3 DEF OpData

-----------------------------------------------------------------------------
(* Writing to the mapped PEB. *)

\* The mapped PEB is the only copy, and stays the good one with more data.
LEMMA MoreSafe ==
  ASSUME TypeInv, MapInv, DataInv, up = "on", wk.pc = "idle", op.pc = "append",
         NEW s, flash' = [flash EXCEPT ![op.from] = s],
         s.bad = flash[op.from].bad, s.ec = flash[op.from].ec, s.vid = flash[op.from].vid,
         s.lnum = flash[op.from].lnum, s.data \in may'[op.lnum],
         \A k \in LEB \ {op.lnum} : may'[k] = may[k],
         NEW k \in LEB, NEW g \in PEB \cup {None}, g = eba_tbl[k]
  PROVE  SafeAt(k, g)'
  <1>1. op.from \in PEB /\ op.lnum \in LEB /\ eba_tbl[op.lnum] = op.from /\ ~ro_mode
    BY Zenon DEF TypeInv, Wf, MapInv, Targets
  <1>2. SafeAt(k, g) /\ GoodOf(op.lnum) = op.from
    BY Zenon, <1>1 DEF DataInv, Safe, GoodOf
  <1>3. flash'[op.from] = s /\ \A q \in PEB \ {op.from} : flash'[q] = flash[q]
    BY ZenonT(30), <1>1 DEF TypeInv, TypeOK
  <1>4. Holds(op.from, op.lnum) /\ flash[op.from].lnum = op.lnum
    BY <1>1, <1>2, MediaAssumption DEF DataInv, Safe, SafeAt, Holds
  <1>5. Live(s) /\ s.lnum = op.lnum
    BY Zenon, <1>4 DEF Holds, Live
  <1>6. CASE k = op.lnum
    <2>0. ~HasNew
      BY Zenon DEF HasNew
    <2>1. \A q \in PEB : Holds(q, k) => q = op.from
      <3>1. \A q \in PEB : Holds(q, k) => Maps(k, q)
        BY Zenon, <1>1, <2>0, Alone
      <3>. QED  BY Zenon, <1>1, <1>6, <3>1 DEF Maps
    <2>2. g = op.from /\ g # None
      BY Zenon, <1>1, <1>6, MediaAssumption
    <2>3. Holds(g, k)' /\ \A q \in PEB \ {g} : ~Holds(q, k)'
      BY ZenonT(30), <1>3, <1>5, <1>6, <2>1, <2>2 DEF Holds
    <2>. QED  BY Zenon, <1>3, <1>6, <2>2, <2>3 DEF SafeAt
  <1>7. CASE k # op.lnum
    <2>1. ~Holds(op.from, k) /\ ~(Live(s) /\ s.lnum = k) /\ may[k] \subseteq may'[k]
      BY Zenon, <1>4, <1>5, <1>7 DEF Holds
    <2>. QED  BY ZenonT(30), <1>1, <1>2, <2>1, AwaySafe
  <1>. QED  BY Zenon, <1>6, <1>7

\* What an interrupted write leaves there.
LEMMA TornMore ==
  ASSUME TypeInv, MapInv, DataInv, op.pc = "append", NEW s \in TornData(flash[op.from], op.buf)
  PROVE  /\ s.bad = flash[op.from].bad /\ s.ec = flash[op.from].ec /\ s.vid = flash[op.from].vid
         /\ s.lnum = flash[op.from].lnum /\ s.data \in may[op.lnum]
  <1>1. op.from \in PEB /\ op.lnum \in LEB
    BY Zenon DEF TypeInv, Wf
  <1>2. PICK o \in PebState : o = flash[op.from]
    BY Zenon, <1>1 DEF TypeInv, TypeOK
  <1>3. \A x \in Partial(op.buf) : o.data \o x \in may[op.lnum]
    BY Zenon, <1>2 DEF DataInv, Writing
  <1>4. s = o \/ \E x \in Partial(op.buf) : s = WithData(o, x)
    BY Zenon, <1>2 DEF TornData, Partial
  <1>5. CASE s = o
    <2>1. o.data \in Contents /\ << >> \in Partial(op.buf)
      BY Zenon DEF PebState, Partial
    <2>2. o.data \o << >> = o.data
      BY Zenon, <2>1, CatEmpty
    <2>3. o.data \in may[op.lnum]
      BY Zenon, <1>3, <2>1, <2>2
    <2>. QED  BY Zenon, <1>2, <1>5, <2>3
  <1>6. ASSUME NEW x \in Partial(op.buf), s = WithData(o, x)
        PROVE  /\ s.bad = o.bad /\ s.ec = o.ec /\ s.vid = o.vid
               /\ s.lnum = o.lnum /\ s.data \in may[op.lnum]
    BY Zenon, <1>3, <1>6 DEF WithData, PebState
  <1>. QED  BY Zenon, <1>2, <1>4, <1>5, <1>6

\* ubi_io_write_data() to the mapped PEB.
LEMMA MoreData ==
  ASSUME TypeInv, MapInv, DataInv, NoRecovery, OpAppend
  PROVE  DataInv'
  <1>1. /\ up = "on" /\ op.pc = "append" /\ wk.pc = "idle"
        /\ op.from \in PEB /\ op.lnum \in LEB /\ eba_tbl[op.lnum] = op.from
        /\ UNCHANGED <<up, eba_tbl, global_sqnum, wk>>
    BY Zenon DEF OpAppend, Running, TypeInv, Wf, MapInv, Targets
  <1>2. op' = IdleOp
    BY Zenon DEF OpAppend, Succeed, FailRo, NoRecovery, Fault
  <1>3. Writing' /\ op'.tries = 0 /\ op'.pc = "idle"
    BY Zenon, <1>2, IdleWriting
  <1>4. errs' = errs \/ (errs' = errs + 1 /\ errs < MaxErr)
    BY Zenon DEF OpAppend, Fault
  <1>5. Counted' /\ Working'
    BY <1>1, <1>3, <1>4, EbaAssumption DEF DataInv, Counted, Working, TypeInv, TypeOK
  <1>6. \A k \in LEB : GoodOf(k)' = eba_tbl[k] /\ eba_tbl[k] \in PEB \cup {None}
    BY Zenon, <1>1, <1>3 DEF GoodOf, TypeInv, TypeOK
  <1>7. CASE flash' = [flash EXCEPT ![op.from] = WithData(@, op.buf)] /\ Succeed
    <2>1. PICK o \in PebState : o = flash[op.from]
      BY Zenon, <1>1 DEF TypeInv, TypeOK
    <2>2. PICK s : s = WithData(o, op.buf)
      BY Zenon
    <2>3. /\ s.bad = o.bad /\ s.ec = o.ec /\ s.vid = o.vid /\ s.lnum = o.lnum
          /\ s.data = op.want
      BY Zenon, <1>1, <2>1, <2>2 DEF WithData, PebState, DataInv, Writing
    <2>4. flash' = [flash EXCEPT ![op.from] = s]
      BY Zenon, <1>1, <1>7, <2>1, <2>2 DEF TypeInv, TypeOK
    <2>5. may'[op.lnum] = {op.want} /\ \A k \in LEB \ {op.lnum} : may'[k] = may[k]
      BY Zenon, <1>1, <1>7 DEF Succeed, TypeInv, TypeOK
    <2>6. \A k \in LEB : \A g \in PEB \cup {None} : g = eba_tbl[k] => SafeAt(k, g)'
      BY Zenon, <1>1, <2>1, <2>3, <2>4, <2>5, MoreSafe
    <2>7. Safe'
      BY Zenon, <1>6, <2>6 DEF Safe
    <2>. QED  BY Zenon, <1>3, <1>5, <2>7 DEF DataInv
  <1>8. ASSUME NEW s \in TornData(flash[op.from], op.buf), flash' = [flash EXCEPT ![op.from] = s],
               may' = may
        PROVE  DataInv'
    <2>1. /\ s.bad = flash[op.from].bad /\ s.ec = flash[op.from].ec /\ s.vid = flash[op.from].vid
          /\ s.lnum = flash[op.from].lnum /\ s.data \in may[op.lnum]
      BY Zenon, <1>1, TornMore
    <2>2. \A k \in LEB : \A g \in PEB \cup {None} : g = eba_tbl[k] => SafeAt(k, g)'
      BY Zenon, <1>1, <1>8, <2>1, MoreSafe
    <2>3. Safe'
      BY Zenon, <1>6, <2>2 DEF Safe
    <2>. QED  BY Zenon, <1>3, <1>5, <2>3 DEF DataInv
  <1>. QED  BY Zenon, <1>7, <1>8 DEF OpAppend, NoRecovery, Fault, FailRo

-----------------------------------------------------------------------------
(* The erase worker. *)

\* The PEB that is erased is not the good copy of any LEB.
LEMMA EraseApart ==
  ASSUME TypeInv, MapInv, wk.pc \in {"erase", "ec", "bad"}, NEW k \in LEB
  PROVE  wk.e1 \in PEB /\ GoodOf(k) # wk.e1
  <1>1. wk.e1 \in PEB /\ tree[wk.e1] = "erase" /\ "erase" \notin Kept
    BY Zenon DEF TypeInv, Wf, MapInv, Entries, Kept
  <1>2. CASE op.pc = "remap" /\ op.lnum = k
    BY Zenon, <1>1, <1>2 DEF GoodOf, MapInv, Mapped, HasNew
  <1>3. CASE ~(op.pc = "remap" /\ op.lnum = k)
    BY Zenon, <1>1, <1>3 DEF GoodOf, MapInv, Mapped, Maps
  <1>. QED  BY Zenon, <1>1, <1>2, <1>3

\* What it leaves of that PEB does no harm.
LEMMA EraseSafe ==
  ASSUME TypeInv, MapInv, DataInv, wk.pc \in {"erase", "ec", "bad"}, up # "off",
         NEW s \in PebState, flash' = [flash EXCEPT ![wk.e1] = s], Tears(flash[wk.e1], s), may' = may,
         wk.pc = "erase" \/ ~Live(flash[wk.e1]) \/ ~Live(s) \/ s = flash[wk.e1],
         NEW k \in LEB, NEW g \in PEB \cup {None}, g = GoodOf(k)
  PROVE  SafeAt(k, g)'
  <1>1. wk.e1 \in PEB /\ g # wk.e1 /\ SafeAt(k, g)
    BY Zenon, EraseApart DEF DataInv, Safe
  <1>2. CASE wk.pc = "erase" \/ ~Live(flash[wk.e1])
    <2>1. g = None /\ Holds(wk.e1, k) => Garbled(flash[wk.e1].data) \subseteq may'[k]
      BY Zenon, <1>2 DEF DataInv, Working, Holds
    <2>. QED  BY Zenon, <1>1, <2>1, TearSafe
  <1>3. CASE ~Live(s)
    BY Zenon, <1>1, <1>3, GoneSafe
  <1>4. CASE s = flash[wk.e1]
    <2>1. flash' = flash
      BY Zenon, <1>1, <1>4 DEF TypeInv, TypeOK
    <2>. QED  BY Zenon, <1>1, <2>1, SameSafe
  <1>. QED  BY Zenon, <1>2, <1>3, <1>4

\* A step of the worker.
LEMMA EraseStepData ==
  ASSUME TypeInv, SqInv, MapInv, DataInv, wk.pc \in {"erase", "ec", "bad"},
         NEW s \in PebState, flash' = [flash EXCEPT ![wk.e1] = s], Tears(flash[wk.e1], s),
         wk.pc = "erase" \/ ~Live(flash[wk.e1]) \/ ~Live(s) \/ s = flash[wk.e1],
         UNCHANGED <<up, eba_tbl, global_sqnum, op, may>>,
         errs' = errs \/ (errs' = errs + 1 /\ errs < MaxErr),
         wk'.pc \in {"ec", "bad", "ensure", "idle"}
  PROVE  DataInv'
  <1>1. up # "off" /\ op.pc \in Waits
    BY Zenon DEF SqInv, Nested
  <1>2. wk.e1 \in PEB /\ \A k \in LEB : GoodOf(k) # wk.e1 /\ GoodOf(k)' = GoodOf(k)
    BY Zenon, EraseApart DEF GoodOf, TypeInv, Wf
  <1>3. flash'[wk.e1] = s /\ \A q \in PEB \ {wk.e1} : flash'[q] = flash[q]
    BY Zenon, <1>2 DEF TypeInv, TypeOK
  <1>4. Safe'
    <2>1. ASSUME NEW k \in LEB
          PROVE  \E g \in PEB \cup {None} : SafeAt(k, g)' /\ g = GoodOf(k)'
      <3>1. PICK g \in PEB \cup {None} : g = GoodOf(k)
        BY Zenon, <1>1 DEF DataInv, Safe
      <3>2. SafeAt(k, g)'
        BY Zenon, <1>1, <3>1, EraseSafe
      <3>. QED  BY Zenon, <1>2, <3>1, <3>2
    <2>. QED  BY Zenon, <2>1 DEF Safe
  <1>5. \A q \in PEB : \A k : Holds(q, k)' => Holds(q, k) /\ flash'[q].sqnum = flash[q].sqnum
    BY Zenon, <1>3 DEF Holds, Tears
  <1>6. Writing'
    <2>1. op.pc = "remap" => op.pnum \in PEB /\ op.lnum \in LEB /\ op.pnum # wk.e1
      BY Zenon, <1>2 DEF GoodOf, TypeInv, Wf
    <2>2. op.pc = "remap" => flash'[op.pnum] = flash[op.pnum]
      BY Zenon, <1>3, <2>1
    <2>3. op.pc \in {"idle", "unmapped", "remap", "retry"}
      BY Zenon, <1>1 DEF DataInv, Writing, Waits
    <2>. QED  BY ZenonT(30), <1>5, <2>1, <2>2, <2>3 DEF DataInv, Writing
  <1>7. Counted'
    BY EbaAssumption DEF DataInv, Counted, TypeInv, TypeOK, OpState
  <1>8. Working'
    BY Zenon, <1>5 DEF DataInv, Working
  <1>. QED  BY Zenon, <1>4, <1>6, <1>7, <1>8 DEF DataInv

\* sync_erase() and marking a PEB bad.
LEMMA EraseData ==
  ASSUME TypeInv, TypeInv', SqInv, MapInv, DataInv, WkErase \/ WkEc \/ WkBad
  PROVE  DataInv'
  <1>1. wk.pc \in {"erase", "ec", "bad"} /\ UNCHANGED <<up, eba_tbl, global_sqnum, op, may>>
    BY Zenon DEF WkErase, WkEc, WkBad
  <1>2. wk.e1 \in PEB
    BY Zenon, <1>1 DEF TypeInv, Wf
  <1>3. PICK r \in PebState : r = flash[wk.e1] /\ (r.vid = "ok" => r.ec # "none")
    BY Zenon, <1>2 DEF TypeInv, TypeOK, SqInv, EcKept
  <1>4. errs' = errs \/ (errs' = errs + 1 /\ errs < MaxErr)
    BY Zenon DEF WkErase, WkEc, WkBad, EraseError, Fault
  <1>5. wk'.pc \in {"ec", "bad", "ensure", "idle"}
    <2>1. \/ wk' = [wk EXCEPT !.pc = "ec"] \/ wk' = [wk EXCEPT !.pc = "bad"]
          \/ wk' = [IdleWk EXCEPT !.pc = "ensure"] \/ wk' = IdleWk
      BY Zenon DEF WkErase, WkEc, WkBad, EraseError
    <2>2. wk \in WkState
      BY Zenon DEF TypeInv, TypeOK
    <2>3. CASE wk' = [wk EXCEPT !.pc = "ec"] \/ wk' = [wk EXCEPT !.pc = "bad"]
      BY Zenon, <2>2, <2>3 DEF WkState
    <2>4. CASE wk' = [IdleWk EXCEPT !.pc = "ensure"] \/ wk' = IdleWk
      BY <2>4 DEF IdleWk
    <2>. QED  BY Zenon, <2>1, <2>3, <2>4
  <1>6. flash = [flash EXCEPT ![wk.e1] = r]
    BY Zenon, <1>2, <1>3 DEF TypeInv, TypeOK
  <1>7. CASE WkErase
    <2>0. r \in TornErase(r)
      BY Zenon DEF TornErase
    <2>1. PICK s \in TornErase(r) \cup {Blank} : flash' = [flash EXCEPT ![wk.e1] = s]
      <3>1. CASE flash' = [flash EXCEPT ![wk.e1] = Blank]
        BY Zenon, <3>1
      <3>2. CASE EraseError(TornErase(r))
        BY Zenon, <1>6, <2>0, <3>2 DEF EraseError
      <3>. QED  BY Zenon, <1>3, <1>7, <3>1, <3>2 DEF WkErase
    <2>2. Tears(r, s) /\ s \in PebState
      BY Zenon, <1>2, <1>3, <2>1, WorkerTears DEF TypeInv, TypeOK
    <2>. QED  BY Zenon, <1>1, <1>3, <1>4, <1>5, <1>7, <2>1, <2>2, EraseStepData DEF WkErase
  <1>8. CASE WkEc
    <2>0. r = Blank /\ ~Live(r)
      BY <1>3, <1>8 DEF WkEc, MapInv, Erased, Live, Blank
    <2>1. PICK s \in TornEc(r) : flash' = [flash EXCEPT ![wk.e1] = s]
      <3>1. CASE flash' = [flash EXCEPT ![wk.e1].ec = "ok"]
        BY Zenon, <1>3, <3>1 DEF TornEc
      <3>2. CASE EraseError(TornEc(flash[wk.e1]))
        BY Zenon, <1>3, <1>6, <3>2 DEF EraseError, TornEc
      <3>. QED  BY Zenon, <1>8, <3>1, <3>2 DEF WkEc
    <2>2. Tears(r, s) /\ s \in PebState
      BY Zenon, <1>2, <1>3, <2>1, WorkerTears DEF TypeInv, TypeOK
    <2>. QED  BY Zenon, <1>1, <1>3, <1>4, <1>5, <2>0, <2>1, <2>2, EraseStepData
  <1>9. CASE WkBad
    <2>1. PICK s \in {r, [r EXCEPT !.bad = TRUE]} : flash' = [flash EXCEPT ![wk.e1] = s]
      BY Zenon, <1>3, <1>6, <1>9 DEF WkBad
    <2>2. Tears(r, s) /\ s \in PebState
      BY ZenonT(30), <1>2, <1>3, <2>1, WorkerTears DEF TypeInv, TypeOK, TornVid
    <2>3. s = r \/ ~Live(s)
      BY Zenon, <2>1 DEF Live, PebState
    <2>. QED  BY Zenon, <1>1, <1>3, <1>4, <1>5, <2>1, <2>2, <2>3, EraseStepData
  <1>. QED  BY Zenon, <1>7, <1>8, <1>9

-----------------------------------------------------------------------------
(* Moving. *)

\* The PEB that is moved is the good copy of its LEB, and the target of none.
LEMMA MoveApart ==
  ASSUME TypeInv, SqInv, MapInv, DataInv, wk.pc \in {"mvid", "mdata"}
  PROVE  /\ up = "on" /\ op.pc \in Waits /\ wk.e1 \in PEB /\ wk.e2 \in PEB /\ wk.e1 # wk.e2
         /\ flash[wk.e1].lnum \in LEB /\ GoodOf(flash[wk.e1].lnum) = wk.e1
         /\ ~(op.pc = "remap" /\ op.lnum = flash[wk.e1].lnum)
         /\ Live(flash[wk.e1]) /\ flash[wk.e1].data \in may[flash[wk.e1].lnum]
         /\ \A k \in LEB : GoodOf(k) # wk.e2
         /\ \A k \in LEB : Holds(wk.e2, k) => wk.pc = "mdata" /\ k = flash[wk.e1].lnum
  <1>1. /\ up = "on" /\ op.pc \in Waits /\ wk.e1 \in PEB /\ wk.e2 \in PEB /\ wk.e1 # wk.e2
        /\ flash[wk.e1].vid = "ok" /\ flash[wk.e1].lnum \in LEB
        /\ Maps(flash[wk.e1].lnum, wk.e1)
    BY Zenon DEF TypeInv, Wf, SqInv, Nested, MapInv, Entries, Mapped
  <1>2. GoodOf(flash[wk.e1].lnum) = wk.e1 /\ ~(op.pc = "remap" /\ op.lnum = flash[wk.e1].lnum)
    BY Zenon, <1>1 DEF GoodOf, Maps
  <1>3. Live(flash[wk.e1]) /\ flash[wk.e1].data \in may[flash[wk.e1].lnum]
    BY Zenon, <1>1, <1>2, MediaAssumption DEF DataInv, Safe, SafeAt, Holds
  <1>4. /\ wk.pc = "mvid" => flash[wk.e2].vid # "ok"
        /\ wk.pc = "mdata" => flash[wk.e2].lnum = flash[wk.e1].lnum
    BY Zenon DEF MapInv, Mapped, Erased, Formatted, Blank, Carries
  <1>5. \A k \in LEB : GoodOf(k) = wk.e2 => Carries(wk.e2, k)
    <2>1. ASSUME NEW k \in LEB, GoodOf(k) = wk.e2, op.pc = "remap", op.lnum = k
          PROVE  Carries(wk.e2, k)
      BY Zenon, <2>1 DEF GoodOf, MapInv, Mapped, HasNew
    <2>2. ASSUME NEW k \in LEB, GoodOf(k) = wk.e2, ~(op.pc = "remap" /\ op.lnum = k)
          PROVE  Carries(wk.e2, k)
      BY Zenon, <1>1, <2>2 DEF GoodOf, MapInv, Mapped, Maps
    <2>. QED  BY Zenon, <2>1, <2>2
  <1>6. \A k \in LEB : GoodOf(k) # wk.e2
    BY Zenon, <1>1, <1>2, <1>4, <1>5 DEF Carries
  <1>. QED  BY Zenon, <1>1, <1>2, <1>3, <1>4, <1>6 DEF Holds, Live

\* What is written to the target does no harm beside the PEB that is moved.
LEMMA MoveSafe ==
  ASSUME TypeInv, SqInv, MapInv, DataInv, wk.pc \in {"mvid", "mdata"},
         NEW s, flash' = [flash EXCEPT ![wk.e2] = s], may' = may,
         Live(s) => /\ s.lnum = flash[wk.e1].lnum
                    /\ Beside(s, flash[wk.e1], may[flash[wk.e1].lnum]),
         NEW k \in LEB, NEW g \in PEB \cup {None}, g = GoodOf(k)
  PROVE  SafeAt(k, g)'
  <1>1. /\ up = "on" /\ wk.e1 \in PEB /\ wk.e2 \in PEB /\ g # wk.e2
        /\ GoodOf(flash[wk.e1].lnum) = wk.e1
    BY Zenon, MoveApart
  <1>2. SafeAt(k, g)
    BY Zenon, <1>1 DEF DataInv, Safe
  <1>3. CASE Live(s) /\ s.lnum = k
    <2>1. g = wk.e1 /\ g # None
      BY Zenon, <1>1, <1>3, MediaAssumption
    <2>2. Beside(s, flash[g], may'[k])
      BY Zenon, <1>3, <2>1
    <2>. QED  BY Zenon, <1>1, <1>2, <1>3, <2>1, <2>2, OtherSafe
  <1>4. CASE ~(Live(s) /\ s.lnum = k)
    BY Zenon, <1>1, <1>2, <1>4, GoneSafe
  <1>. QED  BY Zenon, <1>3, <1>4

\* The call in progress is not concerned.
LEMMA MoveWriting ==
  ASSUME TypeInv, SqInv, MapInv, DataInv, wk.pc \in {"mvid", "mdata"},
         NEW s, flash' = [flash EXCEPT ![wk.e2] = s], UNCHANGED <<op, may>>,
         \A k \in LEB : k # flash[wk.e1].lnum => eba_tbl'[k] = eba_tbl[k],
         Live(s) => s.lnum = flash[wk.e1].lnum,
         op.pc = "retry" => eba_tbl'[op.lnum] = eba_tbl[op.lnum] \/ eba_tbl'[op.lnum] # None
  PROVE  Writing'
  <1>1. /\ op.pc \in Waits /\ wk.e1 \in PEB /\ wk.e2 \in PEB
        /\ ~(op.pc = "remap" /\ op.lnum = flash[wk.e1].lnum)
        /\ \A k \in LEB : GoodOf(k) # wk.e2
    BY Zenon, MoveApart
  <1>2. flash'[wk.e2] = s /\ \A q \in PEB \ {wk.e2} : flash'[q] = flash[q]
    BY Zenon, <1>1 DEF TypeInv, TypeOK
  <1>3. op.pc = "remap" => op.pnum \in PEB /\ op.lnum \in LEB /\ op.pnum # wk.e2
    BY Zenon, <1>1 DEF GoodOf, TypeInv, Wf
  <1>4. op.pc \in {"idle", "unmapped", "remap", "retry"}
    BY Zenon, <1>1 DEF DataInv, Writing, Waits
  <1>5. op.pc = "remap" => \A q \in PEB : Holds(q, op.lnum)' => q # wk.e2 /\ Holds(q, op.lnum)
    BY <1>1, <1>2 DEF Holds
  <1>6. CASE op.pc = "remap"
    BY <1>2, <1>3, <1>5, <1>6 DEF DataInv, Writing
  <1>7. CASE op.pc \in {"idle", "unmapped", "retry"}
    BY Zenon, <1>7 DEF DataInv, Writing
  <1>. QED  BY Zenon, <1>4, <1>6, <1>7

\* A step that leaves the mapping alone.
LEMMA MoveStepData ==
  ASSUME TypeInv, SqInv, MapInv, DataInv, wk.pc \in {"mvid", "mdata"},
         NEW s, flash' = [flash EXCEPT ![wk.e2] = s], UNCHANGED <<up, eba_tbl, global_sqnum, op, may>>,
         Live(s) => /\ s.lnum = flash[wk.e1].lnum
                    /\ Beside(s, flash[wk.e1], may[flash[wk.e1].lnum]),
         errs' = errs \/ (errs' = errs + 1 /\ errs < MaxErr),
         \/ wk'.pc = "idle"
         \/ wk'.pc = "erase" /\ wk'.e1 = wk.e2
         \/ /\ wk'.pc = "mdata" /\ wk'.e1 = wk.e1 /\ wk'.e2 = wk.e2
            /\ Live(s) /\ s.data = << >> /\ s.copy_flag
            /\ s.data_crc = flash[wk.e1].data /\ s.sqnum > flash[wk.e1].sqnum
  PROVE  DataInv'
  <1>1. /\ up = "on" /\ wk.e1 \in PEB /\ wk.e2 \in PEB /\ wk.e1 # wk.e2
        /\ flash[wk.e1].lnum \in LEB /\ GoodOf(flash[wk.e1].lnum) = wk.e1
    BY Zenon, MoveApart
  <1>2. flash'[wk.e2] = s /\ \A q \in PEB \ {wk.e2} : flash'[q] = flash[q]
    BY Zenon, <1>1 DEF TypeInv, TypeOK
  <1>3. \A k \in LEB : GoodOf(k)' = GoodOf(k)
    BY Zenon DEF GoodOf
  <1>4. Safe'
    <2>1. ASSUME NEW k \in LEB
          PROVE  \E g \in PEB \cup {None} : SafeAt(k, g)' /\ g = GoodOf(k)'
      <3>1. PICK g \in PEB \cup {None} : g = GoodOf(k)
        BY Zenon, <1>1 DEF DataInv, Safe
      <3>2. SafeAt(k, g)'
        BY Zenon, <3>1, MoveSafe
      <3>. QED  BY Zenon, <1>3, <3>1, <3>2
    <2>. QED  BY Zenon, <2>1 DEF Safe
  <1>5. Writing'
    BY Zenon, MoveWriting
  <1>6. Counted'
    BY EbaAssumption DEF DataInv, Counted, TypeInv, TypeOK, OpState
  <1>7. Working'
    <2>1. CASE wk'.pc = "idle"
      BY Zenon, <1>1, <2>1 DEF Working
    <2>2. CASE wk'.pc = "erase" /\ wk'.e1 = wk.e2
      <3>1. \A k \in LEB : Live(s) /\ s.lnum = k => GoodOf(k) # None
        BY Zenon, <1>1, MediaAssumption
      <3>. QED  BY Zenon, <1>1, <1>2, <1>3, <2>2, <3>1 DEF Working, Holds
    <2>3. CASE /\ wk'.pc = "mdata" /\ wk'.e1 = wk.e1 /\ wk'.e2 = wk.e2
               /\ Live(s) /\ s.data = << >> /\ s.copy_flag
               /\ s.data_crc = flash[wk.e1].data /\ s.sqnum > flash[wk.e1].sqnum
      BY Zenon, <1>1, <1>2, <2>3 DEF Working
    <2>. QED  BY Zenon, <2>1, <2>2, <2>3
  <1>. QED  BY Zenon, <1>4, <1>5, <1>6, <1>7 DEF DataInv

\* The copy is complete and the LEB is mapped to it.
LEMMA MoveDoneData ==
  ASSUME TypeInv, SqInv, MapInv, MapInv', DataInv, wk.pc \in {"mvid", "mdata"},
         NEW s, flash' = [flash EXCEPT ![wk.e2] = s], UNCHANGED <<up, global_sqnum, op, may, errs>>,
         Live(s), s.lnum = flash[wk.e1].lnum, s.data = flash[wk.e1].data,
         Beside(s, flash[wk.e1], may[flash[wk.e1].lnum]),
         Beside(flash[wk.e1], s, may[flash[wk.e1].lnum]),
         eba_tbl' = [eba_tbl EXCEPT ![flash[wk.e1].lnum] = wk.e2],
         wk'.pc = "erase", wk'.e1 = wk.e1
  PROVE  DataInv'
  <1>1. /\ up = "on" /\ wk.e1 \in PEB /\ wk.e2 \in PEB /\ wk.e1 # wk.e2
        /\ flash[wk.e1].lnum \in LEB /\ GoodOf(flash[wk.e1].lnum) = wk.e1
        /\ ~(op.pc = "remap" /\ op.lnum = flash[wk.e1].lnum)
        /\ Live(flash[wk.e1]) /\ flash[wk.e1].data \in may[flash[wk.e1].lnum]
    BY Zenon, MoveApart
  <1>2. PICK l \in LEB : l = flash[wk.e1].lnum
    BY Zenon, <1>1
  <1>3. PICK e \in PEB : e = wk.e2
    BY Zenon, <1>1
  <1>4. PICK o \in PEB : o = wk.e1 /\ o # e
    BY Zenon, <1>1, <1>3
  <1>5. flash'[e] = s /\ \A q \in PEB \ {e} : flash'[q] = flash[q]
    BY Zenon, <1>3 DEF TypeInv, TypeOK
  <1>6. /\ eba_tbl'[l] = e /\ \A k \in LEB \ {l} : eba_tbl'[k] = eba_tbl[k]
    BY Zenon, <1>2, <1>3 DEF TypeInv, TypeOK
  <1>7. GoodOf(l)' = e /\ \A k \in LEB \ {l} : GoodOf(k)' = GoodOf(k)
    BY ZenonT(30), <1>1, <1>2, <1>6 DEF GoodOf
  <1>8. \A q \in PEB : Holds(q, l)' => q \in {e, o}
    BY <1>1, <1>2, <1>4, <1>5 DEF MapInv, NoThird, Holds
  <1>9. SafeAt(l, e)'
    <2>1. Holds(e, l)' /\ flash'[e].data \in may'[l] /\ e # None
      BY Zenon, <1>1, <1>2, <1>5, MediaAssumption DEF Holds
    <2>2. Beside(flash'[o], flash'[e], may'[l])
      BY Zenon, <1>2, <1>4, <1>5
    <2>. QED  BY Zenon, <1>8, <2>1, <2>2 DEF SafeAt
  <1>10. Safe'
    <2>1. ASSUME NEW k \in LEB \ {l}
          PROVE  \E g \in PEB \cup {None} : SafeAt(k, g)' /\ g = GoodOf(k)'
      <3>1. PICK g \in PEB \cup {None} : g = GoodOf(k)
        BY Zenon, <1>1 DEF DataInv, Safe
      <3>2. SafeAt(k, g)'
        BY Zenon, <3>1, MoveSafe
      <3>. QED  BY Zenon, <1>7, <3>1, <3>2
    <2>. QED  BY Zenon, <1>7, <1>9, <2>1 DEF Safe
  <1>11. Writing'
    <2>1. \A k \in LEB : k # flash[wk.e1].lnum => eba_tbl'[k] = eba_tbl[k]
      BY Zenon, <1>2, <1>6
    <2>2. op.pc = "retry" => eba_tbl'[op.lnum] = eba_tbl[op.lnum] \/ eba_tbl'[op.lnum] # None
      BY Zenon, <1>6, MediaAssumption DEF TypeInv, Wf
    <2>. QED  BY Zenon, <2>1, <2>2, MoveWriting
  <1>12. Counted'
    BY Zenon DEF DataInv, Counted
  <1>13. Working'
    <2>1. \A k : Holds(o, k)' => k = l
      BY Zenon, <1>2, <1>4, <1>5 DEF Holds
    <2>. QED  BY Zenon, <1>1, <1>4, <1>7, <2>1, MediaAssumption DEF Working
  <1>. QED  BY Zenon, <1>10, <1>11, <1>12, <1>13 DEF DataInv

\* What copy_leb() writes to the target: the VID header, and the data or part of it.
LEMMA CopyVid ==
  ASSUME TypeInv, SqInv, MapInv, DataInv, wk.pc = "mvid",
         NEW s, s = WithVid(flash[wk.e2], flash[wk.e1].lnum, wk.sqnum,
                            flash[wk.e1].data # << >> \/ flash[wk.e1].copy_flag,
                            IF flash[wk.e1].data # << >> THEN flash[wk.e1].data
                            ELSE flash[wk.e1].data_crc)
  PROVE  /\ Live(s) /\ s.lnum = flash[wk.e1].lnum /\ s.data = << >>
         /\ s.sqnum > flash[wk.e1].sqnum
         /\ flash[wk.e1].data # << >> => s.copy_flag /\ s.data_crc = flash[wk.e1].data
         /\ Beside(s, flash[wk.e1], may[flash[wk.e1].lnum])
  <1>1. up = "on" /\ wk.e1 \in PEB /\ wk.e2 \in PEB /\ Live(flash[wk.e1])
    BY Zenon, MoveApart
  <1>2. flash[wk.e2] = Formatted
    BY Zenon DEF MapInv, Erased
  <1>3. PICK r \in PebState : r = flash[wk.e1]
    BY Zenon, <1>1 DEF TypeInv, TypeOK
  <1>4. /\ s.bad = FALSE /\ s.ec = "ok" /\ s.vid = "ok" /\ s.lnum = r.lnum /\ s.sqnum = wk.sqnum
        /\ s.data = << >> /\ (r.data # << >> => s.copy_flag /\ s.data_crc = r.data)
    BY Zenon, <1>2, <1>3 DEF WithVid, Formatted, Blank
  <1>5. wk.sqnum > r.sqnum
    <2>1. wk.sqnum + 1 = global_sqnum /\ wk.sqnum \in Nat /\ r.sqnum \in Nat
      BY Zenon, <1>3 DEF DataInv, Working, TypeInv, TypeOK, WkState, PebState
    <2>2. r.sqnum < global_sqnum /\ r.sqnum # wk.sqnum
      BY Zenon, <1>1, <1>3 DEF SqInv, Numbered, Fresh
    <2>. QED  BY <2>1, <2>2
  <1>6. Live(s)
    BY Zenon, <1>4 DEF Live
  <1>7. Beside(s, r, may[r.lnum])
    <2>1. Len(r.data) \in Nat /\ Len(<< >>) = 0
      BY DEF PebState, Contents
    <2>2. CASE r.data = << >>
      BY Zenon, <1>4, <2>2 DEF Beside
    <2>3. CASE r.data # << >>
      <3>1. s.sqnum > r.sqnum /\ s.copy_flag /\ s.data_crc = r.data
        BY Zenon, <1>4, <1>5, <2>3
      <3>2. PICK n \in Nat : n = Len(s.data_crc)
        BY Zenon, <2>1, <3>1
      <3>3. Len(s.data) = 0
        BY <1>4, <2>1, Zenon
      <3>4. 0 <= n
        BY <3>2
      <3>5. Len(s.data) <= Len(s.data_crc)
        BY <3>2, <3>3, <3>4, Zenon
      <3>. QED  BY Zenon, <3>1, <3>5 DEF Beside
    <2>. QED  BY Zenon, <2>2, <2>3
  <1>. QED  BY Zenon, <1>3, <1>4, <1>5, <1>6, <1>7

\* With part of the data, all of it, or none.
LEMMA CopyData ==
  ASSUME TypeInv, SqInv, MapInv, DataInv, wk.pc = "mdata",
         NEW s \in TornData(flash[wk.e2], flash[wk.e1].data)
  PROVE  /\ Live(s) /\ s.lnum = flash[wk.e1].lnum
         /\ Beside(s, flash[wk.e1], may[flash[wk.e1].lnum])
         /\ s = WithData(flash[wk.e2], flash[wk.e1].data)
              => /\ s.data = flash[wk.e1].data
                 /\ Beside(flash[wk.e1], s, may[flash[wk.e1].lnum])
  <1>1. wk.e1 \in PEB /\ wk.e2 \in PEB
    BY Zenon, MoveApart
  <1>2. PICK r \in PebState : r = flash[wk.e1]
    BY Zenon, <1>1 DEF TypeInv, TypeOK
  <1>3. PICK o \in PebState : o = flash[wk.e2]
    BY Zenon, <1>1 DEF TypeInv, TypeOK
  <1>4. /\ Live(o) /\ o.data = << >> /\ o.copy_flag /\ o.data_crc = r.data /\ o.sqnum > r.sqnum
        /\ o.lnum = r.lnum /\ r.data \in Contents /\ o.sqnum \in Nat /\ r.sqnum \in Nat
    BY Zenon, <1>2, <1>3 DEF DataInv, Working, MapInv, Mapped, Carries, PebState
  <1>5. PICK x \in Cut(r.data) \cup {r.data, << >>} : s = WithData(o, x)
    <2>1. << >> \o << >> = << >>
      OBVIOUS
    <2>2. WithData(o, << >>) = o
      BY Zenon, <1>4, <2>1 DEF WithData, PebState
    <2>. QED  BY Zenon, <1>2, <1>3, <2>2 DEF TornData
  <1>6. x \in Contents /\ Len(x) <= Len(r.data)
    <2>1. << >> \in Contents /\ Len(<< >>) = 0 /\ Len(r.data) \in Nat
      BY <1>4 DEF Contents
    <2>. QED  BY <1>4, <2>1, CutLen
  <1>7. << >> \o x = x /\ << >> \o r.data = r.data
    BY Zenon, <1>4, <1>6, CatEmpty
  <1>8. /\ s.data = x /\ s.lnum = o.lnum /\ s.sqnum = o.sqnum /\ s.copy_flag = o.copy_flag
        /\ s.data_crc = o.data_crc /\ s.bad = o.bad /\ s.ec = o.ec /\ s.vid = o.vid
        /\ s \in PebState
    BY Zenon, <1>4, <1>5, <1>6, <1>7 DEF WithData, PebState
  <1>9. Live(s) /\ s.lnum = r.lnum
    BY Zenon, <1>4, <1>8 DEF Live
  <1>10. Beside(s, r, may[r.lnum])
    BY Zenon, <1>4, <1>6, <1>8 DEF Beside
  <1>11. ASSUME s = WithData(o, r.data)
         PROVE  s.data = r.data /\ Beside(r, s, may[r.lnum])
    <2>1. s.data = r.data
      BY Zenon, <1>4, <1>7, <1>11 DEF WithData, PebState
    <2>2. CrcOK(s)
      BY Zenon, <1>4, <1>8, <2>1, CrcRight
    <2>. QED  BY <1>4, <1>8, <2>1, <2>2 DEF Beside
  <1>. QED  BY Zenon, <1>2, <1>3, <1>9, <1>10, <1>11

\* Where the worker goes on after a step of a move.
LEMMA MoveWk ==
  ASSUME TypeInv
  PROVE  /\ NotMoved => wk'.pc = "erase" /\ wk'.e1 = wk.e2 /\ eba_tbl' = eba_tbl
         /\ MoveError => wk'.pc = "idle" /\ eba_tbl' = eba_tbl
         /\ MoveCancelled => wk'.pc = "idle" /\ eba_tbl' = eba_tbl
         /\ MoveDone => wk'.pc = "erase" /\ wk'.e1 = wk.e1
         /\ wk' = [wk EXCEPT !.pc = "mdata"] => wk'.pc = "mdata" /\ wk'.e1 = wk.e1 /\ wk'.e2 = wk.e2
  <1>1. NotMoved => wk'.pc = "erase" /\ wk'.e1 = wk.e2 /\ eba_tbl' = eba_tbl
    BY Zenon DEF NotMoved, IdleWk
  <1>2. /\ MoveError => wk'.pc = "idle" /\ eba_tbl' = eba_tbl
        /\ MoveCancelled => wk'.pc = "idle" /\ eba_tbl' = eba_tbl
    BY DEF MoveError, MoveCancelled, IdleWk
  <1>3. MoveDone => wk'.pc = "erase" /\ wk'.e1 = wk.e1
    BY Zenon DEF MoveDone, IdleWk
  <1>4. wk' = [wk EXCEPT !.pc = "mdata"] => wk'.pc = "mdata" /\ wk'.e1 = wk.e1 /\ wk'.e2 = wk.e2
    BY Zenon DEF TypeInv, TypeOK, WkState
  <1>. QED  BY Zenon, <1>1, <1>2, <1>3, <1>4

\* copy_leb() writes the VID header.
LEMMA MoveVidData ==
  ASSUME TypeInv, SqInv, MapInv, MapInv', DataInv, WkVid
  PROVE  DataInv'
  <1>1. wk.pc = "mvid" /\ UNCHANGED <<up, global_sqnum, op, may>>
    BY Zenon DEF WkVid
  <1>2. PICK s : s = WithVid(flash[wk.e2], flash[wk.e1].lnum, wk.sqnum,
                             flash[wk.e1].data # << >> \/ flash[wk.e1].copy_flag,
                             IF flash[wk.e1].data # << >> THEN flash[wk.e1].data
                             ELSE flash[wk.e1].data_crc)
    BY Zenon
  <1>3. /\ Live(s) /\ s.lnum = flash[wk.e1].lnum /\ s.data = << >>
        /\ s.sqnum > flash[wk.e1].sqnum
        /\ flash[wk.e1].data # << >> => s.copy_flag /\ s.data_crc = flash[wk.e1].data
        /\ Beside(s, flash[wk.e1], may[flash[wk.e1].lnum])
    BY Zenon, <1>1, <1>2, CopyVid
  <1>4. wk.e2 \in PEB /\ \A r \in TornVid(flash[wk.e2]) : ~Live(r)
    BY <1>1 DEF TypeInv, Wf, MapInv, Erased, TornVid, Live, Formatted, Blank
  <1>5. errs' = errs \/ (errs' = errs + 1 /\ errs < MaxErr)
    BY Zenon DEF WkVid, CopyError, Fault
  <1>6. CASE /\ flash[wk.e1].data # << >> /\ flash' = [flash EXCEPT ![wk.e2] = s]
             /\ wk' = [wk EXCEPT !.pc = "mdata"] /\ UNCHANGED eba_tbl
    BY Zenon, <1>1, <1>3, <1>5, <1>6, MoveWk, MoveStepData
  <1>7. CASE /\ flash[wk.e1].data = << >> /\ flash' = [flash EXCEPT ![wk.e2] = s]
             /\ eba_tbl' = [eba_tbl EXCEPT ![flash[wk.e1].lnum] = wk.e2] /\ MoveDone /\ UNCHANGED errs
    <2>1. Beside(flash[wk.e1], s, may[flash[wk.e1].lnum]) /\ s.data = flash[wk.e1].data
      BY Zenon, <1>3, <1>7 DEF Beside
    <2>. QED  BY Zenon, <1>1, <1>3, <1>7, <2>1, MoveWk, MoveDoneData
  <1>8. CASE flash' = [flash EXCEPT ![wk.e2] = s] /\ NotMoved
    BY Zenon, <1>1, <1>3, <1>5, <1>8, MoveWk, MoveStepData
  <1>9. ASSUME NEW r \in TornVid(flash[wk.e2]) \cup {s}, flash' = [flash EXCEPT ![wk.e2] = r],
               MoveCancelled \/ MoveError
        PROVE  DataInv'
    <2>1. Live(r) => /\ r.lnum = flash[wk.e1].lnum
                     /\ Beside(r, flash[wk.e1], may[flash[wk.e1].lnum])
      BY Zenon, <1>3, <1>4
    <2>. QED  BY Zenon, <1>1, <1>5, <1>9, <2>1, MoveWk, MoveStepData
  <1>10. CASE CopyError(TornVid(flash[wk.e2]) \cup {s})
    <2>1. flash = [flash EXCEPT ![wk.e2] = flash[wk.e2]] /\ flash[wk.e2] \in TornVid(flash[wk.e2])
      BY Zenon, <1>4 DEF TypeInv, TypeOK, TornVid
    <2>. QED  BY Zenon, <1>9, <1>10, <2>1 DEF CopyError
  <1>11. CASE (\E r \in TornVid(flash[wk.e2]) : flash' = [flash EXCEPT ![wk.e2] = r]) /\ MoveCancelled
    BY Zenon, <1>9, <1>11
  <1>. QED  BY Zenon, <1>2, <1>6, <1>7, <1>8, <1>10, <1>11 DEF WkVid

\* copy_leb() writes the data; when it reads back wrong it is not taken for good.
LEMMA MoveDataData ==
  ASSUME TypeInv, SqInv, MapInv, MapInv', DataInv, Detected, WkData
  PROVE  DataInv'
  <1>1. wk.pc = "mdata" /\ UNCHANGED <<up, global_sqnum, op, may>> /\ wk.e2 \in PEB
    BY Zenon DEF WkData, TypeInv, Wf
  <1>2. PICK s : s = WithData(flash[wk.e2], flash[wk.e1].data)
    BY Zenon
  <1>3. s \in TornData(flash[wk.e2], flash[wk.e1].data)
    BY Zenon, <1>2 DEF TornData
  <1>4. \A r \in TornData(flash[wk.e2], flash[wk.e1].data) :
          Live(r) /\ r.lnum = flash[wk.e1].lnum /\ Beside(r, flash[wk.e1], may[flash[wk.e1].lnum])
    BY Zenon, <1>1, CopyData
  <1>5. s.data = flash[wk.e1].data /\ Beside(flash[wk.e1], s, may[flash[wk.e1].lnum])
    BY Zenon, <1>1, <1>2, <1>3, CopyData
  <1>6. errs' = errs \/ (errs' = errs + 1 /\ errs < MaxErr)
    BY Zenon DEF WkData, CopyError, Fault
  <1>7. [flash EXCEPT ![wk.e2] = WithData(@, flash[wk.e1].data)] = [flash EXCEPT ![wk.e2] = s]
    BY Zenon, <1>1, <1>2 DEF TypeInv, TypeOK
  <1>8. CASE /\ flash' = [flash EXCEPT ![wk.e2] = s] /\ MoveDone /\ UNCHANGED errs
             /\ eba_tbl' = [eba_tbl EXCEPT ![flash[wk.e1].lnum] = wk.e2]
    BY Zenon, <1>1, <1>3, <1>4, <1>5, <1>8, MoveWk, MoveDoneData
  <1>9. ASSUME NEW r \in TornData(flash[wk.e2], flash[wk.e1].data),
               flash' = [flash EXCEPT ![wk.e2] = r], NotMoved \/ MoveError
        PROVE  DataInv'
    BY Zenon, <1>1, <1>4, <1>6, <1>9, MoveWk, MoveStepData
  <1>10. CASE CopyError(TornData(flash[wk.e2], flash[wk.e1].data))
    <2>1. /\ flash = [flash EXCEPT ![wk.e2] = flash[wk.e2]]
          /\ flash[wk.e2] \in TornData(flash[wk.e2], flash[wk.e1].data)
      BY Zenon, <1>1 DEF TypeInv, TypeOK, TornData
    <2>. QED  BY Zenon, <1>9, <1>10, <2>1 DEF CopyError
  <1>11. CASE flash' = [flash EXCEPT ![wk.e2] = s] /\ NotMoved
    BY Zenon, <1>3, <1>9, <1>11
  <1>12. ~Fault("mismatch")
    BY Zenon DEF Fault, Detected
  <1>. QED  BY Zenon, <1>7, <1>8, <1>10, <1>11, <1>12 DEF WkData

-----------------------------------------------------------------------------
(* Power cuts and attaching. *)

\* Interrupting whatever is going on leaves the good copies good.
LEMMA InterruptedSafe ==
  ASSUME TypeInv, TypeInv', SqInv, MapInv, DataInv, up # "off", flash' \in Interrupted, may' = may,
         NEW k \in LEB, NEW g \in PEB \cup {None}, g = GoodOf(k)
  PROVE  SafeAt(k, g)'
  <1>0. \A x \in PEB : \A s : flash' = [flash EXCEPT ![x] = s] => s \in PebState
    BY DEF TypeInv, TypeOK
  <1>1. \A x \in PEB : flash[x] \in PebState /\ (flash[x].vid = "ok" => flash[x].ec # "none")
    BY Zenon DEF TypeInv, TypeOK, SqInv, EcKept
  <1>2. SafeAt(k, g)
    BY Zenon DEF DataInv, Safe
  <1>3. CASE wk.pc = "erase"
    <2>1. wk.e1 \in PEB
      BY Zenon, <1>3 DEF TypeInv, Wf
    <2>2. PICK s \in TornErase(flash[wk.e1]) : flash' = [flash EXCEPT ![wk.e1] = s]
      BY Zenon, <1>3 DEF Interrupted
    <2>3. Tears(flash[wk.e1], s) /\ s \in PebState
      BY Zenon, <1>0, <1>1, <2>1, <2>2, WorkerTears
    <2>. QED  BY Zenon, <1>3, <2>2, <2>3, EraseSafe
  <1>4. CASE wk.pc = "ec"
    <2>1. wk.e1 \in PEB /\ ~Live(flash[wk.e1])
      BY <1>4 DEF TypeInv, Wf, MapInv, Erased, Live, Blank
    <2>2. PICK s \in TornEc(flash[wk.e1]) : flash' = [flash EXCEPT ![wk.e1] = s]
      BY Zenon, <1>4 DEF Interrupted
    <2>3. Tears(flash[wk.e1], s) /\ s \in PebState
      BY Zenon, <1>0, <1>1, <2>1, <2>2, WorkerTears
    <2>. QED  BY Zenon, <1>4, <2>1, <2>2, <2>3, EraseSafe
  <1>5. CASE wk.pc = "mvid"
    <2>1. PICK s \in TornVid(flash[wk.e2]) : flash' = [flash EXCEPT ![wk.e2] = s]
      BY Zenon, <1>5 DEF Interrupted
    <2>2. ~Live(s)
      BY Zenon, <1>5, <2>1 DEF MapInv, Erased, TornVid, Live, Formatted, Blank
    <2>. QED  BY Zenon, <1>5, <2>1, <2>2, MoveSafe
  <1>6. CASE wk.pc = "mdata"
    <2>1. PICK s \in TornData(flash[wk.e2], flash[wk.e1].data) : flash' = [flash EXCEPT ![wk.e2] = s]
      BY Zenon, <1>6 DEF Interrupted
    <2>2. s.lnum = flash[wk.e1].lnum /\ Beside(s, flash[wk.e1], may[flash[wk.e1].lnum])
      BY Zenon, <1>6, <2>1, CopyData
    <2>. QED  BY Zenon, <1>6, <2>1, <2>2, MoveSafe
  <1>7. CASE wk.pc = "idle" /\ op.pc \in {"vid", "data", "append"}
    <2>1. up = "on" /\ g = eba_tbl[k]
      BY Zenon, <1>7 DEF SqInv, Nested, GoodOf
    <2>2. CASE op.pc = "vid"
      <3>1. /\ op.pnum \in PEB /\ eba_tbl[k] # op.pnum
        BY Zenon, <2>2, NewApart
      <3>2. PICK s \in TornVid(flash[op.pnum]) : flash' = [flash EXCEPT ![op.pnum] = s]
        BY Zenon, <1>7, <2>2 DEF Interrupted
      <3>3. ~Live(s)
        BY Zenon, <2>2, <3>2 DEF MapInv, Erased, TornVid, Live, Formatted, Blank
      <3>. QED  BY Zenon, <1>2, <2>1, <3>1, <3>2, <3>3, GoneSafe
    <2>3. CASE op.pc = "data"
      <3>1. PICK s \in TornData(flash[op.pnum], op.buf) : flash' = [flash EXCEPT ![op.pnum] = s]
        BY Zenon, <1>7, <2>3 DEF Interrupted
      <3>2. NewOK(s)
        BY Zenon, <2>3, <3>1, TornNew
      <3>. QED  BY Zenon, <1>7, <2>1, <2>3, <3>1, <3>2, NewSafe
    <2>4. CASE op.pc = "append"
      <3>1. PICK s \in TornData(flash[op.from], op.buf) : flash' = [flash EXCEPT ![op.from] = s]
        BY Zenon, <1>7, <2>4 DEF Interrupted
      <3>2. /\ s.bad = flash[op.from].bad /\ s.ec = flash[op.from].ec /\ s.vid = flash[op.from].vid
            /\ s.lnum = flash[op.from].lnum /\ s.data \in may[op.lnum]
        BY Zenon, <2>4, <3>1, TornMore
      <3>. QED  BY Zenon, <1>7, <2>1, <2>4, <3>1, <3>2, MoreSafe
    <2>. QED  BY Zenon, <1>7, <2>2, <2>3, <2>4
  <1>8. CASE /\ wk.pc \notin {"erase", "ec", "mvid", "mdata"}
             /\ ~(wk.pc = "idle" /\ op.pc \in {"vid", "data", "append"})
    <2>1. op.pc \notin {"rvid", "rdata"}
      BY Zenon DEF DataInv, Writing
    <2>2. flash' = flash
      BY Zenon, <1>8, <2>1 DEF Interrupted
    <2>. QED  BY Zenon, <1>2, <2>2, SameSafe
  <1>. QED  BY Zenon, <1>3, <1>4, <1>5, <1>6, <1>7, <1>8

\* A power cut.
LEMMA PowerCutData ==
  ASSUME TypeInv, TypeInv', SqInv, MapInv, DataInv, PowerCut
  PROVE  DataInv'
  <1>1. /\ up # "off" /\ up' = "off" /\ flash' \in Interrupted /\ op' = IdleOp /\ wk' = IdleWk
        /\ UNCHANGED <<may, errs>>
    BY Zenon DEF PowerCut
  <1>2. Writing' /\ op'.tries = 0 /\ op'.pc = "idle" /\ wk'.pc = "idle"
    BY Zenon, <1>1, IdleWriting DEF IdleWk
  <1>3. Safe'
    <2>1. ASSUME NEW k \in LEB
          PROVE  \E g \in PEB \cup {None} : SafeAt(k, g)'
      <3>1. PICK g \in PEB \cup {None} : g = GoodOf(k)
        BY ZenonT(30), <1>1 DEF DataInv, Safe
      <3>. QED  BY Zenon, <1>1, <3>1, InterruptedSafe
    <2>. QED  BY Zenon, <1>1, <2>1 DEF Safe
  <1>4. Counted' /\ Working'
    BY <1>1, <1>2 DEF DataInv, Counted, Working, TypeInv, TypeOK
  <1>. QED  BY Zenon, <1>2, <1>3, <1>4 DEF DataInv

\* ubi_scan() decides for one copy of each LEB.
LEMMA AttachData ==
  ASSUME TypeInv, SqInv, MapInv, DataInv, Attach
  PROVE  DataInv'
  <1>1. PICK winner \in [LEB -> PEB \cup {None}] :
          /\ \A l \in LEB : IsWinner(l, winner[l])
          /\ eba_tbl' = winner /\ may' = [l \in LEB |-> {DataOf(winner[l])}]
    BY Zenon DEF Attach
  <1>2. /\ up = "off" /\ up' = "init" /\ UNCHANGED <<flash, op, wk>> /\ op.pc = "idle" /\ wk.pc = "idle"
    BY Zenon DEF Attach, SqInv, Nested
  <1>3. errs' = errs \/ (errs' = errs + 1 /\ errs < MaxErr)
    BY Zenon DEF Attach, Fault
  <1>4. Safe'
    <2>1. ASSUME NEW l \in LEB
          PROVE  \E g \in PEB \cup {None} : SafeAt(l, g)' /\ g = GoodOf(l)'
      <3>1. PICK g \in PEB \cup {None} : SafeAt(l, g)
        BY Zenon DEF DataInv, Safe
      <3>2. PICK w \in PEB \cup {None} : w = winner[l]
        BY Zenon, <1>1
      <3>3. IsWinner(l, w) /\ may'[l] = {DataOf(w)} /\ GoodOf(l)' = w
        BY Zenon, <1>1, <1>2, <3>2 DEF GoodOf
      <3>4. SafeAt(l, w)'
        BY Zenon, <1>2, <3>1, <3>3, SafeWinner DEF MapInv
      <3>. QED  BY Zenon, <3>3, <3>4
    <2>. QED  BY Zenon, <2>1 DEF Safe
  <1>5. Writing'
    BY Zenon, <1>2 DEF DataInv, Writing
  <1>6. Counted'
    BY <1>2, <1>3, EbaAssumption DEF DataInv, Counted, TypeInv, TypeOK, OpState
  <1>7. Working'
    <2>1. \A p \in PEB, l \in LEB : Holds(p, l) => winner[l] # None
      BY Zenon, <1>1, CopiesHold, MediaAssumption DEF IsWinner
    <2>. QED  BY Zenon, <1>1, <1>2, <2>1 DEF Working, Holds
  <1>. QED  BY Zenon, <1>4, <1>5, <1>6, <1>7 DEF DataInv

-----------------------------------------------------------------------------
(* The invariant. *)

\* A formatted flash holds nothing.
LEMMA InitData ==
  ASSUME Init
  PROVE  DataInv
  <1>1. \A p \in PEB : ~Live(flash[p])
    BY Zenon DEF Init, Live, Formatted, Blank
  <1>2. up = "off" /\ op.pc = "idle" /\ wk.pc = "idle" /\ errs = 0 /\ op.tries = 0
    BY Zenon DEF Init, IdleOp, IdleWk
  <1>3. \A l \in LEB : SafeAt(l, None)
    BY Zenon, <1>1 DEF SafeAt, Holds, Init
  <1>4. Safe
    BY Zenon, <1>2, <1>3 DEF Safe
  <1>5. Writing
    BY DEF Init, IdleOp, Writing
  <1>6. Counted /\ Working
    BY <1>2, EbaAssumption DEF Counted, Working
  <1>. QED  BY Zenon, <1>4, <1>5, <1>6 DEF DataInv

\* Steps of recover_peb() do not occur.
LEMMA NoRecoverStep ==
  ASSUME DataInv
  PROVE  ~(\/ OpRecoverGet \/ OpRecoverVid \/ OpRecoverData
           \/ OpRecoverDone \/ OpRecoverRetry \/ OpRecoverFail)
  BY Zenon DEF DataInv, Writing, OpRecoverGet, OpRecoverVid, OpRecoverData, OpRecoverDone,
         OpRecoverRetry, OpRecoverFail, Running

\* Every step keeps the invariant.
LEMMA NextData ==
  ASSUME TypeInv, TypeInv', SqInv, MapInv, MapInv', DataInv,
         Detected, NoRecovery, RetriesLeft, [Next]_vars
  PROVE  DataInv'
  <1>1. CASE Call
    <2>1. << >> \in Seq(Chunk) /\ Len(<< >>) <= 1
      OBVIOUS
    <2>2. \A c \in Chunk : <<c>> \in Seq(Chunk) /\ Len(<<c>>) <= 1
      OBVIOUS
    <2>3. PICK l \in LEB :
            \/ Write(l, << >>)
            \/ \E c \in Chunk : Write(l, <<c>>) \/ AppendTo(l, <<c>>) \/ Change(l, <<c>>)
            \/ \E kind \in {"unmap", "change0"} : Unmap(l, kind)
            \/ ReadScrub(l)
      BY Zenon, <1>1 DEF Call
    <2>4. CASE Write(l, << >>)
      BY Zenon, <2>1, <2>4, WriteData
    <2>5. ASSUME NEW c \in Chunk, Write(l, <<c>>) \/ AppendTo(l, <<c>>) \/ Change(l, <<c>>)
          PROVE  DataInv'
      BY Zenon, <2>2, <2>5, WriteData, AppendData
    <2>. QED  BY Zenon, <2>3, <2>4, <2>5, UnmapData, ReadScrubData
  <1>2. CASE OpStep
    BY Zenon, <1>2, UnmappedData, GetData, VidData, WriteDataData, RemapData, RetryData, MoreData,
       NoRecoverStep DEF OpStep
  <1>3. CASE WkStep
    BY Zenon, <1>3, EraseData, ChooseData, MoveReadData, MoveVidData, MoveDataData DEF WkStep
  <1>4. CASE AttachStep
    BY Zenon, <1>4, AttachData, InitEraseData, InitDoneData DEF AttachStep
  <1>5. CASE PowerCut
    BY Zenon, <1>5, PowerCutData
  <1>6. CASE UNCHANGED vars
    <2>1. UNCHANGED <<flash, up, eba_tbl, global_sqnum, op, wk, may, errs>>
      BY Zenon, <1>6 DEF vars
    <2>2. Safe'
      BY <2>1 DEF DataInv, Safe, SafeAt, Holds, GoodOf
    <2>3. Writing' /\ Counted' /\ Working'
      BY ZenonT(30), <2>1 DEF DataInv, Writing, Counted, Working, Holds, GoodOf
    <2>. QED  BY Zenon, <2>2, <2>3 DEF DataInv
  <1>. QED  BY Zenon, <1>1, <1>2, <1>3, <1>4, <1>5, <1>6 DEF Next
=============================================================================
