-------------------------------- MODULE UbiWl --------------------------------
(* Which physical eraseblocks (PEBs) UBI wears out: the choice of a PEB to give *)
(* out, the protection of what was just given out, and the moves that           *)
(* wear-leveling and scrubbing make after every erasure (drivers/mtd/ubi/wl.c), *)
(* with the erase counters the scan finds after a power cut (scan.c).           *)
(*                                                                              *)
(* U-Boot has no background thread: schedule_ubi_work() runs the work at once,  *)
(* so an erasure calls the wear-leveling worker, which calls an erasure, and so *)
(* on until nothing is left to move.  work is the innermost of these calls.     *)
(*                                                                              *)
(* ec counts from the least worn PEB, which has the absolute counter least;     *)
(* the code compares counters with each other, with one exception that the      *)
(* model keeps (MediumEc).                                                      *)
EXTENDS Integers, FiniteSets, FiniteSetsExt

CONSTANTS
  Peb,                    \* PEB numbers
  UBI_WL_THRESHOLD,
  ST_PROTECTION, U_PROTECTION, LT_PROTECTION,
  Tortures,               \* erasures a torture test makes
  Dtypes,                 \* of LONGTERM, UNKNOWN and SHORTTERM
  MaxLeast,               \* least is not told apart beyond this
  MaxSpread,              \* no PEB is given out once counters differ by more
  MaxErr,                 \* failed or cancelled operations
  MaxCuts                 \* power cuts

WL_FREE_MAX_DIFF == 2 * UBI_WL_THRESHOLD

ASSUME WlAssumption ==
  /\ Peb \subseteq Nat /\ IsFiniteSet(Peb)
  /\ UBI_WL_THRESHOLD \in Nat \ {0}
  /\ {ST_PROTECTION, U_PROTECTION, LT_PROTECTION} \subseteq Nat \ {0}
  /\ {Tortures, MaxLeast, MaxSpread, MaxErr, MaxCuts} \subseteq Nat
  /\ Dtypes \subseteq {"LONGTERM", "UNKNOWN", "SHORTTERM"}

VARIABLES
  tree,    \* free, used, scrub, prot, bad, or "work" while only work knows it
  ec,      \* erase counters, from the least worn PEB that is not bad
  least,   \* the erase counter of that one
  left,    \* erasures left before a protected PEB may be moved
  work,    \* the innermost work
  depth,   \* wear-leveling workers that have not returned, up to DepthCap
  errs, cuts

vars == <<tree, ec, least, left, work, depth, errs, cuts>>

In(t) == {p \in Peb : tree[p] = t}
Good == {p \in Peb : tree[p] # "bad"}
Idle == [do |-> "none"]

\* More nested workers than this are not counted.
DepthCap == Cardinality(Peb) + MaxErr + 1

\* The order of the trees: by erase counter, then by number.
Below(p, q) == ec[p] < ec[q] \/ (ec[p] = ec[q] /\ p < q)
First(S) == CHOOSE p \in S : \A q \in S \ {p} : Below(p, q)
Last(S) == CHOOSE p \in S : \A q \in S \ {p} : Below(q, p)

\* find_wl_entry(): the most worn of those less than max above the first.
FindWlEntry(S, max) == Last({First(S)} \cup {p \in S : ec[p] < ec[First(S)] + max})

\* The medium counter ubi_wl_get_peb() passes as the distance from the first is
\* half of the absolute counter of the first plus WL_FREE_MAX_DIFF.
MediumEc == (least + ec[First(In("free"))] + WL_FREE_MAX_DIFF) \div 2

FarApart == ec[Last(In("free"))] - ec[First(In("free"))] >= WL_FREE_MAX_DIFF

\* What ubi_wl_get_peb() may choose.  The root of a tree may be any of its nodes.
Choice(dtype) ==
  CASE dtype = "LONGTERM" -> {FindWlEntry(In("free"), WL_FREE_MAX_DIFF)}
    [] dtype = "SHORTTERM" -> {First(In("free"))}
    [] dtype = "UNKNOWN" /\ ~FarApart -> In("free")
    [] OTHER -> {FindWlEntry(In("free"), MediumEc)}

Protection(dtype) == CASE dtype = "LONGTERM" -> LT_PROTECTION
                       [] dtype = "SHORTTERM" -> ST_PROTECTION
                       [] OTHER -> U_PROTECTION

-----------------------------------------------------------------------------
\* ubi_wl_get_peb() with a free PEB; without one nothing is left to erase, since
\* works are done at once, and it fails.
GetPeb(dtype) ==
  /\ work = Idle /\ Cardinality(In("free")) > 1
  /\ \A p \in Good : ec[p] <= MaxSpread
  /\ \E e \in Choice(dtype) :
       /\ tree' = [tree EXCEPT ![e] = "prot"]
       /\ left' = [left EXCEPT ![e] = Protection(dtype)]
  /\ UNCHANGED <<ec, least, work, depth, errs, cuts>>

\* holds says that the PEB has the only copy of its LEB.
EraseWork(p, n, holds) == [do |-> "erase", e |-> p, erasures |-> n, holds |-> holds]
EnsureWork == [do |-> "ensure"]

\* ubi_wl_put_peb(); a PEB an operation failed on is put to torture.
PutPeb(p) ==
  /\ work = Idle
  /\ tree[p] \in {"used", "scrub", "prot"}
  /\ tree' = [tree EXCEPT ![p] = "work"]
  /\ left' = [left EXCEPT ![p] = 0]
  /\ \/ work' = EraseWork(p, 1, TRUE) /\ UNCHANGED errs
     \/ work' = EraseWork(p, Tortures + 1, TRUE) /\ errs < MaxErr /\ errs' = errs + 1
  /\ UNCHANGED <<ec, least, depth, cuts>>

\* ubi_wl_scrub_peb(), which a read that met bit-flips calls.
ScrubPeb(p) ==
  /\ work = Idle
  /\ tree[p] \in {"used", "prot"}
  /\ tree' = [tree EXCEPT ![p] = "scrub"]
  /\ left' = [left EXCEPT ![p] = 0]
  /\ work' = EnsureWork
  /\ UNCHANGED <<ec, least, depth, errs, cuts>>

-----------------------------------------------------------------------------
\* Counters seen from the least worn PEB again.
Counted(f) ==
  LET min == Min({f[p] : p \in {q \in Peb : tree'[q] # "bad"}})
  IN /\ ec' = [p \in Peb |-> IF tree'[p] = "bad" THEN 0 ELSE f[p] - min]
     /\ least' = Min({MaxLeast, least + min})

\* Mutant: a protected PEB whose time is over stays where it is.
ErasedKeptProtected ==
  /\ work.do = "erase"
  /\ tree' = [tree EXCEPT ![work.e] = "free"]
  /\ left' = [q \in Peb |-> IF left[q] = 0 THEN 0 ELSE left[q] - 1]
  /\ Counted([ec EXCEPT ![work.e] = @ + work.erasures])
  /\ work' = EnsureWork
  /\ UNCHANGED <<depth, errs, cuts>>

\* sync_erase() succeeds, then check_protection_over().
Erased ==
  LET p == work.e
      over == {q \in In("prot") : left[q] <= 1}
  IN /\ work.do = "erase"
     /\ tree' = [q \in Peb |-> IF q = p THEN "free" ELSE IF q \in over THEN "used" ELSE tree[q]]
     /\ left' = [q \in Peb |-> IF left[q] = 0 THEN 0 ELSE left[q] - 1]
     /\ Counted([ec EXCEPT ![p] = @ + work.erasures])
     /\ work' = EnsureWork
     /\ UNCHANGED <<depth, errs, cuts>>

\* The erasure fails with -EIO and the PEB is marked bad; every call returns.
EraseFails ==
  /\ work.do = "erase"
  /\ errs < MaxErr /\ errs' = errs + 1
  /\ tree' = [tree EXCEPT ![work.e] = "bad"]
  /\ Cardinality(Good) > 1 /\ Counted(ec)
  /\ work' = Idle /\ depth' = 0
  /\ UNCHANGED <<left, cuts>>


\* Mutant: used PEBs are asked for before there is scrubbing.
MoveNeededUsed ==
  /\ In("free") # {} /\ In("used") # {}
  /\ \/ In("scrub") # {}
     \/ ec[FindWlEntry(In("free"), WL_FREE_MAX_DIFF)] - ec[First(In("used"))] >= UBI_WL_THRESHOLD

\* ensure_wear_leveling(), and the same questions asked by the worker it calls.
MoveNeeded ==
  /\ In("free") # {}
  /\ \/ In("scrub") # {}
     \/ /\ In("used") # {}
        /\ ec[FindWlEntry(In("free"), WL_FREE_MAX_DIFF)] - ec[First(In("used"))] >= UBI_WL_THRESHOLD

StartMove ==
  LET scrubbing == In("scrub") # {}
      e1 == First(IF scrubbing THEN In("scrub") ELSE In("used"))
      e2 == FindWlEntry(In("free"), WL_FREE_MAX_DIFF)
  IN /\ work = EnsureWork /\ MoveNeeded
     /\ tree' = [tree EXCEPT ![e1] = "work", ![e2] = "work"]
     /\ work' = [do |-> "move", from |-> e1, to |-> e2, back |-> tree[e1]]
     /\ depth' = Min({depth + 1, DepthCap})
     /\ UNCHANGED <<ec, least, left, errs, cuts>>

\* Nothing to move: every call returns.
NoMove ==
  /\ work = EnsureWork /\ ~MoveNeeded
  /\ work' = Idle /\ depth' = 0
  /\ UNCHANGED <<tree, ec, least, left, errs, cuts>>


\* The rest of wear_leveling_worker().
Moved ==
  /\ work.do = "move"
  /\ tree' = [tree EXCEPT ![work.to] = "used"]
  /\ work' = EraseWork(work.from, 1, FALSE)
  /\ UNCHANGED <<ec, least, left, depth, errs, cuts>>

\* ubi_eba_copy_leb() says the LEB is gone: the source is protected for one
\* erasure, and the target counts as used.
MoveCancelled ==
  /\ work.do = "move"
  /\ errs < MaxErr /\ errs' = errs + 1
  /\ tree' = [tree EXCEPT ![work.from] = "prot", ![work.to] = "used"]
  /\ left' = [left EXCEPT ![work.from] = 1]
  /\ work' = Idle /\ depth' = 0
  /\ UNCHANGED <<ec, least, cuts>>

\* The source goes back where it was and the target is erased.
NotMoved ==
  /\ work.do = "move"
  /\ errs < MaxErr /\ errs' = errs + 1
  /\ tree' = [tree EXCEPT ![work.from] = work.back]
  /\ work' = EraseWork(work.to, 1, FALSE)
  /\ UNCHANGED <<ec, least, left, depth, cuts>>

-----------------------------------------------------------------------------
\* The mean of the counters ubi_scan() could read.
MeanEc(lost) == MapThenSumSet(LAMBDA p : ec[p], Good \ lost) \div Cardinality(Good \ lost)

Pending == CASE work.do = "erase" -> {work.e}
             [] work.do = "move" -> {work.from, work.to}
             [] OTHER -> {}

\* A power cut and the next attach, ubi_scan() and ubi_wl_init_scan(): of a move the
\* source or the target is in use, a PEB that was to be erased may be in use again
\* if it holds its LEB, or erased without a counter, which is then taken to be the
\* mean; what is not in use is erased.  Nothing is protected any longer, bit-flips may
\* be overlooked, and a PEB just given out may be blank, hence free.
PowerCut ==
  /\ cuts < MaxCuts /\ cuts' = cuts + 1
  /\ \E inUse \in SUBSET Pending, lost \in SUBSET Pending,
        seen \in SUBSET In("scrub"), blank \in SUBSET In("prot") :
       /\ inUse \cap lost = {} /\ Good # lost
       /\ blank # {} => work = Idle /\ Cardinality(blank) = 1
       /\ work.do = "move" => Cardinality(inUse) = 1 /\ lost = {}
       /\ work.do = "erase" => work.holds \/ inUse = {}
       /\ tree' = [p \in Peb |-> CASE p \in blank \cup (Pending \ inUse) -> "free"
                                   [] p \in seen -> "scrub"
                                   [] p \in inUse \/ tree[p] \in {"used", "prot", "scrub"} -> "used"
                                   [] OTHER -> tree[p]]
       /\ Counted([p \in Peb |-> CASE p \in lost -> MeanEc(lost) + 1
                                   [] p \in Pending \ (inUse \cup lost) -> ec[p] + 1
                                   [] OTHER -> ec[p]])
  /\ left' = [p \in Peb |-> 0]
  /\ work' = EnsureWork /\ depth' = 0
  /\ UNCHANGED errs

\* A new flash.
Init ==
  /\ tree = [p \in Peb |-> "free"]
  /\ ec = [p \in Peb |-> 0] /\ least = 0
  /\ left = [p \in Peb |-> 0]
  /\ work = Idle /\ depth = 0
  /\ errs = 0 /\ cuts = 0

DoWork == \/ Erased \/ EraseFails
          \/ StartMove \/ NoMove
          \/ Moved \/ MoveCancelled \/ NotMoved

Next == \/ \E d \in Dtypes : GetPeb(d)
        \/ \E p \in Peb : PutPeb(p) \/ ScrubPeb(p)
        \/ DoWork \/ PowerCut

\* A work that has begun is carried on: it is a function call.
Spec == Init /\ [][Next]_vars /\ WF_vars(DoWork)

-----------------------------------------------------------------------------
Work == [do : {"none", "ensure"}] \cup [do : {"erase"}, e : Peb, erasures : 1..Tortures + 1, holds : BOOLEAN]
          \cup [do : {"move"}, from : Peb, to : Peb, back : {"used", "scrub"}]

TypeOK ==
  /\ tree \in [Peb -> {"free", "used", "scrub", "prot", "bad", "work"}]
  /\ ec \in [Peb -> Nat] /\ least \in 0..MaxLeast
  /\ left \in [Peb -> Nat]
  /\ \A p \in Peb : left[p] > 0 <=> tree[p] = "prot"
  /\ work \in Work
  /\ In("work") = Pending
  /\ depth \in Nat


\* As works are done at once, no call returns and no attach ends with bit-flips left
\* to scrub, unless an operation failed.
ScrubbedAtOnce == work = Idle /\ errs = 0 => In("scrub") = {}

\* Every call returns: erasures that lead to moves that lead to erasures come to an
\* end.
Settles == work # Idle ~> work = Idle

\* "by no means can pick a physical eraseblock with erase counter greater or
\* equivalent than the lowest erase counter plus WL_FREE_MAX_DIFF".
PickedBounded ==
  [][\A p \in Peb : tree[p] = "free" /\ tree'[p] = "prot" =>
       ec[p] < ec[First(In("free"))] + WL_FREE_MAX_DIFF]_vars
=============================================================================
