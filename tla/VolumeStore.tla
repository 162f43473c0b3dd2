----------------------------- MODULE VolumeStore -----------------------------
(***************************************************************************)
(* What the volume commands promise across power cuts: a set of volumes    *)
(* that are created empty, removed, extended and updated in one step each. *)
(* An update makes the old data unreadable before the new data are there;  *)
(* readable data never change.                                             *)
(***************************************************************************)
EXTENDS Integers

CONSTANTS Slot, Name, Type, MaxLebs, MaxImages, Damaged

VARIABLE store

None == [pebs |-> 0]
Empty(n) == [l \in 0 .. n - 1 |-> << >>]

\* The data of a volume of size n after image v of k LEBs was written to it.
Written(n, v, k, t) == [l \in 0 .. n - 1 |-> IF l < k THEN <<v, k, t>> ELSE << >>]

Init ==
  \E d \in SUBSET Slot :
    /\ \A s \in Slot \ d : store[s] = None
    /\ \A s \in d : store[s].pebs > 0 /\ store[s].data = Empty(store[s].pebs)

Create(s) ==
  /\ store[s] = None
  /\ \E name \in Name, type \in Type, n \in 1 .. MaxLebs :
       /\ \A u \in Slot : store[u] # None => store[u].name # name
       /\ store' = [store EXCEPT ![s] = [pebs |-> n, type |-> type, name |-> name,
                                         data |-> Empty(n)]]

Remove(s) == store[s] # None /\ store' = [store EXCEPT ![s] = None]

BeginUpdate(s) ==
  /\ store[s] # None
  /\ store' = [store EXCEPT ![s].data = Damaged]

EndUpdate(s) ==
  /\ store[s] # None /\ store[s].data = Damaged
  /\ \E v \in 1 .. MaxImages, k \in 0 .. store[s].pebs :
       store' = [store EXCEPT ![s].data = Written(store[s].pebs, v, k, store[s].type)]

Grow(s) ==
  /\ store[s] # None
  /\ \E n \in store[s].pebs + 1 .. MaxLebs :
       store' = [store EXCEPT ![s].pebs = n,
                              ![s].data = IF @ = Damaged THEN @
                                          ELSE [l \in 0 .. n - 1 |->
                                                  IF l < store[s].pebs THEN @[l] ELSE << >>]]

Next == \E s \in Slot : Create(s) \/ Remove(s) \/ BeginUpdate(s) \/ EndUpdate(s) \/ Grow(s)

Spec == Init /\ [][Next]_store
=============================================================================
