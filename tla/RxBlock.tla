------------------------------ MODULE RxBlock ------------------------------
(***************************************************************************)
(* One FEC block on the receiver: src/wifibroadcast/src/fec/RxBlock.{h,cpp} *)
(* and the index selection of fecDecode (fec/FEC.h).                        *)
(*                                                                         *)
(* A block is a record whose fields keep the names of the class members:    *)
(*   blockIdx   the index of the block                                      *)
(*   map        fragment_map, as the set of the available indices           *)
(*   k          m_n_primary_fragments_in_block, Unknown before a fragment   *)
(*   nP, nS     m_n_available_{primary,secondary}_fragments                 *)
(*   fwd        nAlreadyForwardedPrimaryFragments                           *)
(* Payload bytes, sizes and time points are left out: no decision of the    *)
(* receive queue reads them.  An assert of the code is an operator named    *)
(* ...Asserts, evaluated where the code evaluates it.                       *)
(***************************************************************************)
EXTENDS Integers, Sequences, FiniteSets, SequencesExt

Unknown == -1

RxBlockType ==
  [blockIdx : Nat, map : SUBSET Nat, k : {Unknown} \cup (Nat \ {0}),
   nP : Nat, nS : Nat, fwd : Nat]

\* The constructor: every fragment is unavailable.
NewRxBlock(b) ==
  [blockIdx |-> b, map |-> {}, k |-> Unknown, nP |-> 0, nS |-> 0, fwd |-> 0]

\* Mutant: the first correction fragment counts as data.
IsPrimaryInclusive(h) == h.fragment_idx <= h.n_primary_fragments

\* A header is [block_idx, fragment_idx, n_primary_fragments].
IsPrimary(h) == h.fragment_idx < h.n_primary_fragments

AllForwarded(r) == r.k # Unknown /\ r.fwd = r.k

AllAvailable(r) == r.k # Unknown /\ r.nP = r.k

\* Mutant: one fragment more than needed is waited for.
CanBeRecoveredLate(r) == r.k # Unknown /\ r.nP + r.nS > r.k

CanBeRecovered(r) == r.k # Unknown /\ r.nP + r.nS >= r.k

AddFragmentAsserts(r, h) ==
  /\ h.fragment_idx \notin r.map
  /\ h.block_idx = r.blockIdx
  /\ r.k \in {Unknown, h.n_primary_fragments}

AddFragment(r, h) ==
  [r EXCEPT !.map = @ \cup {h.fragment_idx},
            !.k = IF @ = Unknown THEN h.n_primary_fragments ELSE @,
            !.nP = IF IsPrimary(h) THEN @ + 1 ELSE @,
            !.nS = IF IsPrimary(h) THEN @ ELSE @ + 1]

-----------------------------------------------------------------------------
(* pullAvailablePrimaryFragments: the loop runs from the first index not     *)
(* yet forwarded to the NUMBER of available primary fragments, skips the     *)
(* missing ones when discarding and stops at the first one otherwise.        *)

\* Mutant: the indices pulled before are returned again.
PulledFromStart(r, discard) ==
  {i \in 0..(r.nP - 1) : IF discard THEN i \in r.map ELSE 0..i \subseteq r.map}

Pulled(r, discard) ==
  {i \in r.fwd..(r.nP - 1) :
     IF discard THEN i \in r.map ELSE r.fwd..i \subseteq r.map}

\* Mutant: a pull counts every available fragment as forwarded.
ForwardedAll(r, discard) == [r EXCEPT !.fwd = r.nP]

Forwarded(r, discard) ==
  [r EXCEPT !.fwd = @ + Cardinality(Pulled(r, discard))]

\* forwardMissingPrimaryFragmentsIfAvailable hands the pulled fragments, in
\* ascending order, to the data callback: the j-th has j - 1 of them before it.
\* Sizes are not followed: a fragment whose size field is out of range, which the
\* encoder does not write, is only warned of (FECDecoder.cpp:55-59).
Emitted(r, discard) ==
  LET S == Pulled(r, discard)
      order(j) == CHOOSE f \in S : Cardinality({g \in S : g < f}) = j - 1
  IN [j \in 1..Cardinality(S) |-> <<r.blockIdx, order(j)>>]

\* The asserts of get_primary_fragment_data_p / _size for the pulled indices.
PullAsserts(r, discard) ==
  \A i \in Pulled(r, discard) : i \in r.map /\ r.k # Unknown /\ i < r.k

-----------------------------------------------------------------------------
(* reconstructAllMissingData and fecDecode. *)

MissingPrimary(r) == (0..(r.k - 1)) \ r.map

Secondary(r) == {i \in r.map : i >= r.k}

ReconstructAsserts(r) ==
  /\ r.k # Unknown
  /\ r.nS > 0            \* m_size_of_secondary_fragments was set
  /\ r.nP + r.nS >= r.k
  \* fecDecode is called neither too early nor too late
  /\ Cardinality(MissingPrimary(r)) = Cardinality(Secondary(r))

Reconstructed(r) ==
  [r EXCEPT !.map = @ \cup MissingPrimary(r),
            !.nP = @ + Cardinality(MissingPrimary(r))]
=============================================================================
