---------------------------- MODULE AddressPool ----------------------------
(***************************************************************************)
(* PoolAllocator of pkg/allocator/pool.go, as operators on a pool record:  *)
(*   leases  the session each address is leased to, or Nobody;             *)
(*   free    the stack of free addresses, allocated from its end;          *)
(*   asc     whether the lowest address is handed out first.               *)
(* Every method of the code holds the pool's mutex.  PrefixAllocator of    *)
(* prefix.go has the same structure over the indices of a prefix's         *)
(* subnets.                                                                *)
(***************************************************************************)
EXTENDS Integers, Sequences, FiniteSets

CONSTANTS
  LastAddr, \* the range is 1..LastAddr
  Excluded, \* the gateway and the excluded addresses
  Session   \* session IDs

CONSTANT Nobody

Addr == 1..LastAddr

ASSUME AddrAssumption == LastAddr \in Nat /\ Excluded \subseteq Addr
ASSUME NobodyAssumption == Nobody \notin Session

Pool == [leases : [Addr -> Session \cup {Nobody}], free : Seq(Addr), asc : BOOLEAN]

Allocatable == Addr \ Excluded

Leased(p, a) == p.leases[a] # Nobody

\* Position of a in the ascending order of the set U.
Rank(U, a) == Cardinality({b \in U : b < a})

\* The unleased allocatable addresses, the next to be handed out at the end.
buildFreeList(leases, asc) ==
  LET U == {a \in Allocatable : leases[a] = Nobody}
      n == Cardinality(U)
  IN  [i \in 1..n |-> CHOOSE a \in U : Rank(U, a) = IF asc THEN n - i ELSE i - 1]

NewPoolAllocator ==
  LET none == [a \in Addr |-> Nobody]
  IN  [leases |-> none, free |-> buildFreeList(none, TRUE), asc |-> TRUE]

SetDirection(p, asc) ==
  IF p.asc = asc THEN p
  ELSE [p EXCEPT !.asc = asc, !.free = buildFreeList(p.leases, asc)]

\* The next address, and the pool once session s has it.
CanAllocate(p) == p.free # <<>>
NextAddr(p) == p.free[Len(p.free)]
Allocate(p, s) ==
  [p EXCEPT !.leases[NextAddr(p)] = s, !.free = SubSeq(@, 1, Len(@) - 1)]

\* (mutant) an address that is not leased is put back as well
ReleaseUnchecked(p, a) ==
  [p EXCEPT !.leases[a] = Nobody, !.free = Append(@, a)]

\* Whoever holds it, a leased address goes back on the stack.
Release(p, a) ==
  IF Leased(p, a)
  THEN [p EXCEPT !.leases[a] = Nobody, !.free = Append(@, a)]
  ELSE p

\* The stack without the address a, which is on it at most once.
Without(free, a) ==
  IF \E i \in 1..Len(free) : free[i] = a
  THEN LET k == CHOOSE i \in 1..Len(free) : free[i] = a
       IN  [i \in 1..(Len(free) - 1) |-> IF i < k THEN free[i] ELSE free[i + 1]]
  ELSE free

\* Refused when another session holds the address; an excluded address is
\* accepted.
CanReserve(p, a, s) == p.leases[a] \in {Nobody, s}
Reserve(p, a, s) ==
  IF CanReserve(p, a, s)
  THEN [p EXCEPT !.leases[a] = s, !.free = IF Leased(p, a) THEN @ ELSE Without(@, a)]
  ELSE p

-----------------------------------------------------------------------------
\* Nothing is handed out twice and nothing is lost: no address is on the free
\* stack twice or while it is leased, and every allocatable address that is
\* not leased is on it.
Conserved(p) ==
  /\ \A i, j \in 1..Len(p.free) : p.free[i] = p.free[j] => i = j
  /\ \A i \in 1..Len(p.free) : ~ Leased(p, p.free[i])
  /\ \A a \in Allocatable : Leased(p, a) \/ \E i \in 1..Len(p.free) : p.free[i] = a
=============================================================================
