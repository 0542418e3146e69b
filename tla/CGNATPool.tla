------------------------------ MODULE CGNATPool ------------------------------
(***************************************************************************)
(* The in-memory tables of the CGNAT component: the PoolManager            *)
(* (internal/cgnat/pool.go), which hands out port blocks, and the          *)
(* ReverseIndex (mapping.go), which names the subscriber behind a block.   *)
(* Each operation runs under the table's own lock and is one operator.     *)
(*                                                                         *)
(* A block stands for an outside address and a port range; the numbers     *)
(* follow the order in which the allocator visits addresses and bits.      *)
(***************************************************************************)
EXTENDS Naturals, Sequences, SequencesExt

CONSTANTS
    IPs,       \* inside addresses of subscribers
    Blocks,    \* the port blocks of the pool, numbered in search order
    Excluded,  \* the blocks on excluded outside addresses
    NoBlock

ASSUME BlocksAssumption ==
    /\ Blocks \subseteq Nat
    /\ Excluded \subseteq Blocks
    /\ NoBlock \notin Blocks

-----------------------------------------------------------------------------

\* AllocatedBits of the outside addresses, and the Subscribers table.
PoolState == [bits: SUBSET Blocks, subs: [IPs -> Seq(Blocks)]]

ConfigurePool == [bits |-> {}, subs |-> [i \in IPs |-> <<>>]]

freeBlocks(p) == Blocks \ (Excluded \cup p.bits)

allocateBlock(p) == CHOOSE b \in freeBlocks(p) : \A c \in freeBlocks(p) : b <= c

\* A subscriber that already has a block gets its first one again.
GetOrAllocate(p, ip) ==
    IF p.subs[ip] # <<>>
    THEN [pool |-> p, block |-> Head(p.subs[ip]), isNew |-> FALSE]
    ELSE IF freeBlocks(p) = {}
    THEN [pool |-> p, block |-> NoBlock, isNew |-> FALSE]
    ELSE LET b == allocateBlock(p)
         IN  [pool  |-> [bits |-> p.bits \cup {b}, subs |-> [p.subs EXCEPT ![ip] = <<b>>]],
              block |-> b, isNew |-> TRUE]

GetMappings(p, ip) == ToSet(p.subs[ip])

ReleaseBlocks(p, ip) ==
    [bits |-> p.bits \ ToSet(p.subs[ip]), subs |-> [p.subs EXCEPT ![ip] = <<>>]]

\* Mutant: the block is not marked.
RestoreMappingUnmarked(p, ip, b) ==
    IF b \in ToSet(p.subs[ip]) THEN p ELSE [p EXCEPT !.subs[ip] = Append(@, b)]

\* Marks the block and appends it, whoever else may have it.
RestoreMappingIfAbsent(p, ip, b) ==
    IF b \in ToSet(p.subs[ip]) THEN p
    ELSE [bits |-> p.bits \cup {b}, subs |-> [p.subs EXCEPT ![ip] = Append(@, b)]]

-----------------------------------------------------------------------------

\* Of each block, the mappings that byIP lists in the order they were added,
\* and whether byBlock points to one: always to the one added last.
NoReverse == [b \in Blocks |-> [keyed |-> FALSE, list |-> <<>>]]

reverseAdd(r, b, s) == [r EXCEPT ![b] = [keyed |-> TRUE, list |-> Append(@.list, s)]]

\* Mutant: the entry of byIP stays.
reverseRemoveKeyOnly(r, b) == [r EXCEPT ![b].keyed = FALSE]

reverseRemove(r, b) ==
    IF r[b].keyed THEN [r EXCEPT ![b] = [keyed |-> FALSE, list |-> Front(@.list)]] ELSE r

\* The first listed mapping whose port range contains the port.
Lookup(r, b) == {Head(l) : l \in {r[b].list} \ {<<>>}}
=============================================================================
