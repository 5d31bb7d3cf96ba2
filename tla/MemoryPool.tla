----------------------------- MODULE MemoryPool -----------------------------
(***************************************************************************)
(* The fixed-size memory pool of pool/pool.c: an arena handed out block by  *)
(* block, and a list of freed blocks whose links are stored in the blocks.  *)
(* The user may overwrite a block it holds, and with it the link.           *)
(*                                                                         *)
(* Blocks are numbered by their place in the arena; the count is a size_t   *)
(* and runs modulo CountWidth, and so does the number of reuses it is       *)
(* compared with.  The user frees what it holds, once.                      *)
(***************************************************************************)
EXTENDS Naturals, FiniteSets, SequencesExt

CONSTANTS TotalBlocks, CountWidth, NoBlock

ASSUME PoolAssumption ==
    TotalBlocks \in Nat \ {0} /\ CountWidth \in Nat /\ CountWidth > TotalBlocks /\ NoBlock \notin Nat

Blocks == 0 .. TotalBlocks - 1
Address == Blocks \cup {NoBlock}

VARIABLES
    link,            \* the first word of every block: next, or the user's data
    free_list_head,  \* free_list_head
    linear_used,     \* blocks between pool_start and next_free
    used_count,      \* used_count
    held,            \* the blocks the user holds
    reused           \* ghost: how often pool_alloc took a block off the free list

poolVars == <<link, free_list_head, linear_used, used_count, held, reused>>

PoolTypeOK ==
    /\ link \in [Blocks -> Address]
    /\ free_list_head \in Address
    /\ linear_used \in 0 .. TotalBlocks
    /\ used_count \in 0 .. CountWidth - 1
    /\ held \subseteq Blocks
    /\ reused \in 0 .. CountWidth - 1

(* pool_init; malloc leaves anything in the blocks.                         *)
PoolInit ==
    /\ link \in [Blocks -> Address]
    /\ free_list_head = NoBlock
    /\ linear_used = 0 /\ used_count = 0
    /\ held = {} /\ reused = 0

(* A freed block is reused first; the count is not touched.                 *)
AllocFromList ==
    /\ free_list_head # NoBlock
    /\ held' = held \cup {free_list_head}
    /\ free_list_head' = link[free_list_head]
    /\ reused' = (reused + 1) % CountWidth
    /\ UNCHANGED <<link, linear_used, used_count>>

AllocFromArena ==
    /\ free_list_head = NoBlock /\ linear_used < TotalBlocks
    /\ held' = held \cup {linear_used}
    /\ linear_used' = linear_used + 1
    /\ used_count' = (used_count + 1) % CountWidth
    /\ UNCHANGED <<link, free_list_head, reused>>

(* The user writes into a block it holds.                                  *)
Scribble ==
    /\ \E b \in held, a \in Address : link' = [link EXCEPT ![b] = a]
    /\ UNCHANGED <<free_list_head, linear_used, used_count, held, reused>>

(* Mutant: the head is set before the link is taken from it.                *)
LinkedToItself(b) == [link EXCEPT ![b] = b]

LinkedToHead(b) == [link EXCEPT ![b] = free_list_head]

CountDown == (used_count + CountWidth - 1) % CountWidth

pool_free ==
    \E b \in held :
       /\ link' = LinkedToHead(b)
       /\ free_list_head' = b
       /\ used_count' = CountDown
       /\ held' = held \ {b}
       /\ UNCHANGED <<linear_used, reused>>

PoolNext == AllocFromList \/ AllocFromArena \/ Scribble \/ pool_free

PoolSpec == PoolInit /\ [][PoolNext]_poolVars

-----------------------------------------------------------------------------
(* s is what the free list links.                                          *)
FreeList(s) ==
    /\ free_list_head = IF s = <<>> THEN NoBlock ELSE s[1]
    /\ \A i \in 1 .. Len(s) : link[s[i]] = IF i = Len(s) THEN NoBlock ELSE s[i + 1]

(* Every block that ever left the arena is held by the user or on the free  *)
(* list, never both, twice or neither, whatever the user writes into the    *)
(* blocks it holds and in whichever order it frees them.  used_count is the *)
(* number it holds less the reuses so far, which pool_free counts down and  *)
(* pool_alloc never counted up: after the first it is too low for good, and *)
(* it has wrapped whenever there were more reuses than blocks are held.     *)
BlocksConserved ==
    /\ \E s \in SetToSeqs((0 .. linear_used - 1) \ held) : FreeList(s)
    /\ used_count = (Cardinality(held) + CountWidth - reused) % CountWidth
=============================================================================
