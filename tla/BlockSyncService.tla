-------------------------- MODULE BlockSyncService --------------------------
(***************************************************************************)
(* What a node answers to a request for blocks (core/src/                  *)
(* block_sync_service.rs, behind AuthorityService and ObserverService).    *)
(* Three callers use it: the live and the periodic requests of the         *)
(* synchronizer, and the commit syncer.                                    *)
(*                                                                         *)
(* A block is a number; the order of the numbers is the order of BlockRef, *)
(* that is by round, then author, then digest.  `held` is what the         *)
(* answering node has accepted, `after` is the argument fetch_after_rounds *)
(* of the caller (one round per authority).                                *)
(***************************************************************************)
EXTENDS Naturals, Sequences, FiniteSets

CONSTANTS
    Authorities,    \* a set of numbers, ordered as AuthorityIndex
    Blocks, Author, Round, Ancestors,
    MaxBlocksPerSync,   \* parameters.max_blocks_per_sync
    MaxBlocksPerFetch   \* parameters.max_blocks_per_fetch

ASSUME BlockSyncAssumption ==
    /\ Authorities \subseteq Nat /\ IsFiniteSet(Authorities)
    /\ Blocks \subseteq Nat /\ IsFiniteSet(Blocks)
    /\ Author \in [Blocks -> Authorities]
    /\ Round \in [Blocks -> Nat \ {0}]
    /\ Ancestors \in [Blocks -> SUBSET Blocks]
    /\ \A b, c \in Blocks : Round[b] < Round[c] => b < c
    /\ \A b \in Blocks : \A c \in Ancestors[b] : Round[c] < Round[b]
    /\ MaxBlocksPerSync \in Nat \ {0} /\ MaxBlocksPerFetch \in Nat \ {0}

Min(m, n) == IF m <= n THEN m ELSE n

Rounds == [Authorities -> Nat]

(* The first n of a set of blocks: into_iter().take(n) of a BTreeSet.      *)
FirstBlocks(S, n) == {b \in S : Cardinality({c \in S : c < b}) < n}

(* The number of blocks in an answer.                                      *)
ResponseLimit(refs) ==
    IF refs # {} THEN MaxBlocksPerSync ELSE MaxBlocksPerFetch

(* Blocks asked for by reference: the request is cut to the limit first,   *)
(* then read from DagState, which skips the ones it does not have.         *)
Requested(held, refs) == FirstBlocks(refs, ResponseLimit(refs)) \cap held

(* A live request (fetch_missing_ancestors): the rest of the answer is a   *)
(* random choice among the parents of the requested blocks that are above  *)
(* the rounds the caller has accepted.  One element per possible answer.   *)
LiveResponses(held, refs, after) ==
    LET blocks  == Requested(held, refs)
        parents == {c \in UNION {Ancestors[b] : b \in blocks} :
                        after[Author[c]] < Round[c]}
        room    == ResponseLimit(refs) - Cardinality(blocks)
        chosen  == {P \in SUBSET parents :
                        Cardinality(P) = Min(Cardinality(parents), room)}
    IN  {blocks \cup (P \cap held) : P \in chosen}

LowestRound(S) == CHOOSE r \in {Round[b] : b \in S} : \A b \in S : r <= Round[b]

(* get_last_block_for_authority: genesis, of round 0, when there is none.  *)
LastRound(held, a) ==
    LET rounds == {0} \cup {Round[b] : b \in {c \in held : Author[c] = a}}
    IN  CHOOSE r \in rounds : \A s \in rounds : s <= r

(* Up to where each author is scanned: below the lowest requested block of *)
(* the author, or below the last block held when nothing is requested.     *)
LimitRounds(held, refs) ==
    IF refs = {}
    THEN [a \in Authorities |-> LastRound(held, a)]
    ELSE LET cut == FirstBlocks(refs, ResponseLimit(refs))
         IN  [a \in {Author[b] : b \in cut} |->
                 LowestRound({b \in cut : Author[b] = a})]

(* The scan takes, for each author, the first block of every round from    *)
(* the start to below the limit ...                                        *)
Scannable(held, limits, after) ==
    {b \in held :
        /\ Author[b] \in DOMAIN limits
        /\ after[Author[b]] < Round[b] /\ Round[b] < limits[Author[b]]
        /\ \A c \in held : Author[c] = Author[b] /\ Round[c] = Round[b] => b <= c}

(* ... and merges the authors with a min-heap, whose key for a block is    *)
(* not the round of the block but the round its author is scanned from:    *)
(* the round after the author's block before it.                           *)
ScanStart(S, after, b) ==
    LET rounds == {after[Author[b]]}
                  \cup {Round[c] : c \in {d \in S : Author[d] = Author[b] /\ d < b}}
    IN  (CHOOSE r \in rounds : \A s \in rounds : s <= r) + 1

PoppedBefore(S, after, b, c) ==
    \/ ScanStart(S, after, b) < ScanStart(S, after, c)
    \/ ScanStart(S, after, b) = ScanStart(S, after, c) /\ Author[b] < Author[c]

(* The additional blocks, in the order of the scan, until the answer is    *)
(* full.                                                                   *)
Scanned(held, limits, after, room) ==
    LET S == Scannable(held, limits, after)
        Rank(b) == Cardinality({c \in S : PoppedBefore(S, after, c, b)})
    IN  [i \in 1..Min(room, Cardinality(S)) |-> CHOOSE b \in S : Rank(b) = i - 1]

Elements(s) == {s[i] : i \in DOMAIN s}

(* A periodic request: the requested blocks, then the scanned ones.        *)
PeriodicScan(held, refs, after) ==
    Scanned(held, LimitRounds(held, refs), after,
            ResponseLimit(refs) - Cardinality(Requested(held, refs)))

PeriodicResponse(held, refs, after) ==
    Requested(held, refs) \cup Elements(PeriodicScan(held, refs, after))

=============================================================================
