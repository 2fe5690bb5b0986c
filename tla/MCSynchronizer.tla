--------------------------- MODULE MCSynchronizer ---------------------------
(* Two peers of node 0, of which only the last must answer.  Numbers of    *)
(* blocks are round * 10 + author; blocks of other authorities, which the  *)
(* node has, are left out.                                                 *)
EXTENDS Synchronizer

AuthorOf(S) == [b \in S |-> b % 10]
RoundOf(S) == [b \in S |-> b \div 10]
ParentsOf(S) == [b \in S |-> {c \in S : c \div 10 = (b \div 10) - 1}]

MCAuthorities == 0..2
MCSentBlocks == {21}
MCExcluded == [b \in MCSentBlocks |-> {}]

(* Authorities 1 and 2 propose in every round: no missing block is the     *)
(* last one of its author.                                                 *)
MCBlocks == {11, 12, 21, 22}
MCAuthor == AuthorOf(MCBlocks)
MCRound == RoundOf(MCBlocks)
MCAncestors == ParentsOf(MCBlocks)

=============================================================================
