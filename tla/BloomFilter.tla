---------------------------- MODULE BloomFilter ----------------------------
(***************************************************************************)
(* bloomFilter/main.go.  An item is hashed NHash times; hash i is the sum  *)
(* of its bytes plus i, so its bits are NHash consecutive cells (modulo    *)
(* the size) and items with equal sums share all of them.                  *)
(***************************************************************************)
EXTENDS Naturals

CONSTANTS
    Item,
    ByteSum,    \* ByteSum[x]: the sum of the bytes of x
    BloomSize,  \* size (100 in the code)
    NHash       \* nHashFunction (3 in the code)

ASSUME BloomAssumption ==
    /\ ByteSum \in [Item -> Nat]
    /\ BloomSize \in Nat \ {0} /\ NHash \in Nat

VARIABLES
    bitArray,
    added      \* history: the items given to add

bloomVars == <<bitArray, added>>

Cell == 0 .. BloomSize - 1

BloomTypeOK == bitArray \in [Cell -> BOOLEAN] /\ added \subseteq Item

\* newBloomFilter
BloomInit ==
    /\ bitArray = [k \in Cell |-> FALSE]
    /\ added = {}

\* hash(item, i) % bf.size
Index(x, i) == (ByteSum[x] + i) % BloomSize

Cells(x) == {Index(x, i) : i \in 0 .. NHash - 1}

\* Mutant: add hashes from 1, contains from 0.
Add_Mut(x) ==
    /\ bitArray' = [k \in Cell |-> bitArray[k] \/ k \in {Index(x, i) : i \in 1 .. NHash}]
    /\ added' = added \cup {x}

Add(x) ==
    /\ bitArray' = [k \in Cell |-> bitArray[k] \/ k \in Cells(x)]
    /\ added' = added \cup {x}

Contains(x) == \A k \in Cells(x) : bitArray[k]

BloomNext == \E x \in Item : Add(x)

BloomSpec == BloomInit /\ [][BloomNext]_bloomVars

-----------------------------------------------------------------------------
\* "False Negative - case not possible in BF" (line 58), and an item that
\* was not added is found only if items that were have set all its cells.
ContainsExactly ==
    \A x \in Item :
        /\ x \in added => Contains(x)
        /\ Contains(x) => Cells(x) \subseteq UNION {Cells(y) : y \in added}
=============================================================================
