------------------------------ MODULE FoldRule ------------------------------
(***************************************************************************)
(* What every step of a fold preserves holds of its result.  The loops of  *)
(* the code over queues, partitions and free lists are folds in the model; *)
(* a proof instantiates this module with the body of a loop and with its   *)
(* invariant.                                                              *)
(***************************************************************************)
EXTENDS Naturals, FiniteSetTheorems, WellFoundedInduction, TLAPS

CONSTANTS
    Body(_, _, _),  \* Body(ctx, i, acc): the accumulator after item i
    Pick(_),        \* the item of a set of items that is folded last
    Good(_, _, _)   \* Good(ctx, s, acc): acc may be what the items s lead to

(* MapThenFoldSet of the module Folds.                                     *)
Folded(ctx, base, items) ==
    LET iter[s \in SUBSET items] ==
            IF s = {} THEN base ELSE Body(ctx, Pick(s), iter[s \ {Pick(s)}])
    IN  iter[items]

IsFold(f, ctx, base, items) ==
    f = [s \in SUBSET items |->
            IF s = {} THEN base ELSE Body(ctx, Pick(s), f[s \ {Pick(s)}])]

-----------------------------------------------------------------------------
(* Induction, for a set of numbers.                                        *)
LEMMA AllNumbers ==
    ASSUME NEW Q, 0 \in Q, \A n \in Nat : n \in Q => n + 1 \in Q
    PROVE  \A n \in Nat : n \in Q
<1> DEFINE I == Nat \ Q
<1> SUFFICES ASSUME I # {} PROVE FALSE
    OBVIOUS
<1>1. I \subseteq Nat
    OBVIOUS
<1>2. PICK x \in I : \A y \in I : ~(<<y, x>> \in OpToRel(<, Nat))
    <2> HIDE DEF I
    <2> QED
        BY <1>1, NatLessThanWellFounded, WFMin
<1>3. x \in Nat /\ x # 0
    OBVIOUS
<1>4. x - 1 \in Nat /\ x - 1 < x
    BY <1>3
<1>5. x - 1 \notin I
    BY <1>1, <1>2, <1>3, <1>4 DEF OpToRel
<1>6. (x - 1) + 1 \in Q
    BY <1>4, <1>5
<1> QED
    BY <1>3, <1>6

(* A set of items without one of them.                                     *)
LEMMA Smaller ==
    ASSUME NEW items, IsFiniteSet(items), NEW s \in SUBSET items
    PROVE  /\ Cardinality(s) \in Nat
           /\ Cardinality(s) = 0 <=> s = {}
           /\ Cardinality(s) <= Cardinality(items)
           /\ \A x \in s : /\ s \ {x} \in SUBSET items
                           /\ Cardinality(s \ {x}) = Cardinality(s) - 1
BY FS_Subset, FS_EmptySet, FS_CardinalityType, FS_RemoveElement

(* The recursive function behind a fold exists.                            *)
LEMMA Recursion ==
    ASSUME NEW ctx, NEW base, NEW items, IsFiniteSet(items),
           \A s \in SUBSET items : s # {} => Pick(s) \in s
    PROVE  \E f : IsFold(f, ctx, base, items)
<1> DEFINE Value(iter, s) == IF s = {} THEN base ELSE Body(ctx, Pick(s), iter[s \ {Pick(s)}])
           Upto(iter, n) == \A s \in SUBSET items : Cardinality(s) <= n => iter[s] = Value(iter, s)
           Q == {n \in Nat : \E iter : Upto(iter, n)}
<1>1. 0 \in Q
    <2> DEFINE first == [s \in SUBSET items |-> base]
    <2>1. ASSUME NEW s \in SUBSET items, Cardinality(s) <= 0
          PROVE  first[s] = Value(first, s)
        <3>1. s = {}
            BY <2>1, Smaller
        <3> QED
            BY <3>1
    <2>2. Upto(first, 0)
        BY <2>1
    <2> QED
        BY <2>2
<1>2. ASSUME NEW n \in Nat, n \in Q PROVE n + 1 \in Q
    <2>1. PICK it : Upto(it, n)
        BY <1>2
    <2> DEFINE next == [s \in SUBSET items |->
                           IF Cardinality(s) <= n THEN it[s] ELSE Value(it, s)]
    <2>2. ASSUME NEW s \in SUBSET items, Cardinality(s) <= n + 1
          PROVE  next[s] = Value(next, s)
        <3>1. next[s] = Value(it, s)
            BY <2>1
        <3>2. CASE s = {}
            BY <3>1, <3>2
        <3>3. CASE s # {}
            <4> DEFINE t == s \ {Pick(s)}
            <4>1. /\ Pick(s) \in s /\ t \in SUBSET items
                  /\ Cardinality(s) \in Nat /\ Cardinality(t) = Cardinality(s) - 1
                BY <3>3, Smaller
            <4>2. Cardinality(t) <= n
                BY <2>2, <4>1
            <4>3. next[t] = it[t]
                BY <4>1, <4>2
            <4> QED
                BY <3>1, <3>3, <4>3
        <3> QED
            BY <3>2, <3>3
    <2>3. Upto(next, n + 1)
        BY <2>2
    <2> HIDE DEF next, Upto
    <2> QED
        BY <2>3
<1>3. Cardinality(items) \in Q
    <2>1. Cardinality(items) \in Nat
        BY FS_CardinalityType
    <2> HIDE DEF Q
    <2> QED
        BY <1>1, <1>2, <2>1, AllNumbers
<1>4. PICK it : Upto(it, Cardinality(items))
    BY <1>3
<1> DEFINE iter == [s \in SUBSET items |-> it[s]]
<1>5. ASSUME NEW s \in SUBSET items PROVE iter[s] = Value(iter, s)
    <2>1. it[s] = Value(it, s)
        BY <1>4, Smaller
    <2>2. s # {} => iter[s \ {Pick(s)}] = it[s \ {Pick(s)}]
        OBVIOUS
    <2> QED
        BY <2>1, <2>2
<1>6. IsFold(iter, ctx, base, items)
    BY <1>5 DEF IsFold
<1> QED
    BY <1>6

(* What the body of a loop preserves holds after the loop.                 *)
LEMMA KeptByFold ==
    ASSUME NEW ctx, NEW base, NEW items, IsFiniteSet(items),
           \A s \in SUBSET items : s # {} => Pick(s) \in s,
           Good(ctx, {}, base),
           \A s \in SUBSET items : s # {} => \A acc :
               Good(ctx, s \ {Pick(s)}, acc) => Good(ctx, s, Body(ctx, Pick(s), acc))
    PROVE  Good(ctx, items, Folded(ctx, base, items))
<1> DEFINE iter == CHOOSE f : IsFold(f, ctx, base, items)
           Q == {n \in Nat : \A s \in SUBSET items : Cardinality(s) = n => Good(ctx, s, iter[s])}
<1>1. IsFold(iter, ctx, base, items)
    BY Recursion
<1>2. Folded(ctx, base, items) = iter[items]
    BY DEF Folded, IsFold
<1> HIDE DEF iter
<1>3. \A s \in SUBSET items :
          iter[s] = IF s = {} THEN base ELSE Body(ctx, Pick(s), iter[s \ {Pick(s)}])
    BY <1>1 DEF IsFold
<1>4. 0 \in Q
    <2>1. ASSUME NEW s \in SUBSET items, Cardinality(s) = 0 PROVE Good(ctx, s, iter[s])
        <3>1. s = {}
            BY <2>1, Smaller
        <3>2. iter[s] = base
            BY <1>3, <3>1
        <3> QED
            BY <3>1, <3>2
    <2> QED
        BY <2>1
<1>5. ASSUME NEW n \in Nat, n \in Q PROVE n + 1 \in Q
    <2>1. ASSUME NEW s \in SUBSET items, Cardinality(s) = n + 1 PROVE Good(ctx, s, iter[s])
        <3>1. s # {}
            BY <2>1, Smaller
        <3>2. /\ Pick(s) \in s /\ s \ {Pick(s)} \in SUBSET items
              /\ Cardinality(s \ {Pick(s)}) = n
            BY <2>1, <3>1, Smaller
        <3>3. Good(ctx, s \ {Pick(s)}, iter[s \ {Pick(s)}])
            BY <1>5, <3>2
        <3>4. Good(ctx, s, Body(ctx, Pick(s), iter[s \ {Pick(s)}]))
            BY <3>1, <3>3
        <3>5. iter[s] = Body(ctx, Pick(s), iter[s \ {Pick(s)}])
            BY <1>3, <3>1
        <3> QED
            BY <3>4, <3>5
    <2> QED
        BY <2>1
<1>6. Cardinality(items) \in Q
    <2>1. Cardinality(items) \in Nat
        BY FS_CardinalityType
    <2> HIDE DEF Q
    <2> QED
        BY <1>4, <1>5, <2>1, AllNumbers
<1> QED
    BY <1>2, <1>6

(* The same for a loop over the positions 1 .. len of a sequence.          *)
THEOREM FoldKeeps ==
    ASSUME NEW ctx, NEW base, NEW items, NEW len \in Nat, items = 1 .. len,
           \A s \in SUBSET items : s # {} => Pick(s) \in s,
           Good(ctx, {}, base),
           \A s \in SUBSET items : s # {} => \A acc :
               Good(ctx, s \ {Pick(s)}, acc) => Good(ctx, s, Body(ctx, Pick(s), acc))
    PROVE  Good(ctx, items, Folded(ctx, base, items))
<1>1. IsFiniteSet(items)
    BY FS_Interval
<1> QED
    BY <1>1, KeptByFold
=============================================================================
