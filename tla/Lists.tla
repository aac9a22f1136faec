------------------------------- MODULE Lists --------------------------------
(* What loops that collect come to: lists one after the other, and a set of  *)
(* numbers in order, which is what a filter over positions, a sort of them   *)
(* or a renumbering that keeps their order gives; and the search of them.    *)
EXTENDS Naturals, Sequences, FiniteSets

\* The place of n among the numbers.
Dense(numbers, n) == Cardinality({m \in numbers : m <= n})

InOrder(numbers) ==
    [k \in 1..Cardinality(numbers) |-> CHOOSE n \in numbers : Dense(numbers, n) = k]

\* One after the other.
Joined(lists) ==
    LET upto[n \in 0..Len(lists)] == IF n = 0 THEN <<>> ELSE upto[n - 1] \o lists[n]
    IN upto[Len(lists)]

\* What comes of n steps from nothing.
Steps(longer, n) ==
    LET path[k \in 0..n] == IF k = 0 THEN <<>> ELSE longer[path[k - 1]]
    IN path[n]

(* Binary search of ascending keys: the position of k, or the one to insert  *)
(* it at.  The table, the entries and the side map all search like this.     *)
Bisect(keys, k) ==
    LET left[range \in (1..(Len(keys) + 1)) \X (1..(Len(keys) + 1))] ==
            LET l == range[1]
                r == range[2]
                mid == l + (r - l) \div 2
            IN IF l >= r THEN l
               ELSE IF keys[mid] < k THEN left[<<mid + 1, r>>]
               ELSE IF keys[mid] > k THEN left[<<l, mid>>]
               ELSE mid
    IN left[<<1, Len(keys) + 1>>]

Hit(keys, k) == LET i == Bisect(keys, k) IN i <= Len(keys) /\ keys[i] = k
=============================================================================
