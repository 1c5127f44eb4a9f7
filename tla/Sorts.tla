------------------------------- MODULE Sorts --------------------------------
(***************************************************************************)
(* The sorting functions of lab8/lab9/insert_sort.cpp.  An array of len    *)
(* elements is a function on 0 .. len-1; what a function leaves in arr is  *)
(* the value of the operator.                                              *)
(***************************************************************************)
EXTENDS Integers, Sequences, FiniteSets, FiniteSetsExt, SequencesExt

Len0(arr) == Cardinality(DOMAIN arr)
Swap(arr, i, j) == [arr EXCEPT ![i] = arr[j], ![j] = arr[i]]
Upto(n) == [i \in 1 .. n |-> i - 1]                  \* for (i = 0; i < n; i++)

-----------------------------------------------------------------------------

(* arr[i] goes down, by steps of d, behind the last element not above it.  *)
Inserted(arr, d, i) ==
    LET j == Max({x \in 0 .. i - 1 : (i - x) % d = 0 /\ arr[x] <= arr[i]} \cup {(i % d) - d})
    IN  [x \in DOMAIN arr |-> CASE x = j + d -> arr[i]
                                [] x > j + d /\ x <= i /\ (i - x) % d = 0 -> arr[x - d]
                                [] OTHER -> arr[x]]

per_insert_sort(arr, d) ==
    LET column(a, k) == FoldLeft(LAMBDA b, i : IF i >= k + d /\ (i - k) % d = 0
                                               THEN Inserted(b, d, i) ELSE b,
                                 a, Upto(Len0(arr)))
    IN  FoldLeft(column, arr, Upto(d))

insert_sort(arr) == per_insert_sort(arr, 1)

RECURSIVE Shell(_, _)
Shell(arr, d) == IF d = 0 THEN arr ELSE Shell(per_insert_sort(arr, d), d \div 2)
shell_insert(arr) == Shell(arr, Len0(arr) \div 2)

choose_sort(arr) ==
    LET least(a, i) == CHOOSE k \in i .. Len0(a) - 1 : \A j \in i .. Len0(a) - 1 :
                         a[k] < a[j] \/ (a[k] = a[j] /\ k <= j)
    IN  FoldLeft(LAMBDA a, i : Swap(a, least(a, i), i), arr, Upto(Len0(arr)))

-----------------------------------------------------------------------------
(* The child above p, the right one only if it is above the left one.      *)
three_max(arr, p, len) ==
    LET lc == 2 * p + 1
        rc == 2 * p + 2
        child == IF rc < len /\ arr[lc] < arr[rc] THEN rc ELSE lc
    IN  IF lc < len /\ arr[child] > arr[p] THEN child ELSE p

(* One exchange for each element: what goes down goes down one level.      *)
creat_heap(arr) ==
    FoldLeft(LAMBDA a, i : Swap(a, three_max(a, i, Len0(a)), i), arr, Reverse(Upto(Len0(arr))))

RECURSIVE Sift(_, _, _)
Sift(arr, i, len) ==
    LET p == three_max(arr, i, len) IN IF p = i THEN arr ELSE Sift(Swap(arr, i, p), p, len)
change_heap(arr, len) == Sift(arr, 0, len)

heap_sort(arr) ==
    FoldLeft(LAMBDA a, l : IF l = 0 THEN a ELSE change_heap(Swap(a, 0, l), l),
             creat_heap(arr), Reverse(Upto(Len0(arr))))

-----------------------------------------------------------------------------
(* An element of the second part goes first only when it is smaller.       *)
RECURSIVE Merged(_, _)
Merged(s, t) == IF s = <<>> THEN t ELSE IF t = <<>> THEN s
                ELSE IF Head(s) > Head(t) THEN <<Head(t)>> \o Merged(s, Tail(t))
                                          ELSE <<Head(s)>> \o Merged(Tail(s), t)
merge(arr, lo, mid, hi) ==
    LET part(i, j) == [n \in 1 .. j - i |-> arr[i + n - 1]]
        m == Merged(part(lo, mid), part(mid, hi))
    IN  [x \in DOMAIN arr |-> IF x \in lo .. hi - 1 THEN m[x - lo + 1] ELSE arr[x]]

RECURSIVE merge_sort(_, _, _)
merge_sort(arr, lo, hi) ==
    LET mid == (lo + hi) \div 2
    IN  IF hi - lo <= 1 THEN arr
        ELSE merge(merge_sort(merge_sort(arr, lo, mid), mid, hi), lo, mid, hi)

(* The gap is at lo while `down`, at hi otherwise: elements move across.   *)
RECURSIVE Across(_, _, _, _, _)
Across(arr, lo, hi, pivot, down) ==
    CASE lo >= hi -> [arr |-> [arr EXCEPT ![lo] = pivot], at |-> lo]
      [] lo < hi /\ down /\ arr[hi] > pivot -> Across(arr, lo, hi - 1, pivot, TRUE)
      [] lo < hi /\ down /\ arr[hi] <= pivot ->
           Across([arr EXCEPT ![lo] = arr[hi]], lo + 1, hi, pivot, FALSE)
      [] lo < hi /\ ~down /\ arr[lo] < pivot -> Across(arr, lo + 1, hi, pivot, FALSE)
      [] lo < hi /\ ~down /\ arr[lo] >= pivot ->
           Across([arr EXCEPT ![hi] = arr[lo]], lo, hi - 1, pivot, TRUE)
partition(arr, lo, hi) == Across(arr, lo, hi, arr[lo], TRUE)

RECURSIVE quick_sort(_, _, _)
quick_sort(arr, lo, hi) ==
    LET p == partition(arr, lo, hi - 1)
    IN  IF hi - lo <= 1 THEN arr ELSE quick_sort(quick_sort(p.arr, lo, p.at), p.at + 1, hi)

-----------------------------------------------------------------------------
Arrays(n, values) == UNION {[0 .. len - 1 -> values] : len \in 1 .. n}
Sorted(arr) == \A i \in DOMAIN arr \ {0} : arr[i - 1] <= arr[i]
Same(arr, old) == \A v \in {old[i] : i \in DOMAIN old} :
    Cardinality({i \in DOMAIN arr : arr[i] = v}) = Cardinality({i \in DOMAIN old : old[i] = v})

(* Each function leaves the elements it was given, in order.               *)
ASSUME SortsSort ==
    \A arr \in Arrays(5, 0 .. 2) :
      \A out \in {insert_sort(arr), shell_insert(arr), choose_sort(arr),
                  merge_sort(arr, 0, Len0(arr)), quick_sort(arr, 0, Len0(arr))} :
        Sorted(out) /\ Same(out, arr)

(* heap_sort does so up to four elements; creat_heap makes no heap of      *)
(* 0, 1, 2, 3, 4, which then comes out as 0, 1, 3, 2, 4.                   *)
ASSUME HeapSortUpToFour ==
    /\ \A arr \in Arrays(4, 0 .. 3) : Sorted(heap_sort(arr)) /\ Same(heap_sort(arr), arr)
    /\ ~Sorted(heap_sort([i \in 0 .. 4 |-> i]))
=============================================================================
