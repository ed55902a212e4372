------------------------------- MODULE Lists -------------------------------
(***************************************************************************)
(* What a client of dynarr.c and dynstring.c sees: lists that are created, *)
(* grow at the end, change in one place, or lose what is before or behind; *)
(* an operation on one list leaves the others alone.                       *)
(***************************************************************************)
EXTENDS Sequences, Integers

CONSTANTS
  Names, Items,
  Texts, Blanks,      \* lists given from outside; the items that separate words
  None                \* the list does not exist yet

VARIABLE lists

Init == lists = [n \in Names |-> None]

\* A list without its k-th element.
Without(s, k) == SubSeq(s, 1, k - 1) \o SubSeq(s, k + 1, Len(s))

\* The list between the blanks at its ends.
Trimmed(s, new) ==
  \E i, j \in 0 .. Len(s) :
    /\ i + j <= Len(s)
    /\ new = SubSeq(s, i + 1, Len(s) - j)
    /\ \A k \in 1 .. Len(s) : k <= i \/ k > Len(s) - j => s[k] \in Blanks
    /\ new # << >> => new[1] \notin Blanks /\ new[Len(new)] \notin Blanks

Created(old, new) ==
  /\ old = None
  /\ \/ new = << >>
     \/ \E t \in Texts : \E k \in 1 .. Len(t) : new = SubSeq(t, 1, k)
     \/ \E n \in Names : lists[n] # None /\ new = lists[n]
Added(old, new)   == \E x \in Items : new = Append(old, x)
Extended(old, new) == \E t \in Texts : new = old \o t
Removed(old, new) == \E k \in 1 .. Len(old) : new = Without(old, k)
Changed(old, new) == \E k \in 1 .. Len(old), x \in Items : new = [old EXCEPT ![k] = x]
Cut(old, new) ==
  \E k \in 0 .. Len(old) : new = SubSeq(old, k + 1, Len(old)) \/ new = SubSeq(old, 1, k)

OneChanges ==
  \E n \in Names :
    /\ \A m \in Names \ {n} : lists'[m] = lists[m]
    /\ \/ Created(lists[n], lists'[n])
       \/ /\ lists[n] # None
          /\ \/ Added(lists[n], lists'[n]) \/ Extended(lists[n], lists'[n])
             \/ Removed(lists[n], lists'[n]) \/ Changed(lists[n], lists'[n])
             \/ Cut(lists[n], lists'[n]) \/ Trimmed(lists[n], lists'[n])

\* A list is split at its first blank, which is gone, into itself and a new one.
Split ==
  \E n, m \in Names :
    /\ lists[n] # None /\ lists[m] = None
    /\ \A k \in Names \ {n, m} : lists'[k] = lists[k]
    /\ \E i \in 1 .. Len(lists[n]) :
         /\ lists[n][i] \in Blanks /\ \A j \in 1 .. i - 1 : lists[n][j] \notin Blanks
         /\ lists'[n] = SubSeq(lists[n], 1, i - 1)
         /\ lists'[m] = SubSeq(lists[n], i + 1, Len(lists[n]))

Next == OneChanges \/ Split

\* No part of Next: what an empty list n has to split off is in no list, so
\* nothing is said of the list m that is made of it.
SplitOfEmpty(n, m) ==
  /\ lists[n] = << >> /\ lists[m] = None
  /\ \A k \in Names \ {m} : lists'[k] = lists[k]
  /\ lists'[m] \in Seq(Items \cup Blanks)

Spec == Init /\ [][Next]_lists
=============================================================================
