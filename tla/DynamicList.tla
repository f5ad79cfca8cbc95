---------------------------- MODULE DynamicList ----------------------------
(***************************************************************************)
(* What a Slice promises its callers: a list of values.                    *)
(***************************************************************************)
EXTENDS Naturals, Sequences, SequencesExt

CONSTANTS Items, Zero, MaxLen, Gone

VARIABLE list        \* the elements, or Gone before slice_init and after slice_deinit

Init == list = Gone

Create == list = Gone /\ list' = <<>>

Destroy == list # Gone /\ list' = Gone

Insert(i, v) == i \in 1 .. Len(list) + 1 /\ list' = InsertAt(list, i, v)

Erase(i) == i \in 1 .. Len(list) /\ list' = RemoveAt(list, i)

Set(i, v) == i \in 1 .. Len(list) /\ list' = ReplaceAt(list, i, v)

(* The list cut to n elements, or filled up with v.                        *)
Resize(n, v) == list' = [i \in 1 .. n |-> IF i <= Len(list) THEN list[i] ELSE v]

Next ==
    \/ Create
    \/ Destroy
    \/ /\ list # Gone
       /\ \/ \E i \in 1 .. Len(list) : Erase(i)
          \/ \E i \in 1 .. Len(list) + 1, v \in Items : Insert(i, v) \/ Set(i, v)
          \/ \E n \in 0 .. MaxLen, v \in Items \cup {Zero} : Resize(n, v)

Spec == Init /\ [][Next]_list
=============================================================================
