----------------------------- MODULE DequeSpec ------------------------------
(* What a deque promises its callers: a sequence that grows and shrinks at   *)
(* both ends.                                                                *)
EXTENDS Integers, Sequences

CONSTANT Values

VARIABLE content

TypeOK == content \in Seq(Values)

Init == content = <<>>

PushBack(v) == content' = Append(content, v)
PushFront(v) == content' = <<v>> \o content
PopFront == content # <<>> /\ content' = Tail(content)
PopBack == content # <<>> /\ content' = SubSeq(content, 1, Len(content) - 1)
Clear == content' = <<>>

Next == \/ \E v \in Values : PushBack(v) \/ PushFront(v)
        \/ PopFront \/ PopBack \/ Clear

Spec == Init /\ [][Next]_content
=============================================================================
