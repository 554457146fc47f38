----------------------------- MODULE NodeLists ------------------------------
(* list and forward_list, whose elements are nodes on the heap, each with a  *)
(* heap of its own.                                                          *)
EXTENDS Integers, SequencesExt

CONSTANTS Lists,
          ListValues,   \* of the elements
          Addresses,    \* what new may return
          Null          \* the null pointer

VARIABLES lst, node,    \* list
          fwd, cell     \* forward_list

DL == INSTANCE LinkedList WITH Values <- ListValues, Nil <- Null
FL == INSTANCE ForwardList WITH Values <- ListValues, Nil <- Null

ASSUME ListsAssumption == DL!ListAssumption /\ FL!ForwardAssumption
-----------------------------------------------------------------------------
(* list and forward_list: every node is owned once and linked as its kind is.*)
OwnedOnce == DL!LinksMirrored /\ DL!NodesOwnedOnce /\ FL!NodesOwnedOnce

(* list and forward_list: sequences whose elements keep their identity, each *)
(* call doing to its own what its name says.                                 *)
ListsBehave == DL!BehavesLikeList /\ DL!CallsMatch /\ FL!BehavesLikeList
=============================================================================
