------------------------------- MODULE Bitset -------------------------------
(* bitset: N bits in words of a fixed width; the last word may have bits     *)
(* beyond the N-th, which whole-word operations clear again.                 *)
EXTENDS Integers, FiniteSetsExt

CONSTANTS Sets,           \* the bitset objects
          N,              \* how many bits each holds
          BitsPerWord     \* 64 in the source

(* For N = 0 the code keeps one word that it never trims: set() and flip()   *)
(* then leave ones in it, which count() and any() see.                       *)
ASSUME BitsetAssumption == N \in Nat \ {0} /\ BitsPerWord \in Nat \ {0}

VARIABLE words      \* of each bitset, its words, each as the set of its ones

WordCount == (N + BitsPerWord - 1) \div BitsPerWord
Words == 0..(WordCount - 1)
Positions == 0..(BitsPerWord - 1)
AllOnes == Positions

TailMask == IF N % BitsPerWord = 0 THEN AllOnes ELSE 0..((N % BitsPerWord) - 1)

Zero == [w \in Words |-> {}]
BitsetInit == words = [s \in Sets |-> Zero]

(* clear_tail *)
Trimmed(ws) == [ws EXCEPT ![WordCount - 1] = @ \cap TailMask]

Word(i) == i \div BitsPerWord
Bit(i) == i % BitsPerWord

Test(s, i) == Bit(i) \in words[s][Word(i)]
-----------------------------------------------------------------------------
(* Construction, or assignment, from one word of the integer type. *)
FromWord(s, v) == words' = [words EXCEPT ![s] = Trimmed([Zero EXCEPT ![0] = v])]

(* Assignment from another bitset. *)
Copy(s, o) == words' = [words EXCEPT ![s] = words[o]]

SetTo(s, i, v) ==
  words' = [words EXCEPT ![s][Word(i)] = IF v THEN @ \cup {Bit(i)} ELSE @ \ {Bit(i)}]

Flip(s, i) == words' = [words EXCEPT ![s][Word(i)] = SymDiff(@, {Bit(i)})]

SetAll(s) == words' = [words EXCEPT ![s] = Trimmed([w \in Words |-> AllOnes])]
ResetAll(s) == words' = [words EXCEPT ![s] = Zero]

FlipAll(s) == words' = [words EXCEPT ![s] = Trimmed([w \in Words |-> AllOnes \ @[w]])]

And(s, o) == words' = [words EXCEPT ![s] = [w \in Words |-> @[w] \cap words[o][w]]]

(* Mutant of Or: the last word is left out. *)
OrShort(s, o) ==
  words' = [words EXCEPT ![s] = [w \in Words |-> IF w = WordCount - 1 THEN @[w]
                                                 ELSE @[w] \cup words[o][w]]]

Or(s, o) == words' = [words EXCEPT ![s] = [w \in Words |-> @[w] \cup words[o][w]]]
Xor(s, o) == words' = [words EXCEPT ![s] = Trimmed([w \in Words |-> SymDiff(@[w], words[o][w])])]

BitsetNext == \E s \in Sets :
          \/ \E v \in SUBSET Positions : FromWord(s, v)
          \/ \E i \in 0..(N - 1) : Flip(s, i) \/ \E v \in BOOLEAN : SetTo(s, i, v)
          \/ SetAll(s) \/ ResetAll(s) \/ FlipAll(s)
          \/ \E o \in Sets : Copy(s, o) \/ And(s, o) \/ Or(s, o) \/ Xor(s, o)

BitsetSpec == BitsetInit /\ [][BitsetNext]_words
-----------------------------------------------------------------------------
(* count and operator== look at whole words. *)
Count(s) == MapThenSumSet(LAMBDA w : Cardinality(words[s][w]), Words)
Equal(s, o) == \A w \in Words : words[s][w] = words[o][w]

BitsetTypeOK == words \in [Sets -> [Words -> SUBSET Positions]]

(* No word keeps a one beyond the N-th bit. *)
TailClear == \A s \in Sets : words[s][WordCount - 1] \subseteq TailMask

(* What a bitset stands for: the set of the positions test() is true of. *)
Bits(s) == {i \in 0..(N - 1) : Test(s, i)}

(* What the whole-word observers answer is true of the N bits: count() is    *)
(* their number, and equal bitsets are those with the same bits.             *)
WordsAgree ==
  \A s \in Sets : /\ Count(s) = Cardinality(Bits(s))
                  /\ \A o \in Sets : Equal(s, o) <=> Bits(s) = Bits(o)

(* The calls are the operations of set algebra on the N bits of one bitset,  *)
(* complement relative to all N included, and leave the other bitsets alone. *)
Becomes(s, b) == Bits(s)' = b /\ \A o \in Sets \ {s} : Bits(o)' = Bits(o)
SetAlgebra ==
  [][\A s \in Sets :
       /\ SetAll(s) => Becomes(s, 0..(N - 1))
       /\ ResetAll(s) => Becomes(s, {})
       /\ FlipAll(s) => Becomes(s, (0..(N - 1)) \ Bits(s))
       /\ \A i \in 0..(N - 1) : /\ SetTo(s, i, TRUE) => Becomes(s, Bits(s) \cup {i})
                                /\ SetTo(s, i, FALSE) => Becomes(s, Bits(s) \ {i})
                                /\ Flip(s, i) => Becomes(s, SymDiff(Bits(s), {i}))
       /\ \A o \in Sets : /\ Copy(s, o) => Becomes(s, Bits(o))
                          /\ And(s, o) => Becomes(s, Bits(s) \cap Bits(o))
                          /\ Or(s, o) => Becomes(s, Bits(s) \cup Bits(o))
                          /\ Xor(s, o) => Becomes(s, SymDiff(Bits(s), Bits(o)))
       /\ \A v \in SUBSET Positions :
            FromWord(s, v) => Becomes(s, v \cap (0..(N - 1)))]_words
=============================================================================
