----------------------------- MODULE SharedPtr ------------------------------
(* shared_ptr and weak_ptr: two-counter control blocks, and objects that     *)
(* themselves hold a strong pointer (next) and a weak pointer (back), as the *)
(* nodes of a linked structure do.  Destroying one object releases the       *)
(* pointers inside it, which may destroy another: the calls under way are    *)
(* the frames of "pending", innermost first, and the program makes its next  *)
(* call when there are none.                                                 *)
EXTENDS Integers, Sequences, FiniteSets

CONSTANTS Objs,            \* managed objects, each with its control block
          SVars, WVars,    \* the program's shared_ptr and weak_ptr variables
          Null             \* no control block

ASSUME SharedPtrAssumption ==
  /\ IsFiniteSet(Objs) /\ IsFiniteSet(SVars) /\ IsFiniteSet(WVars)
  /\ Null \notin Objs

VARIABLES
  sp, wp,       \* the control block each strong, each weak pointer holds
  ref, weak,    \* ref_count_ and weak_count_ of each control block
  block,        \* the control blocks that are allocated
  obj,          \* "none", "alive", or "dying" while its destructor runs
  pending       \* the calls under way

vars == <<sp, wp, ref, weak, block, obj, pending>>

next(o) == <<o, "next">>
back(o) == <<o, "back">>
Strong == SVars \cup {next(o) : o \in Objs}
Weak == WVars \cup {back(o) : o \in Objs}

Release(l) == [call |-> "release_strong", dst |-> l, src |-> l]
Finish(l) == [call |-> "after_delete", dst |-> l, src |-> l]
ReleaseWeak(l) == [call |-> "release_weak", dst |-> l, src |-> l]
Copy(d, s) == [call |-> "copy", dst |-> d, src |-> s]
Move(d, s) == [call |-> "move", dst |-> d, src |-> s]

Init == /\ sp = [l \in Strong |-> Null] /\ wp = [l \in Weak |-> Null]
        /\ ref = [o \in Objs |-> 0] /\ weak = [o \in Objs |-> 0]
        /\ block = {} /\ obj = [o \in Objs |-> "none"]
        /\ pending = <<>>

(* A pointer the program can name: a variable, or a member of an object one  *)
(* of its strong variables other than "but" owns.                            *)
Owned(but) == {o \in Objs : \E v \in SVars \ {but} : sp[v] = o}
Reachable(but) == SVars \cup {next(o) : o \in Owned(but)}
ReachableWeak == WVars \cup {back(o) : o \in Owned(Null)}

Idle == pending = <<>>
-----------------------------------------------------------------------------
(* Counting one holder of block c in or out; Null has no counts. *)
Plus(count, c) == IF c = Null THEN count ELSE [count EXCEPT ![c] = @ + 1]
Minus(count, c) == IF c = Null THEN count ELSE [count EXCEPT ![c] = @ - 1]
FreedIfUnheld(c, w) == IF c # Null /\ w[c] = 0 THEN block \ {c} ELSE block

(* Calls of the program on strong pointers.  Constructing is assigning to a  *)
(* variable that holds nothing.                                              *)
Make(v, o) ==
  /\ Idle /\ sp[v] = Null /\ o \notin block
  /\ sp' = [sp EXCEPT ![v] = o]
  /\ ref' = [ref EXCEPT ![o] = 1] /\ weak' = [weak EXCEPT ![o] = 1]
  /\ block' = block \cup {o} /\ obj' = [obj EXCEPT ![o] = "alive"]
  /\ UNCHANGED <<wp, pending>>

(* operator= releases what the target owns before it reads the source, so    *)
(* the source must not live in an object only the target keeps alive.        *)
AssignCopy(d, s) ==
  /\ Idle /\ d # s /\ d \in Reachable(Null) /\ s \in Reachable(d)
  /\ pending' = <<Release(d), Copy(d, s)>>
  /\ UNCHANGED <<sp, wp, ref, weak, block, obj>>

AssignMove(d, s) ==
  /\ Idle /\ d # s /\ d \in Reachable(Null) /\ s \in Reachable(d)
  /\ pending' = <<Release(d), Move(d, s)>>
  /\ UNCHANGED <<sp, wp, ref, weak, block, obj>>

Destruct(v) ==
  /\ Idle /\ sp[v] # Null
  /\ pending' = <<Release(v)>>
  /\ UNCHANGED <<sp, wp, ref, weak, block, obj>>

(* Steps of the calls under way. *)
Top(call) == pending # <<>> /\ Head(pending).call = call
Return == pending' = Tail(pending)

(* Mutant of ReleaseShared: a null pointer sends it round again.             *)
ReleaseSharedStuck ==
  /\ Top("release_strong")
  /\ LET l == Head(pending).dst
         c == sp[l]
     IN \/ c = Null /\ UNCHANGED <<pending, sp, ref, obj>>
        \/ /\ c # Null /\ ref[c] > 1
           /\ ref' = Minus(ref, c) /\ sp' = [sp EXCEPT ![l] = Null]
           /\ Return /\ UNCHANGED obj
        \/ /\ c # Null /\ ref[c] = 1
           /\ ref' = Minus(ref, c) /\ obj' = [obj EXCEPT ![c] = "dying"]
           /\ pending' = <<ReleaseWeak(back(c)), Release(next(c)), Finish(l)>>
                           \o Tail(pending)
           /\ UNCHANGED sp
  /\ UNCHANGED <<wp, weak, block>>

(* release_strong: the last owner runs the object's destructor, which        *)
(* releases its members in reverse order of declaration.                     *)
ReleaseShared ==
  /\ Top("release_strong")
  /\ LET l == Head(pending).dst
         c == sp[l]
     IN \/ /\ c = Null
           /\ Return /\ UNCHANGED <<sp, ref, obj>>
        \/ /\ c # Null /\ ref[c] > 1
           /\ ref' = Minus(ref, c) /\ sp' = [sp EXCEPT ![l] = Null]
           /\ Return /\ UNCHANGED obj
        \/ /\ c # Null /\ ref[c] = 1
           /\ ref' = Minus(ref, c) /\ obj' = [obj EXCEPT ![c] = "dying"]
           /\ pending' = <<ReleaseWeak(back(c)), Release(next(c)), Finish(l)>>
                           \o Tail(pending)
           /\ UNCHANGED sp
  /\ UNCHANGED <<wp, weak, block>>

(* The rest of release_strong once the object is deleted: the strong         *)
(* owners' common weak reference goes, and with the last one the block.      *)
FinishRelease ==
  /\ Top("after_delete")
  /\ LET l == Head(pending).dst
         c == sp[l]
     IN /\ obj' = [obj EXCEPT ![c] = "none"]
        /\ weak' = Minus(weak, c)
        /\ block' = FreedIfUnheld(c, weak')
        /\ sp' = [sp EXCEPT ![l] = Null]
  /\ Return /\ UNCHANGED <<wp, ref>>

(* release_weak, on a variable or on a member of a dying object. *)
DropWeak(l) ==
  /\ weak' = Minus(weak, wp[l])
  /\ block' = FreedIfUnheld(wp[l], weak')
  /\ wp' = [wp EXCEPT ![l] = Null]

ReleaseMember ==
  /\ Top("release_weak")
  /\ DropWeak(Head(pending).dst)
  /\ Return /\ UNCHANGED <<sp, ref, obj>>

FinishCopy ==
  /\ Top("copy")
  /\ LET f == Head(pending)
     IN /\ sp' = [sp EXCEPT ![f.dst] = sp[f.src]]
        /\ ref' = Plus(ref, sp[f.src])
  /\ Return /\ UNCHANGED <<wp, weak, block, obj>>

(* Mutant of FinishMove: the source is not emptied. *)
FinishMoveSharing ==
  /\ Top("move")
  /\ LET f == Head(pending)
     IN sp' = [sp EXCEPT ![f.dst] = sp[f.src]]
  /\ Return /\ UNCHANGED <<wp, ref, weak, block, obj>>

FinishMove ==
  /\ Top("move")
  /\ LET f == Head(pending)
     IN sp' = [sp EXCEPT ![f.dst] = sp[f.src], ![f.src] = Null]
  /\ Return /\ UNCHANGED <<wp, ref, weak, block, obj>>
-----------------------------------------------------------------------------
(* Calls on weak pointers; none of them destroys an object. *)
Rebound(w, c, freed) ==
  /\ weak' = Plus(Minus(weak, wp[w]), c)
  /\ block' = FreedIfUnheld(wp[w], Minus(weak, wp[w]))
  /\ wp' = freed

WeakFromShared(w, s) ==
  /\ Idle /\ w \in ReachableWeak /\ s \in Reachable(Null)
  /\ Rebound(w, sp[s], [wp EXCEPT ![w] = sp[s]])
  /\ UNCHANGED <<sp, ref, obj, pending>>

WeakCopy(w, x) ==
  /\ Idle /\ w # x /\ {w, x} \subseteq ReachableWeak
  /\ Rebound(w, wp[x], [wp EXCEPT ![w] = wp[x]])
  /\ UNCHANGED <<sp, ref, obj, pending>>

(* Mutant of WeakMove: the source is not emptied. *)
WeakMoveSharing(w, x) ==
  /\ Idle /\ w # x /\ {w, x} \subseteq ReachableWeak
  /\ Rebound(w, Null, [wp EXCEPT ![w] = wp[x]])
  /\ UNCHANGED <<sp, ref, obj, pending>>

WeakMove(w, x) ==
  /\ Idle /\ w # x /\ {w, x} \subseteq ReachableWeak
  /\ Rebound(w, Null, [wp EXCEPT ![w] = wp[x], ![x] = Null])
  /\ UNCHANGED <<sp, ref, obj, pending>>

WeakReset(w) ==
  /\ Idle /\ w \in ReachableWeak /\ wp[w] # Null
  /\ DropWeak(w)
  /\ UNCHANGED <<sp, ref, obj, pending>>

(* Mutant of Expired: the block's weak count is asked. *)
ExpiredByWeakCount(w) == wp[w] = Null \/ weak[wp[w]] = 0

Expired(w) == wp[w] = Null \/ ref[wp[w]] = 0

(* Mutant of Lock: the new owner is not counted. *)
LockUncounted(v, w) ==
  /\ Idle /\ sp[v] = Null /\ w \in ReachableWeak /\ ~Expired(w)
  /\ sp' = [sp EXCEPT ![v] = wp[w]]
  /\ UNCHANGED <<wp, ref, weak, block, obj, pending>>

(* lock into a variable that holds nothing; an expired pointer gives none. *)
Lock(v, w) ==
  /\ Idle /\ sp[v] = Null /\ w \in ReachableWeak /\ ~Expired(w)
  /\ sp' = [sp EXCEPT ![v] = wp[w]]
  /\ ref' = Plus(ref, wp[w])
  /\ UNCHANGED <<wp, weak, block, obj, pending>>

Step == ReleaseShared \/ FinishRelease \/ ReleaseMember \/ FinishCopy \/ FinishMove

Call == \/ \E v \in SVars : Destruct(v) \/ \E o \in Objs : Make(v, o)
        \/ \E d, s \in Strong : AssignCopy(d, s) \/ AssignMove(d, s)
        \/ \E w \in Weak, s \in Strong : WeakFromShared(w, s)
        \/ \E w, x \in Weak : WeakCopy(w, x) \/ WeakMove(w, x)
        \/ \E w \in Weak : WeakReset(w) \/ \E v \in SVars : Lock(v, w)

Next == Step \/ Call

(* A call that has begun runs on: one thread executes it and nothing waits. *)
Spec == Init /\ [][Next]_vars /\ WF_vars(Step)
-----------------------------------------------------------------------------
Frames == [call : {"release_strong", "after_delete", "copy", "move"},
           dst : Strong, src : Strong]
          \cup [call : {"release_weak"}, dst : Weak, src : Weak]

TypeOK == /\ sp \in [Strong -> Objs \cup {Null}] /\ wp \in [Weak -> Objs \cup {Null}]
          /\ ref \in [Objs -> Nat] /\ weak \in [Objs -> Nat]
          /\ block \subseteq Objs /\ obj \in [Objs -> {"none", "alive", "dying"}]
          /\ pending \in Seq(Frames)

(* The pointers whose release is deleting the object they still name. *)
Deleting == {pending[i].dst : i \in {j \in DOMAIN pending : pending[j].call = "after_delete"}}

(* The strong count is the number of owners, also half-way through a chain   *)
(* of destructions, and the weak count is the number of observers plus the   *)
(* one reference all owners share until the object is gone.                  *)
CountsExact ==
  \A c \in Objs :
    /\ ref[c] = Cardinality({l \in Strong \ Deleting : sp[l] = c})
    /\ weak[c] = Cardinality({l \in Weak : wp[l] = c}) + (IF obj[c] = "none" THEN 0 ELSE 1)

(* No pointer outlives what it points at: an owner's object is alive, and a  *)
(* weak pointer's block is there to be asked, even while destructors that    *)
(* drop the last weak pointer to the very block being released are running.  *)
NoDangling ==
  /\ \A l \in Strong : sp[l] # Null =>
       sp[l] \in block /\ obj[sp[l]] = (IF l \in Deleting THEN "dying" ELSE "alive")
  /\ \A l \in Weak : wp[l] # Null => wp[l] \in block

(* Nothing is destroyed twice or lost: an object whose destructor runs has   *)
(* one release waiting for it, one that is alive has an owner, and a block   *)
(* stays only for an object or for a weak pointer.  lock() never brings a    *)
(* dying object back, and fails only for one that is not alive.              *)
HeldOrGone ==
  /\ \A c \in Objs :
       /\ obj[c] = "dying" => Cardinality({l \in Deleting : sp[l] = c}) = 1
       /\ obj[c] = "alive" => ref[c] > 0
       /\ c \in block <=> obj[c] # "none" \/ \E l \in Weak : wp[l] = c
  /\ \A w \in Weak : wp[w] # Null => (Expired(w) <=> obj[wp[w]] # "alive")

(* Every release, however long the chain of objects it destroys, ends.       *)
CallsReturn == ~Idle ~> Idle
=============================================================================
