---------------------------- MODULE PriorityQueue ----------------------------
(***************************************************************************)
(* class PriorityQueue of queue_job/jobrunner/channels.py.  A removed      *)
(* object stays in the heap until it reaches the top; `known` and          *)
(* `removed` record which objects the heap holds and which of those are    *)
(* only waiting to be thrown away.  heapq is external: the heap is the bag *)
(* of what was pushed, and its top is a least element.                     *)
(***************************************************************************)
EXTENDS Integers

CONSTANTS Item, None

ASSUME QueueAssumption == Item \subseteq Int /\ None \notin Item

VARIABLES heap,      (* _heap: how many copies of each object it holds     *)
          known,     (* _known: all objects in the heap, removed included  *)
          removed,   (* _removed: objects in the heap that were removed    *)
          call,      (* the last call, with its argument                   *)
          result     (* what it returned                                   *)

queueVars == <<heap, known, removed, call, result>>

Call == {"new", "add", "remove", "peek", "pop"} \X (Item \cup {None})

QueueTypeOK ==
  /\ heap \in [Item -> Nat]
  /\ known \subseteq Item
  /\ removed \subseteq Item
  /\ call \in Call
  /\ result \in Item \cup {None}

QueueInit ==
  /\ heap = [o \in Item |-> 0]
  /\ known = {}
  /\ removed = {}
  /\ call = <<"new", None>>
  /\ result = None

(* __contains__                                                            *)
Contains(o) == o \in known /\ o \notin removed

Live == {o \in Item : Contains(o)}

InHeap(o) == heap[o] > 0

(* Every object the heap yields before o is one that was removed.          *)
OnlyRemovedBefore(o) == \A x \in Item : InHeap(x) /\ x < o => x \in removed

(* heappop of the objects of S, one copy of each.                          *)
HeapWithout(S) == [x \in Item |-> IF x \in S THEN heap[x] - 1 ELSE heap[x]]

(* The removed objects that are popped on the way to o.                    *)
Before(o) == {x \in Item : InHeap(x) /\ x < o}

(* Mutant of Add: returns on a known object before un-removing it.         *)
AddKeepsRemoved(o) ==
  /\ call' = <<"add", o>>
  /\ removed' = removed
  /\ known' = known \cup {o}
  /\ heap' = IF o \in known THEN heap ELSE [heap EXCEPT ![o] = @ + 1]
  /\ result' = None

(* Mutant of Add: pushes an un-removed object a second time.               *)
AddPushesAgain(o) ==
  /\ call' = <<"add", o>>
  /\ removed' = removed \ {o}
  /\ known' = known \cup {o}
  /\ heap' = IF Contains(o) THEN heap ELSE [heap EXCEPT ![o] = @ + 1]
  /\ result' = None

(* add: a removed object is un-removed in place, an object already known   *)
(* is not pushed again.                                                    *)
Add(o) ==
  /\ call' = <<"add", o>>
  /\ removed' = removed \ {o}
  /\ known' = known \cup {o}
  /\ heap' = IF o \in known THEN heap ELSE [heap EXCEPT ![o] = @ + 1]
  /\ result' = None

(* remove: only a mark, and only on a known object.                        *)
Remove(o) ==
  /\ call' = <<"remove", o>>
  /\ removed' = IF o \in known THEN removed \cup {o} ELSE removed
  /\ result' = None
  /\ UNCHANGED <<heap, known>>

(* Pop and forget the objects of S.                                        *)
Discard(S) ==
  /\ heap' = HeapWithout(S)
  /\ known' = known \ S
  /\ removed' = removed \ S

(* The heap holds nothing but removed objects: both loops empty it.        *)
Exhausted == \A x \in Item : InHeap(x) => x \in removed

Exhaust ==
  /\ Exhausted
  /\ Discard({x \in Item : InHeap(x)})
  /\ result' = None

(* queue[0]: throws away the removed objects on top, keeps the first other.*)
(* On an empty queue the code raises IndexError, here the result None.     *)
Peek ==
  /\ call' = <<"peek", None>>
  /\ \/ \E o \in Item :
          /\ InHeap(o) /\ o \notin removed /\ OnlyRemovedBefore(o)
          /\ Discard(Before(o))
          /\ result' = o
     \/ Exhaust

(* pop: the same loop, and the first other is popped as well.              *)
Pop ==
  /\ call' = <<"pop", None>>
  /\ \/ \E o \in Item :
          /\ InHeap(o) /\ o \notin removed /\ OnlyRemovedBefore(o)
          /\ Discard(Before(o) \cup {o})
          /\ result' = o
     \/ Exhaust

QueueNext ==
  \/ \E o \in Item : Add(o) \/ Remove(o)
  \/ Peek
  \/ Pop

QueueSpec == QueueInit /\ [][QueueNext]_queueVars
-----------------------------------------------------------------------------
(* The heap holds exactly the known objects, once each, and a removed      *)
(* object is a known one: what makes `len(known) - len(removed)` the       *)
(* length, and what keeps an object from being handed out twice.           *)
HeapIsKnown ==
  /\ QueueTypeOK
  /\ \A o \in Item : heap[o] = IF o \in known THEN 1 ELSE 0
  /\ removed \subseteq known

(* The queue is a set popped at its least element: lazily removed objects  *)
(* are never returned, whatever the order of add, remove, peek and pop.    *)
Abs == INSTANCE RemovableQueue WITH content <- Live

ImplementsRemovableQueue == Abs!ASpec
=============================================================================
