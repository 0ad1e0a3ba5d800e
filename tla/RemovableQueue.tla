--------------------------- MODULE RemovableQueue ---------------------------
(***************************************************************************)
(* What queue_job/jobrunner/channels.py promises of a PriorityQueue: a set *)
(* from which the least element is popped and any element can be removed.  *)
(* PriorityQueue.tla shows how the code keeps the promise with a heap it   *)
(* never searches.                                                         *)
(***************************************************************************)
EXTENDS Integers

CONSTANTS Item,   (* the queued objects, named by their rank under __lt__  *)
          None    (* what pop returns on an empty queue                    *)

VARIABLES content,   (* the objects in the queue                           *)
          call,      (* the last call, with its argument                   *)
          result     (* what it returned                                   *)

avars == <<content, call, result>>

Call == {"new", "add", "remove", "peek", "pop"} \X (Item \cup {None})

ATypeOK == content \subseteq Item /\ call \in Call /\ result \in Item \cup {None}

AInit == content = {} /\ call = <<"new", None>> /\ result = None

AAdd(o) ==
  /\ call' = <<"add", o>>
  /\ content' = content \cup {o}
  /\ result' = None

ARemove(o) ==
  /\ call' = <<"remove", o>>
  /\ content' = content \ {o}
  /\ result' = None

(* The object queue[0] and pop() agree on.                                 *)
IsFirst(o, S) == o \in S /\ \A x \in S : o <= x

APeek ==
  /\ call' = <<"peek", None>>
  /\ UNCHANGED content
  /\ \/ \E o \in content : IsFirst(o, content) /\ result' = o
     \/ content = {} /\ result' = None

APop ==
  /\ call' = <<"pop", None>>
  /\ \/ \E o \in content :
          /\ IsFirst(o, content)
          /\ content' = content \ {o}
          /\ result' = o
     \/ content = {} /\ UNCHANGED content /\ result' = None

ANext ==
  \/ \E o \in Item : AAdd(o) \/ ARemove(o)
  \/ APeek
  \/ APop

ASpec == AInit /\ [][ANext]_avars
=============================================================================
