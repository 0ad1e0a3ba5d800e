------------------------------ MODULE MCChannels ------------------------------
(***************************************************************************)
(* Small channel trees for Channels.tla.  A run names one of them for each *)
(* constant.                                                               *)
(***************************************************************************)
EXTENDS Channels

(* root <- A <- A.B: a chain, so that a job passes two channels on its way.*)
ChainChannel == {"root", "A", "B"}
ChainParent == [c \in {"A", "B"} |-> IF c = "A" THEN "root" ELSE "A"]
ChainAbove ==
  [c \in ChainChannel |-> CASE c = "root" -> {"root"}
                            [] c = "A" -> {"root", "A"}
                            [] OTHER -> ChainChannel]
ChainCapacity == [c \in ChainChannel |-> IF c = "A" THEN 2 ELSE 1]

(* root <- S: a sequential or throttled channel of its own.                *)
PairChannel == {"root", "S"}
PairParent == [c \in {"S"} |-> "root"]
PairAbove == [c \in PairChannel |-> {"root", c}]
PairCapacity == [c \in PairChannel |-> IF c = "S" THEN 1 ELSE 2]
PairUnlimited == [c \in PairChannel |-> IF c = "S" THEN 0 ELSE 2]

(* A row may name a channel the runner is not configured with.             *)
AnyName == Channel \cup {"other"}

NoThrottle == [c \in Channel |-> 0]
RootThrottled == [c \in Channel |-> IF c = Root THEN 2 ELSE 1]
=============================================================================
