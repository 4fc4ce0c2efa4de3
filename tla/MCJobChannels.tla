--------------------------- MODULE MCJobChannels ---------------------------
(* Small trees of channels. *)
EXTENDS JobChannels, TLC

CONSTANTS root, sub, seq

\* root:1, root.sub:2:throttle=2, root.sub.seq:1:sequential
ChainParent == (sub :> root) @@ (seq :> sub)
ChainAbove == (root :> {root}) @@ (sub :> {root, sub}) @@ (seq :> {root, sub, seq})
ChainCapacity == (root :> 1) @@ (sub :> 2) @@ (seq :> 1)
ChainThrottle == (root :> 0) @@ (sub :> 2) @@ (seq :> 0)
FlatPriority == [j \in Job |-> 10]
PairHome == [j \in Job |-> seq]
=============================================================================
