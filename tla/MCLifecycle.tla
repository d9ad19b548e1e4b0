---------------------------- MODULE MCLifecycle ----------------------------
(* Constants of the Lifecycle runs. *)
EXTENDS Lifecycle

\* A file that says everything, one that says nothing, and one that is wrong.
ConfigFiles ==
  {[log |-> "file", dev |-> RsuDevice, root |-> "other", protect |-> <<1>>],
   [log |-> "none", dev |-> None, root |-> None, protect |-> <<>>],
   [log |-> "stderr", dev |-> "wrong", root |-> RootDevice, protect |-> <<1, 32, 2>>]}

=============================================================================
