---------------------------- MODULE MC_I10Queue ----------------------------
(***************************************************************************)
(* Model-checking instances of I10Queue.  The .cfg files give the small    *)
(* constants; this module adds the bounds on the queue's scheduling.       *)
(***************************************************************************)
EXTENDS I10Queue

\* The capsules nvmet_req_init may reject in the passing runs: those for
\* which i10_target_handle_req_failure goes straight back to the next PDU
\* (a read, or a write whose data would not fit in the capsule).
SafeInitFailCmds == {hc \in HostCmdShapes : ~hc.write \/ hc.pages > InlinePages}

\* Every capsule may be rejected, the writes with data that fits in a
\* capsule included.
AllInitFailCmds == HostCmdShapes

=============================================================================
