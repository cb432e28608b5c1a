------------------------------ MODULE Lifecycle ------------------------------
(***************************************************************************)
(* The sandbox state machine of pkg/lifecycle/machine.go: the edge table,  *)
(* the rule that every active state may fail, and the two ways the code    *)
(* moves a machine (To validates the edge, CAS also names the old state).  *)
(* Every other module takes its states and its edges from here.            *)
(***************************************************************************)

State == {"PENDING", "STARTING", "RUNNING", "PAUSING", "PAUSED_HOT",
          "RESUMING", "STOPPING", "STOPPED", "FAILED",
          "PAUSED_WARM", "ARCHIVED_COLD", "RECYCLED"}

transitions ==
  { <<"PENDING", "STARTING">>, <<"STARTING", "RUNNING">>,
    <<"RUNNING", "PAUSING">>, <<"RUNNING", "STOPPING">>,
    <<"PAUSING", "PAUSED_HOT">>, <<"PAUSING", "RUNNING">>,
    <<"PAUSED_HOT", "RESUMING">>, <<"PAUSED_HOT", "STOPPING">>,
    <<"PAUSED_HOT", "PAUSED_WARM">>,
    <<"PAUSED_WARM", "RESUMING">>, <<"PAUSED_WARM", "ARCHIVED_COLD">>,
    <<"PAUSED_WARM", "STOPPING">>,
    <<"ARCHIVED_COLD", "RESUMING">>, <<"ARCHIVED_COLD", "RECYCLED">>,
    <<"ARCHIVED_COLD", "STOPPING">>,
    <<"RECYCLED", "STOPPING">>, <<"RESUMING", "RUNNING">>,
    <<"STOPPING", "STOPPED">>,
    <<"FAILED", "RESUMING">>, <<"FAILED", "STOPPING">> }

activeStates ==
  {"STARTING", "RUNNING", "PAUSING", "PAUSED_HOT", "PAUSED_WARM",
   "ARCHIVED_COLD", "RESUMING", "STOPPING"}

Validate(from, to) ==
  \/ to = "FAILED" /\ from \in activeStates
  \/ <<from, to>> \in transitions

\* Machine.To: the new state, or the old one when the edge is refused.
To(s, to) == IF Validate(s, to) THEN to ELSE s

\* Machine.CAS succeeds only from the named state, along a legal edge.
CASOk(s, from, to) == s = from /\ Validate(from, to)
CAS(s, from, to) == IF CASOk(s, from, to) THEN to ELSE s
==============================================================================
