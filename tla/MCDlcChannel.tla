----------------------------- MODULE MCDlcChannel -----------------------------
(* The scenarios in which a channel is checked.                             *)
EXTENDS DlcChannel

Use(ops, updates, duplicates, faulty) ==
    [ops |-> ops, updates |-> updates, duplicates |-> duplicates, faults |-> faulty]

SafetyScenarios ==
    {\* Settling and renewing in any order, and a forced close at any point.
     Use({"settle", "renew", "force", "reject"}, 2, 0, 0),
     \* A collaborative close against a forced one.
     Use({"collaborative", "force", "timeout"}, 1, 0, 0),
     \* A crash or I/O error while settling or renewing, and a forced close.
     Use({"settle", "force"}, 1, 0, 1),
     Use({"renew", "force"}, 1, 0, 1),
     \* A repeated message and a crash or I/O error, with collaborative closes.
     Use({"settle", "renew", "collaborative", "reject"}, 1, 1, 1)}

\* Lost messages and time-outs; nobody forces a close by hand.
LivenessScenarios == {Use({"settle", "renew", "timeout"}, 1, 0, 0)}

\* A forced close in the middle of settling.
PanicScenarios == {Use({"settle", "force"}, 1, 0, 0)}
=============================================================================
