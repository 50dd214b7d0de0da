---------------------------- MODULE FanOverride ----------------------------
(***************************************************************************)
(* What a fand session promises of the fans, without its threads: fans are *)
(* forced only while the session is open, never while it is closing, and a *)
(* session that closes (instead of being lost) leaves forced only the fans *)
(* whose release the SMC refused.                                          *)
(***************************************************************************)
EXTENDS Naturals

CONSTANT NumFans     \* a natural number

Fans == 0 .. NumFans - 1

VARIABLES
    mode,       \* mode[f]: "auto" or "forced"
    refused,    \* fans whose latest release was answered with an error
    phase       \* of the session: "idle", "open", "closing", "closed" or "lost"

vars == <<mode, refused, phase>>

Init ==
    /\ mode \in [Fans -> {"auto", "forced"}]
    /\ refused = {}
    /\ phase = "idle"

Live == phase \in {"idle", "open", "closing"}

Open ==
    /\ phase = "idle"
    /\ phase' = "open"
    /\ UNCHANGED <<mode, refused>>

Force(f) ==
    /\ phase = "open"
    /\ mode' = [mode EXCEPT ![f] = "forced"]
    /\ refused' = refused \ {f}
    /\ UNCHANGED phase

\* The fan goes back to automatic mode, by a release of the session or by
\* the thermal manager; the session may be told of a failure all the same.
Release(f) ==
    /\ Live
    /\ mode' = [mode EXCEPT ![f] = "auto"]
    /\ refused' \in {refused \ {f}, refused \cup {f}}
    /\ UNCHANGED phase

ReleaseRefused(f) ==
    /\ Live
    /\ refused' = refused \cup {f}
    /\ UNCHANGED <<mode, phase>>

StartClosing ==
    /\ phase \in {"idle", "open"}
    /\ phase' = "closing"
    /\ UNCHANGED <<mode, refused>>

Close ==
    /\ phase \in {"open", "closing"}
    /\ \A f \in Fans : mode[f] = "auto" \/ f \in refused
    /\ phase' = "closed"
    /\ UNCHANGED <<mode, refused>>

Lose ==
    /\ Live
    /\ phase' = "lost"
    /\ UNCHANGED <<mode, refused>>

Next ==
    \/ Open \/ StartClosing \/ Close \/ Lose
    \/ \E f \in Fans : Force(f) \/ Release(f) \/ ReleaseRefused(f)

Spec == Init /\ [][Next]_vars

=============================================================================
