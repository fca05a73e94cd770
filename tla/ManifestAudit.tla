---------------------------- MODULE ManifestAudit ----------------------------
(***************************************************************************)
(* What SingleManifestTest.HalsAreServed promises, without its threads,   *)
(* its timeouts and its transports: the entries of one VINTF manifest are *)
(* judged one after the other, and an entry is judged "served" only when a *)
(* service was seen for it while that entry was the one being judged.      *)
(* HalSweep, the detailed specification, implements this one.             *)
(***************************************************************************)
CONSTANT Instance        \* the entries of the manifest

VARIABLES
    up,        \* entries whose service the device offers now
    pending,   \* entries not looked at yet
    current,   \* the entry being judged: empty or one element
    observed,  \* entries for which a service answered
    verdict    \* what the test said of each entry

vars == <<up, pending, current, observed, verdict>>

Verdict == {"none", "served", "excused", "failed"}

Init ==
    /\ up \in SUBSET Instance
    /\ pending = Instance
    /\ current = {}
    /\ observed = {}
    /\ verdict = [i \in Instance |-> "none"]

\* The next entry is taken up once the previous one is closed.
Open(i) ==
    /\ current = {}
    /\ i \in pending
    /\ pending' = pending \ {i}
    /\ current' = {i}
    /\ UNCHANGED <<up, observed, verdict>>

\* A service is seen for the current entry: it has to be offered now, and the
\* entry is not judged yet.
Observe(i) ==
    /\ i \in current \cap up
    /\ verdict[i] = "none"
    /\ observed' = observed \cup {i}
    /\ UNCHANGED <<up, pending, current, verdict>>

\* The entry is judged, once.
Judge(i, v) ==
    /\ i \in current
    /\ verdict[i] = "none"
    /\ v \in Verdict \ {"none"}
    /\ v = "served" => i \in observed
    /\ verdict' = [verdict EXCEPT ![i] = v]
    /\ UNCHANGED <<up, pending, current, observed>>

Close(i) ==
    /\ i \in current
    /\ verdict[i] # "none"
    /\ current' = {}
    /\ UNCHANGED <<up, pending, observed, verdict>>

\* Services come and go whatever the test does.
Environment ==
    /\ up' \in SUBSET Instance
    /\ UNCHANGED <<pending, current, observed, verdict>>

Next ==
    \/ \E i \in Instance :
          \/ Open(i) \/ Observe(i) \/ Close(i)
          \/ \E v \in Verdict : Judge(i, v)
    \/ Environment

Spec == Init /\ [][Next]_vars
=============================================================================
