----------------------------- MODULE RecordLedger ----------------------------
(***************************************************************************)
(* What the delivery of trade records promises, whoever carries it out: a  *)
(* record that is made is kept by the pile and accepted by the platform,   *)
(* in either order, it is settled only when both have happened, and        *)
(* nothing that is kept, accepted or settled is ever taken back.           *)
(***************************************************************************)
CONSTANTS
    Records,   \* trade records
    Refused    \* those the platform never accepts

VARIABLES
    booked,    \* made by a session that has ended
    kept,      \* stored in the pile
    accepted,  \* accepted by the platform
    settled    \* marked in the pile as accepted

vars == <<booked, kept, accepted, settled>>

\* It may have been kept before.
Init ==
    /\ booked \subseteq Records
    /\ kept \subseteq booked
    /\ accepted \subseteq booked \ Refused
    /\ settled \subseteq kept \cap accepted

Book(r) ==
    /\ r \notin booked
    /\ booked' = booked \cup {r}
    /\ UNCHANGED <<kept, accepted, settled>>

Keep(r) ==
    /\ r \in booked \ kept
    /\ kept' = kept \cup {r}
    /\ UNCHANGED <<booked, accepted, settled>>

Accept(r) ==
    /\ r \in booked \ (accepted \cup Refused)
    /\ accepted' = accepted \cup {r}
    /\ UNCHANGED <<booked, kept, settled>>

Settle(r) ==
    /\ r \in (kept \cap accepted) \ settled
    /\ settled' = settled \cup {r}
    /\ UNCHANGED <<booked, kept, accepted>>

Next == \E r \in Records : Book(r) \/ Keep(r) \/ Accept(r) \/ Settle(r)

Spec == Init /\ [][Next]_vars

\* A record that is kept is settled in the end, unless the platform refuses it.
KeptIsSettled == \A r \in Records \ Refused : r \in kept ~> r \in settled

=============================================================================
