------------------------ MODULE SuggestionLifecycle ------------------------
(***************************************************************************)
(* What operators may rely on about the suggestion of one domain: it is    *)
(* open until one of them, and only one, promotes or dismisses it, that is *)
(* for good, and only the one who promoted it makes a competitor of it.    *)
(***************************************************************************)
CONSTANTS Promotes, Dismisses

VARIABLES
    status,   \* of the suggestion, or "absent"
    winners,  \* the operators' calls that gave the verdict
    created   \* the calls that made the domain a competitor

vars == <<status, winners, created>>

Observe ==
    /\ status = "absent"
    /\ status' = "PENDING"
    /\ UNCHANGED <<winners, created>>

Verdict(o, s) ==
    /\ status = "PENDING"
    /\ status' = s
    /\ winners' = winners \cup {o}
    /\ UNCHANGED created

Create(o) ==
    /\ status = "PROMOTED"
    /\ o \in winners
    /\ created' = created \cup {o}
    /\ UNCHANGED <<status, winners>>

Init == status = "absent" /\ winners = {} /\ created = {}

Next ==
    \/ Observe
    \/ \E o \in Promotes : Verdict(o, "PROMOTED") \/ Create(o)
    \/ \E o \in Dismisses : Verdict(o, "DISMISSED")

Spec == Init /\ [][Next]_vars
=============================================================================
