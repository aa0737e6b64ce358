------------------------------- MODULE MCSerp -------------------------------
(***************************************************************************)
(* Instances for TLC, without faults of the fetch, of what a worker does   *)
(* with a SERP: it fetches and bills the answer, and tallies the domains   *)
(* of its top ten.  The two share no state, so that a behaviour is about   *)
(* one of them, the area, and the other stays as it began, where none of   *)
(* its fair steps is enabled.                                              *)
(***************************************************************************)
EXTENDS ProviderFetch, CompetitorSuggestions

VARIABLE area

SerpInit ==
    /\ area \in {"fetch", "suggestions"}
    /\ Init /\ SuggestionInit
    /\ area = "fetch" => ~competitor

SerpNext ==
    /\ UNCHANGED area
    /\ \/ area = "fetch" /\ Next /\ UNCHANGED suggestionVars
       \/ area = "suggestions" /\ SuggestionNext /\ UNCHANGED vars

\* The fairness of FairSpec and of SuggestionFairSpec.
SerpFairSpec ==
    /\ SerpInit /\ [][SerpNext]_<<area, vars, suggestionVars>>
    /\ \A w \in Workers : WF_vars(Handle(w))
    /\ \A t \in Judges : WF_suggestionVars(Conclude(t))
=============================================================================
