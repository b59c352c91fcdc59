--------------------------- MODULE MCPileController ----------------------------
(* Constants of the model-checking run of PileController.                    *)
EXTENDS PileController, FiniteSets

StartAndPower == <<"start", "power", "startDone">>

\* The flag of a power adjustment stays.
CommandGoesOn(c) == c = call[2] \/ retry[c] > 0 \/ c \in owes \cup (valid \ {"power"})
CompletionGoesOn(k) == Sending(k) \/ k \in valid

\* Commands and a completion, which share nothing but the threads and the link, are
\* under way one after the other: two kinds of commands together before the first
\* completion, starts alone before the second.
TakingTurns ==
    LET going == {c \in Commands : CommandGoesOn(c)} IN
        \A k \in Completions :
            /\ going # {} => ~CompletionGoesOn(k)
            /\ Cardinality(going) + number[k] <= CompletionLimit

\* Power is adjusted in the first charge, which no start has begun before the handshake.
AdjustedInCharge ==
    call = NoCall /\ call' = <<"send", "power">> =>
        Wanted = "none" /\ \A k \in Completions : number[k] = 0

TurnsSpec == Init /\ [][Next /\ TakingTurns' /\ AdjustedInCharge]_vars /\ Fairness

=============================================================================
