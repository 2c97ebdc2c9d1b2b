------------------------------ MODULE GatewayMC ------------------------------
EXTENDS Gateway, TLC

CONSTANT Bookings   \* what the section of the reservations may hold

\* PromptStore's section holds a text for every name.
MCValues == [s \in Sections |-> IF s = Prompts THEN [PromptNames -> Texts] ELSE Bookings]

\* The bound of the run: how many versions of the file a power loss may leave.
FewVersions == Cardinality(disk) <= 2

\* Models are only compared for equality, and so are the names of prompts.
Symmetry == Permutations(Names) \cup Permutations(PromptNames)
==============================================================================
