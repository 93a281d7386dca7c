--------------------------- MODULE MCReadBudget ----------------------------
EXTENDS ReadBudget
\* The bare ready envelope of 40 to 70 bytes and two padded counts of 16 end up on both
\* sides of 99, where the limit becomes three digits wide.
\* A handle's id is printed twice.
Ids(handles) == ((1..handles) \X {1, 2}) \cup {<<handles + 1, 1>>}
MCBodies == {[base |-> b, handles |-> h, ids |-> Ids(h)] : b \in {60, 64, 65}, h \in {0, 1}}
MCBudgets == {9, 53, 60, 97, 99, 120}
=============================================================================
