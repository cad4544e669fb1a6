----------------------------- MODULE MCLibrary -----------------------------
EXTENDS ClipLibrary
SomeMarks == {[low |-> 1, hys |-> 1], [low |-> 2, hys |-> 1]}
OldClips == {[t |-> 0, layout |-> "dated"], [t |-> 1, layout |-> "dated"], [t |-> 1, layout |-> "flat"]}
=============================================================================
