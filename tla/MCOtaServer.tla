----------------------------- MODULE MCOtaServer -----------------------------
EXTENDS OtaServer

\* an older and a newer bundle under one name, and one that swupdate refuses
SomeBundles == {[name |-> "a", v |-> 1, ok |-> TRUE], [name |-> "a", v |-> 2, ok |-> TRUE],
                [name |-> "b", v |-> 2, ok |-> FALSE]}

OlderBundle == {[name |-> "a", v |-> 1, ok |-> TRUE]}
=============================================================================
