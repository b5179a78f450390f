--------------------------- MODULE MCLogMonitor ----------------------------
(* Configurations for the runs of LogMonitor: the values of Confs.         *)
EXTENDS LogMonitor, TLC

CONSTANTS a, b, k1, k2, f1, f2

\* One service; another key list; another file, with a second service; a
\* second service whose key list or whose file is missing.
OneService == [keys |-> a :> k1, files |-> a :> f1]
OtherKeys  == [keys |-> a :> k2, files |-> a :> f1]
OtherFile  == [keys |-> a :> k1 @@ b :> k1, files |-> a :> f2 @@ b :> f1]
Unpaired   == [keys |-> a :> k2 @@ b :> k1, files |-> a :> f1]
NoKeys     == [keys |-> Empty, files |-> a :> f1]

CompleteConfs == {OneService, OtherKeys, OtherFile, Unpaired}
FewConfs == {OtherKeys, OtherFile}
AllConfs == CompleteConfs \cup {NoKeys}
SomeConfs == {OneService, OtherFile, NoKeys}

Symmetry == Permutations(Nodes)
=============================================================================
