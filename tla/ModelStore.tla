----------------------------- MODULE ModelStore -----------------------------
(***************************************************************************)
(* What the directory /data/models promises to whoever loads a model from  *)
(* it: a file is absent or whole, it becomes whole in one step and stays   *)
(* so.  The promise is given up, file by file, from a moment on at which   *)
(* the file is spoiled.                                                    *)
(***************************************************************************)
CONSTANT StoreFiles

VARIABLES
    store,     \* what a reader finds under each name
    spoiled    \* the files without a promise

storeVars == <<store, spoiled>>
FileStates == {"absent", "whole", "broken"}

StoreInit == store \in [StoreFiles -> {"absent", "whole"}] /\ spoiled = {}

Publish(f) ==
    /\ store[f] = "absent"
    /\ store' = [store EXCEPT ![f] = "whole"]
    /\ UNCHANGED spoiled

\* Files lose the promise; those that have lost it may be anything.
Spoil ==
    /\ spoiled' \in SUBSET StoreFiles /\ spoiled \subseteq spoiled'
    /\ store' \in [StoreFiles -> FileStates]
    /\ \A f \in StoreFiles \ spoiled' : store'[f] = store[f]

StoreNext == Spoil \/ \E f \in StoreFiles : Publish(f)

StoreSpec == StoreInit /\ [][StoreNext]_storeVars
=============================================================================
