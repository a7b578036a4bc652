------------------------------ MODULE MCMutex ------------------------------
(* Threads 1, 2 and 3 with priorities 1, 2 and 3; a ceiling may be raised   *)
(* above all of them.                                                       *)
EXTENDS Mutex

MCInitPrio == [t \in Threads |-> t]
=============================================================================
