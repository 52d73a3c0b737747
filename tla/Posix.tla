-------------------------------- MODULE Posix --------------------------------
(* What the servers of Lab01/zad5 and Lab02 use of the system below them.   *)
EXTENDS Integers

(* socket, accept and opendir return the lowest descriptor that is free.    *)
Lowest(S) == CHOOSE d \in S : \A e \in S : d <= e
=============================================================================
