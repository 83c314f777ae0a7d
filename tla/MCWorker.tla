------------------------------ MODULE MCWorker ------------------------------
(* The worker for TLC: the request ids are chosen here. *)
EXTENDS Worker, TLC

(* Every request has an id of its own; all requests share one. *)
OwnIds == CHOOSE f \in [Requests -> Ids] :
            \A a, b \in Requests : f[a] = f[b] => a = b
SameId  == [r \in Requests |-> CHOOSE i \in Ids : TRUE]

(* Requests with the same id are interchangeable. *)
RequestSymmetry == Permutations(Requests)
=============================================================================
