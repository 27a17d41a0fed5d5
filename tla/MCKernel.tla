------------------------------ MODULE MCKernel ------------------------------
(* The heap, the frames and address spaces, and the threads with           *)
(* preemption on, one at a time.                                           *)
EXTENDS Heap, AddressSpaces, Scheduler

VARIABLE part

(* Low memory, a region that straddles the reserve, a reserved region, an  *)
(* empty one, and a second usable region.                                  *)
Map ==
    << [conventional |-> TRUE, start |-> 0, pages |-> 1],
       [conventional |-> TRUE, start |-> 1, pages |-> 6],
       [conventional |-> FALSE, start |-> 7, pages |-> 2],
       [conventional |-> TRUE, start |-> 9, pages |-> 0],
       [conventional |-> TRUE, start |-> 9, pages |-> 7] >>

TwoPages == { <<0, 0, 0, 0>>, <<0, 1, 0, 0>> }

(* A page of the heap, and one the kernel maps in the lower half.          *)
KernelPage == { <<1, 0, 0, 0>>, <<0, 0, 0, 1>> }

KernelInit ==
    /\ part \in {"heap", "spaces", "threads"}
    /\ HeapInit /\ SpacesInit /\ Init

KernelNext ==
    /\ UNCHANGED part
    /\ \/ part = "heap" /\ HeapNext /\ UNCHANGED <<spaceVars, vars>>
       \/ part = "spaces" /\ SpacesNext /\ UNCHANGED <<heapVars, vars>>
       \/ part = "threads" /\ PreemptiveNext /\ UNCHANGED <<heapVars, spaceVars>>

KernelSpec == KernelInit /\ [][KernelNext]_<<part, heapVars, spaceVars, vars>>

=============================================================================
