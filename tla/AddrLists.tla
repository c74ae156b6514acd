------------------------------ MODULE AddrLists ------------------------------
(***************************************************************************)
(* dns_override.c's bookkeeping of address lists: the game frees every     *)
(* list with one call, freeaddrinfo, and this file must tell the lists it  *)
(* built from those of Darling's resolver.  A table of a fixed size, with  *)
(* a compare-and-swap per slot and no lock, remembers its own.             *)
(*                                                                         *)
(* A list is the address of its head; a freed address may be given again   *)
(* to either allocator at once, as both use the same malloc.               *)
(***************************************************************************)
EXTENDS Naturals

CONSTANTS Threads, Addresses, Slots, None

ASSUME ListsAssumption == None \notin Addresses /\ Slots \in Nat

VARIABLES
    heap,      \* who allocated what is at an address
    table,     \* owned_lists
    held,      \* the lists the game has and will free
    mem,       \* each thread's call: where it is, its list, its place in the table
    dropped    \* observation: lists that found the table full

listVars == <<heap, table, held, mem, dropped>>

\* A call that handles a list, from the first slot on.
Handling(step, a) == [at |-> step, list |-> a, slot |-> 1]
NoMem == Handling("out", None)

ListsInit ==
    /\ heap = [a \in Addresses |-> "free"]
    /\ table = [s \in 1..Slots |-> None]
    /\ held = {} /\ dropped = {}
    /\ mem = [t \in Threads |-> NoMem]

\* macoblox_dns_resolve allocates a list.
Build(t) ==
    \E a \in Addresses :
        /\ mem[t].at = "out" /\ heap[a] = "free"
        /\ heap' = [heap EXCEPT ![a] = "ours"]
        /\ mem' = [mem EXCEPT ![t] = Handling("remember", a)]
        /\ UNCHANGED <<table, held, dropped>>

\* One slot of remember; after the last one the list is not in the table.  The
\* game gets it in both cases.
Remember(t) ==
    LET a == mem[t].list
        s == mem[t].slot
    IN  /\ mem[t].at = "remember"
        /\ \/ /\ s <= Slots /\ table[s] # None
              /\ mem' = [mem EXCEPT ![t].slot = s + 1]
              /\ UNCHANGED <<table, held, dropped>>
           \/ /\ s <= Slots /\ table[s] = None
              /\ table' = [table EXCEPT ![s] = a]
              /\ held' = held \cup {a} /\ mem' = [mem EXCEPT ![t] = NoMem]
              /\ UNCHANGED dropped
           \/ /\ s > Slots
              /\ dropped' = dropped \cup {a}
              /\ held' = held \cup {a} /\ mem' = [mem EXCEPT ![t] = NoMem]
              /\ UNCHANGED table
        /\ UNCHANGED heap

\* Darling's resolver gives the game a list of its own.
SystemList(t) ==
    \E a \in Addresses :
        /\ mem[t].at = "out" /\ heap[a] = "free"
        /\ heap' = [heap EXCEPT ![a] = "system"]
        /\ held' = held \cup {a}
        /\ UNCHANGED <<table, mem, dropped>>

\* Mutant: leaves the list in its slot.
FreeKeepsSlot(t) ==
    \E a \in held :
        /\ mem[t].at = "out"
        /\ held' = held \ {a}
        /\ mem' = [mem EXCEPT ![t] =
               Handling(IF \E s \in 1..Slots : table[s] = a THEN "freeHere" ELSE "freeSystem", a)]
        /\ UNCHANGED <<table, heap, dropped>>

\* macoblox_freeaddrinfo up to its choice: forget finds the list and empties
\* its slot, or the list is taken for the system's.
Free(t) ==
    \E a \in held :
        /\ mem[t].at = "out"
        /\ held' = held \ {a}
        /\ \/ /\ \E s \in 1..Slots : table[s] = a /\ table' = [table EXCEPT ![s] = None]
              /\ mem' = [mem EXCEPT ![t] = Handling("freeHere", a)]
           \/ /\ \A s \in 1..Slots : table[s] # a
              /\ mem' = [mem EXCEPT ![t] = Handling("freeSystem", a)]
              /\ UNCHANGED table
        /\ UNCHANGED <<heap, dropped>>

\* The entries go back to malloc, by this file's loop or the system's.
Release(t) ==
    /\ mem[t].at \in {"freeHere", "freeSystem"}
    /\ heap' = [heap EXCEPT ![mem[t].list] = "free"]
    /\ dropped' = dropped \ {mem[t].list}
    /\ mem' = [mem EXCEPT ![t] = NoMem]
    /\ UNCHANGED <<table, held>>

ListsNext == \E t \in Threads : Build(t) \/ Remember(t) \/ SystemList(t) \/ Free(t) \/ Release(t)

ListsSpec == ListsInit /\ [][ListsNext]_listVars
------------------------------------------------------------------------------
MemType == [at : {"out", "remember", "freeHere", "freeSystem"},
            list : Addresses \cup {None}, slot : 1..Slots + 1]

ListsTypeOK ==
    /\ heap \in [Addresses -> {"free", "ours", "system"}]
    /\ table \in [1..Slots -> Addresses \cup {None}]
    /\ held \subseteq Addresses /\ dropped \subseteq Addresses
    /\ mem \in [Threads -> MemType]

\* Every list goes back to the allocator it came from: freeaddrinfo frees here
\* what was built here and gives the system what is the system's, whatever
\* other threads build and free meanwhile and however addresses are reused.
\* Lists built while the table was full are the exception of the code.
RightAllocator ==
    \A t \in Threads :
        /\ mem[t].at = "freeHere" => heap[mem[t].list] = "ours"
        /\ mem[t].at = "freeSystem" => heap[mem[t].list] = "system" \/ mem[t].list \in dropped
==============================================================================
