---------------------------- MODULE GcContract ----------------------------
(***************************************************************************)
(* What the managed heap promises the program (docs/garbage_collection.md):*)
(* an object lives at least as long as a root leads to it.  The state is   *)
(* the object graph and the roots; there are no phases, marks, thresholds  *)
(* or statistics.  The program may do anything that follows references;    *)
(* the collector may remove any object no root leads to, at any time, and  *)
(* one at a time, which the program cannot observe.                        *)
(***************************************************************************)
EXTENDS Integers, Sequences

CONSTANTS Address, Null

VARIABLES
  store,    \* object graph: address -> sequence of references
  roots     \* addresses held in root frames

contractVars == <<store, roots>>

Refs(a) == {store[a][i] : i \in DOMAIN store[a]} \ {Null}

\* A set of addresses that holds the roots and follows every reference.
Closed(S) ==
  /\ roots \subseteq S
  /\ \A a \in S \cap DOMAIN store : Refs(a) \subseteq S

\* The least closed set.
ReachableObjects ==
  {a \in Address : \A S \in SUBSET Address : Closed(S) => a \in S}

ContractInit ==
  /\ store = [a \in {} |-> << >>]
  /\ roots = {}

\* The collector frees an object that no root leads to.
Free(a) ==
  /\ a \in DOMAIN store \ ReachableObjects
  /\ store' = [b \in DOMAIN store \ {a} |-> store[b]]
  /\ UNCHANGED roots

\* The program, one operation at a time: it may receive one new object, and
\* whatever it writes into a reachable or new object or a root is null, the
\* new object, or an object it could already reach.
Program ==
  \E fresh \in SUBSET (Address \ DOMAIN store) :
    LET usable == ReachableObjects \cup fresh
    IN  /\ \A a, b \in fresh : a = b
        /\ DOMAIN store' = DOMAIN store \cup fresh
        /\ roots' \subseteq usable
        /\ \A a \in DOMAIN store \ ReachableObjects : store'[a] = store[a]
        /\ \A a \in DOMAIN store' \cap usable : \A i \in DOMAIN store'[a] :
             store'[a][i] \in usable \cup {Null}

ContractNext == Program \/ \E a \in Address : Free(a)

ContractSpec == ContractInit /\ [][ContractNext]_contractVars
=============================================================================
