---------------------------- MODULE RegistrySet ----------------------------
(***************************************************************************)
(* The allocation registry as its users see it: a set of objects, and a    *)
(* lookup that finds exactly its members at all times.                     *)
(***************************************************************************)
CONSTANT Object

VARIABLES
  registered,   \* objects in the registry
  found         \* objects find_allocation answers for

registryVars == <<registered, found>>

RegistryInit == registered = {} /\ found = {}

Add(o) ==
  /\ o \notin registered
  /\ registered' = registered \cup {o}
  /\ found' = registered'

Remove(freed) ==
  /\ freed \subseteq registered
  /\ registered' = registered \ freed
  /\ found' = registered'

RegistryNext ==
  \/ \E o \in Object : Add(o)
  \/ \E freed \in SUBSET registered : Remove(freed)

RegistrySpec == RegistryInit /\ [][RegistryNext]_registryVars
=============================================================================
