------------------------------- MODULE DeepCopy -------------------------------
(***************************************************************************)
(* The generated copies of zz_generated.deepcopy.go.  Of a VaultMap only   *)
(* the slice PodsWithSecrets refers to memory that another may share (the  *)
(* metadata is copied by apimachinery): a VaultMap is the address of its   *)
(* array, Nil with a nil slice, and None is the nil pointer.  What is      *)
(* assigned by value, *out = *in, is left out.  An address is named after  *)
(* the place the array was made for.                                       *)
(***************************************************************************)
CONSTANTS Addresses, Nil, None

ASSUME CopyAssumption == Nil \notin Addresses /\ None \notin Addresses /\ Nil # None

Objects == Addresses \cup {Nil}

\* make and copy: an array of its own, at address a, unless the slice is nil.
MapStatusShallowCopy(in, a) == in
MapStatusDeepCopyInto(in, a) == IF in = Nil THEN Nil ELSE a
VaultMapDeepCopyInto(in, a) == MapStatusDeepCopyInto(in, a)
VaultMapDeepCopy(in, a) == IF in = None THEN None ELSE VaultMapDeepCopyInto(in, a)

\* Item by item; and what the arrays of the copies hold, array being the memory.
VaultMapListShallowCopy(in) == in
VaultMapListDeepCopyInto(in) == [a \in DOMAIN in |-> VaultMapDeepCopy(in[a], a)]
CopiedItems(in, array) ==
  [a \in {b \in DOMAIN in : in[b] \in Addresses} |-> array[in[a]]]
=============================================================================
