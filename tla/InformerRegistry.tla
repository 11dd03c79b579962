---------------------------- MODULE InformerRegistry ----------------------------
(***************************************************************************)
(* What a shared informer factory promises its users, without its lock and *)
(* its loops: an informer is created for a type when somebody asks for it, *)
(* and only an informer that was asked for is launched, once, however      *)
(* often and by however many goroutines Start is called.                   *)
(*                                                                         *)
(* InformerFactory implements this module; WebhookProcess uses it.         *)
(***************************************************************************)
EXTENDS Naturals

CONSTANT Types           \* the resource types (reflect.TypeOf of the objects)

VARIABLES
  registered,            \* the types an informer exists for
  launches               \* how often "go informer.Run" ran for each type

registryVars == <<registered, launches>>

Init ==
  /\ registered = {}
  /\ launches = [t \in Types |-> 0]

\* InformerFor: the informer of type t exists from now on.
Request(t) ==
  /\ registered' = registered \cup {t}
  /\ UNCHANGED launches

\* One iteration of Start's loop that finds an informer not yet started.
Launch(t) ==
  /\ t \in registered
  /\ launches[t] = 0
  /\ launches' = [launches EXCEPT ![t] = 1]
  /\ UNCHANGED registered

Next == \E t \in Types : Request(t) \/ Launch(t)

Spec == Init /\ [][Next]_registryVars
=============================================================================
