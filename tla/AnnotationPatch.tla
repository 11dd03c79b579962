---------------------------- MODULE AnnotationPatch ----------------------------
(***************************************************************************)
(* createPatch and updateAnnotation of pkg/webhook/webhook.go, and the API *)
(* server that applies the RFC 6902 patch they return to the pod under     *)
(* review.  A key is a sequence of characters, because escaping is about   *)
(* them; the order in which Go's range visits the map is arbitrary.        *)
(***************************************************************************)
EXTENDS SequencesExt

CONSTANTS
  Keys,                  \* annotation keys: sequences of characters
  Values,                \* annotation values, "" among them
  Nil                    \* no annotations at all: a nil map, a missing member

ASSUME AnnotationAssumption ==
  /\ Keys \subseteq Seq(STRING)
  /\ Nil \notin UNION {[K -> Values] : K \in SUBSET Keys}

VARIABLES
  annotations,           \* the pod's annotations at the API server
  original,              \* history: annotations as they were sent for review
  target,                \* updateAnnotation's first argument
  added, todo,           \* its second, and the keys the range has to visit
  patch,                 \* the operations so far
  applied,               \* how many of them the API server has applied
  refused                \* the API server rejected an operation

vars == <<annotations, original, target, added, todo, patch, applied, refused>>

Maps == UNION {[K -> Values] : K \in SUBSET Keys}
Set(m, key, value) == [k \in DOMAIN m \cup {key} |-> IF k = key THEN value ELSE m[k]]
Override(m, n) == [k \in DOMAIN m \cup DOMAIN n |-> IF k \in DOMAIN n THEN n[k] ELSE m[k]]

\* strings.Replace of one character by two, and its inverse.
ReplaceChar(in, char, pair) ==
  FlattenSeq([i \in DOMAIN in |-> IF in[i] = char THEN pair ELSE <<in[i]>>])
ReplacePair(in, pair, char) ==
  LET at == {i \in 1..Len(in) - 1 : SubSeq(in, i, i + 1) = pair}
  IN  FlattenSeq([i \in DOMAIN in |-> IF i \in at THEN <<char>>
                                      ELSE IF i - 1 \in at THEN <<>> ELSE <<in[i]>>])

EscapeSlashFirst(in) ==
  ReplaceChar(ReplaceChar(in, "/", <<"~", "1">>), "~", <<"~", "0">>)
EscapeJSONPointerValue(in) ==
  ReplaceChar(ReplaceChar(in, "~", <<"~", "0">>), "/", <<"~", "1">>)
\* The API server decodes a path segment (RFC 6901, section 4).
UnescapeJSONPointerValue(in) ==
  ReplacePair(ReplacePair(in, <<"~", "1">>, "/"), <<"~", "0">>, "~")

\* The pod's JSON decodes to a nil map exactly when it has no annotations.
Init ==
  /\ annotations \in Maps \cup {Nil} /\ original = annotations
  /\ target = annotations
  /\ added \in Maps /\ todo = DOMAIN added
  /\ patch = <<>> /\ applied = 0 /\ refused = FALSE

\* The first iteration with a nil target creates the whole map.  An operation's
\* path is given below /metadata/annotations: no segment, or that of one key.
CreateMap(key) ==
  /\ target = Nil
  /\ target' = <<>>
  /\ patch' = Append(patch, [op |-> "add", path |-> <<>>, value |-> [k \in {key} |-> added[k]]])

ReplaceAlways(key) == "replace"
Op(key) == IF key \in DOMAIN target /\ target[key] # "" THEN "replace" ELSE "add"

\* The others set one key; the value may be the empty string.
SetKey(key) ==
  /\ target # Nil
  /\ patch' = Append(patch, [op |-> Op(key), path |-> <<EscapeJSONPointerValue(key)>>,
                             value |-> added[key]])
  /\ UNCHANGED target

UpdateAnnotation(key) ==
  /\ key \in todo
  /\ todo' = todo \ {key}
  /\ CreateMap(key) \/ SetKey(key)
  /\ UNCHANGED <<annotations, original, added, applied, refused>>

\* The API server applies the returned patch, one operation after the other.
\* "replace" needs the member; both need the map it is in.
Apply ==
  LET operation == patch[applied + 1]
      key == UnescapeJSONPointerValue(operation.path[1])
  IN  /\ todo = {} /\ applied < Len(patch) /\ ~refused
      /\ IF operation.path = <<>>
         THEN annotations' = operation.value /\ UNCHANGED refused
         ELSE IF annotations = Nil \/ (operation.op = "replace" /\ key \notin DOMAIN annotations)
              THEN refused' = TRUE /\ UNCHANGED annotations
              ELSE annotations' = Set(annotations, key, operation.value) /\ UNCHANGED refused
      /\ applied' = applied + 1
      /\ UNCHANGED <<original, target, added, todo, patch>>

Next == (\E key \in todo : UpdateAnnotation(key)) \/ Apply

Spec == Init /\ [][Next]_vars
-----------------------------------------------------------------------------
(* Properties.                                                             *)

\* The API server accepts every operation, in whatever order the map was
\* visited: none refers to a member or a map that is not there yet.
PatchAccepted == ~refused

\* Applied as a whole, the patch sets every added annotation under its own key,
\* whatever characters the key has, and leaves the others alone.
PatchSetsAnnotations ==
  (todo = {} /\ applied = Len(patch)) =>
    annotations = IF added = <<>> THEN original
                  ELSE IF original = Nil THEN added ELSE Override(original, added)
=============================================================================
