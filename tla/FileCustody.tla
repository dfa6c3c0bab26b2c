----------------------------- MODULE FileCustody -----------------------------
(***************************************************************************)
(* What the service promises about the files it produces, whatever saves,  *)
(* moves, messages and crashes run call by call.  A file is put once, in   *)
(* the private bucket, and the server is told where.  It is moved by being *)
(* copied, to the same path of a bucket that was asked for, before it is   *)
(* given up where it was, and the server is told of its new place.  It is  *)
(* removed altogether only when its deletion was asked for, and then never *)
(* comes back.  Of a file whose handling was crossed nothing is promised   *)
(* here.                                                                   *)
(***************************************************************************)
CONSTANTS Files, Locations, None

VARIABLES
  places,  \* places[f]: where f is
  told,    \* told[f]: where the server was told that f is, None at first
  asked,   \* files for which PUBLIC was ever asked
  deleted, \* files whose deletion was asked for
  crossed  \* files whose handling was crossed

vars == <<places, told, asked, deleted, crossed>>

Init == /\ places = [f \in Files |-> {}]
        /\ told = [f \in Files |-> None]
        /\ asked = {} /\ deleted = {} /\ crossed = {}

Rest(f) == places'[f] = places[f] /\ told'[f] = told[f]

Put(f) == /\ told[f] = None /\ places[f] = {}
          /\ \E l \in Locations : l.bucket = "private" /\ places'[f] = {l}
          /\ told'[f] = None

Tell(f) == /\ f \notin deleted
           /\ places[f] = {told'[f]} /\ places'[f] = places[f]

Copy(f) == /\ f \notin deleted
           /\ places[f] = {told[f]}
           /\ \E l \in Locations : /\ l.path = told[f].path
                                   /\ l.bucket = "public" => f \in asked
                                   /\ places'[f] = {told[f], l}
           /\ told'[f] = told[f]

GiveUp(f) == /\ f \notin deleted
             /\ told[f] \in places[f]
             /\ places'[f] = places[f] \ {told[f]} /\ places'[f] # {}
             /\ told'[f] = told[f]

(* A file is known to be at one place when its deletion is asked for.      *)
AskDeletion(f) == f \notin deleted /\ f \in deleted' /\ places[f] = {told[f]} /\ Rest(f)

Delete(f) == f \in deleted /\ places'[f] = {} /\ told'[f] = told[f]

Handle(f) == \/ AskDeletion(f)
             \/ /\ f \in deleted' => f \in deleted
                /\ Rest(f) \/ Put(f) \/ Tell(f) \/ Copy(f) \/ GiveUp(f) \/ Delete(f)

(* One message may delete several files.                                   *)
Next == /\ asked \subseteq asked' /\ deleted \subseteq deleted' /\ crossed \subseteq crossed'
        /\ \A f \in Files \ crossed' : Handle(f)

Spec == Init /\ [][Next]_vars
=============================================================================
