--------------------------- MODULE MCAlertMarker ---------------------------
(* AlertMarker on a few files and handlers. *)
EXTENDS AlertMarker, TLC

CONSTANTS h1, h2, h3,        \* handlers
          co, csv, pod       \* marker files

MCHandlers == {h1, h2, h3}
OneFile    == {pod}
ThreeFiles == {co, csv, pod}

(* Every handler runs the checks of the file: informer generations that    *)
(* overlap, cleanup goroutines, hub goroutines.                            *)
SharedCallers == [f \in OneFile |-> MCHandlers]

(* Each file is checked by one handler, as within one informer generation; *)
(* a handler checks several files one after the other.                     *)
SerialCallers == (co :> {h1}) @@ (csv :> {h1}) @@ (pod :> {h2})

AllButRemove == SystemCalls \ {"remove"}
NoFaults     == {}
=============================================================================
