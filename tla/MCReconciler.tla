---------------------------- MODULE MCReconciler ----------------------------
(* Reconciler with one or two custom resources. *)
EXTENDS Reconciler, TLC

CONSTANTS a, b,         \* OcpHealthCheck names
          g1, g2,       \* generations
          pod, lif      \* a container of a pod; the address of a Trident backend

Of(suspend, mail, hub) == [suspend |-> suspend, mail |-> mail, hub |-> hub]

On        == Of(FALSE, "on", FALSE)
Muted     == Of(FALSE, "muted", FALSE)
Invalid   == Of(FALSE, "invalid", FALSE)
Paused    == Of(TRUE, "on", FALSE)
Hub       == Of(FALSE, "on", TRUE)

AllSpecs     == {On, Muted, Invalid, Paused, Hub}
OnMutedHub   == {On, Muted, Hub}
OnOrPaused   == {On, Paused}

OneCR  == {a}
TwoCRs == {a, b}

TwoGens   == {g1, g2}

JustPod   == {pod}
JustLif   == {lif}
PodAndLif == {pod, lif}
Nothing   == {}

Symmetry == Permutations(TwoCRs) \cup Permutations(TwoGens)
=============================================================================
