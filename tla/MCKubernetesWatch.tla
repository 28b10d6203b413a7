------------------------- MODULE MCKubernetesWatch -------------------------
(* KubernetesWatch on two pods and three of their events: enough to add    *)
(* both and to end or delete the second one between the pages of a list,   *)
(* or to follow one pod from its start to its deletion.  The job that is   *)
(* known is the one of the pod listed last.                                *)
EXTENDS KubernetesWatch

OneOrTwo == {1, 2}
LastPod == {PodCount}
=============================================================================
