---------------------------- MODULE MCInstallation ----------------------------
(* Two releases; an image that carries one catalog, and a feed that has     *)
(* another and, under the first one's ID, other content.                    *)
EXTENDS Installation

MCReleases == 1 .. MaxReleases
MCImporters == MCReleases \cup {collector}
MCSettings == {[provisions |-> TRUE, feed |-> FALSE, faults |-> 1, refreshes |-> 0],
               [provisions |-> FALSE, feed |-> TRUE, faults |-> 2, refreshes |-> 1]}
MCBundled == [id |-> 1, digest |-> 1]
MCFeed == {[id |-> 1, digest |-> 2], [id |-> 2, digest |-> 1]}
=============================================================================
