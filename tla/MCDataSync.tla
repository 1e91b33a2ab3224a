----------------------------- MODULE MCDataSync -----------------------------
(* Instances of DataSync for TLC.                                          *)
EXTENDS DataSync, TLC

RunSymmetry == Permutations(Syncs)

\* Two manifests: the narrow one does not know the type of relation r1.
NarrowOrWide == [m \in Manifests |-> IF m = "narrow" THEN Objects ELSE Items]
\* Manifests that differ only in permissions admit the same items.
SameTypes == [m \in Manifests |-> Items]

\* The modes the edge plugin's task starts a run with.
PluginModes == {{"Manifest", "Full"}, {"Manifest", "Diff"}, {"Manifest", "Watermark"}, {"Manifest"}}
DiffOrFull == {{"Manifest", "Full"}, {"Manifest", "Diff"}}
DiffOnly == {{"Manifest", "Diff"}}
=============================================================================
