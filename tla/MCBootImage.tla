----------------------------- MODULE MCBootImage -----------------------------
EXTENDS BootImage

CONSTANTS plain, recovery

\* Two of the four files; the second is the one that is packed.
MCArtifactOrder == <<"Image", "Image.gz">>

\* The two images docs/boot-image.md describes: a new kernel only, and the one
\* for the recovery handoff.
MCOptions == {[personalized |-> FALSE, cmdline |-> plain],
              [personalized |-> TRUE, cmdline |-> recovery]}
=============================================================================
