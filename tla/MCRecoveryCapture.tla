------------------------- MODULE MCRecoveryCapture -------------------------
EXTENDS RecoveryCapture, TLC

CONSTANTS gpt, gpt_backup, boot, stray, good, alt, bad

\* One command for both GPT spans, one for each partition.
MCCommands == <<{gpt, gpt_backup}, {boot}>>

MCLineOrder == <<<<"pass1", boot>>, <<"pass2", boot>>,
                 <<"pass1", gpt>>, <<"pass2", gpt>>,
                 <<"pass1", gpt_backup>>, <<"pass2", gpt_backup>>>>

\* bad is malformed everywhere; the GPT spans are checked by ParsedGpt only.
MCWellFormed == [a \in Expected |-> IF a = boot THEN {good, alt} ELSE Bytes]

\* alt and good differ in bytes parse_gpt_pair does not report, in both spans.
MCParsedGpt == [pair \in Bytes \X Bytes |-> IF bad \in {pair[1], pair[2]} THEN "malformed" ELSE "table"]

MCCompleteGpts == {"table"}

RunSymmetry == Permutations(Runs)
=============================================================================
