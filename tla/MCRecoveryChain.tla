-------------------------- MODULE MCRecoveryChain --------------------------
EXTENDS RecoveryChain

CONSTANTS gpt, good, alt, bad, e1

\* One artifact, written by one command: the file the GPT is parsed from.
MCCommands == <<{gpt}>>

MCLineOrder == <<<<"pass1", gpt>>, <<"pass2", gpt>>>>

MCWellFormed == [a \in Expected |-> Bytes]

\* Files that are not there do not parse.
MCParsedGpt == [pair \in (Bytes \cup {Absent}) \X (Bytes \cup {Absent}) |->
                   IF {bad, Absent} \cap {pair[1], pair[2]} # {} THEN "malformed" ELSE "table"]

MCCompleteGpts == {"table"}

MCDiskOf == [x \in Dirs \cup Roots |-> IF x = e1 THEN "usb" ELSE "internal"]
=============================================================================
