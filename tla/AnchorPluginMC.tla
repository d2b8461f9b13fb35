--------------------------- MODULE AnchorPluginMC ---------------------------
(***************************************************************************)
(* Environments AnchorPlugin is checked in, from the chat whose user waits *)
(* for each receipt to a failing host with an operator at work.            *)
(***************************************************************************)
EXTENDS AnchorPlugin

Patient    == {}
Untidy     == {"late", "wipe"}
Impatient  == {"queue"}
Overlapping == {"overlap"}
Faulty     == {"overlap", "faults"}
Anything   == AllQuirks

=============================================================================
