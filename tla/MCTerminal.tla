----------------------------- MODULE MCTerminal -----------------------------
(***************************************************************************)
(* Model checking of Terminal: two processes of one group, a ring of three *)
(* cells, and one key, which is the kill character with shift.             *)
(***************************************************************************)
EXTENDS Terminal

MCCooked == [canon |-> TRUE, isig |-> TRUE, cr |-> "icrnl"]
MCRaw    == [canon |-> FALSE, isig |-> FALSE, cr |-> "igncr"]
MCSettings == {MCCooked, MCRaw}

MCKeys       == {"2"}
MCKbdUs      == [k \in MCKeys |-> "x"]
MCKbdUsShift == [k \in MCKeys |-> "kill"]
MCPgrp       == <<1, 1>>
=============================================================================
