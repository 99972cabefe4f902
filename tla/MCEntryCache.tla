---------------------------- MODULE MCEntryCache ----------------------------
(* Instances of the entry cache for TLC. *)
EXTENDS EntryCache, TLC

CONSTANTS usr, tmp, log

\* Two directories with a file of the same name in each.
MCDirs  == {<<usr>>, <<tmp>>}
MCPaths == {<<usr>>, <<tmp>>, <<usr, log>>, <<tmp, log>>}
MCUses  == {<<"create", <<usr, log>>>>, <<"remove", <<usr, log>>>>, <<"mkdir", <<usr>>>>,
            <<"remove", <<usr>>>>, <<"open", <<tmp, log>>>>, <<"open", <<usr, log>>>>}
MCDisk  == [g \in MCPaths |-> "full"]

Symm == Permutations(Procs) \cup Permutations(Slots)
=============================================================================
