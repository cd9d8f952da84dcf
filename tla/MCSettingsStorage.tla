-------------------------- MODULE MCSettingsStorage --------------------------
(* Instances of SettingsStorage for TLC. *)
EXTENDS SettingsStorage

CONSTANTS k1, k2, v1, v2

\* Nothing, or one of the two keys, is in a file that was not written to its end.
PartsDef == {{}, {k1}}

=============================================================================
