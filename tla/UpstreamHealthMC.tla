-------------------------- MODULE UpstreamHealthMC --------------------------
(***************************************************************************)
(* Small instances of UpstreamHealth: one minute of the program is one     *)
(* tick; five minutes are shortened to ProbeInterval ticks.                *)
(***************************************************************************)
EXTENDS UpstreamHealth, TLC

Cooldown(source, duration) == [source |-> source, duration |-> duration]

\* Long enough for two early probes of a reset-derived cooldown.
LongCooldowns == {Cooldown("reset-derived", 5), Cooldown("retry-after", 2)}
ShortCooldowns == {Cooldown("reset-derived", 2), Cooldown("default", 1)}

Interchangeable == Permutations(Attempts)

=============================================================================
