----------------------------- MODULE MCConfigFile -----------------------------
(***************************************************************************)
(* A small instance of ConfigFile for TLC: two setups with different       *)
(* arguments, a fresh host, a legacy and a current file, and environments  *)
(* that set none, one or several of the variables.                         *)
(***************************************************************************)
EXTENDS ConfigFile, TLC

CONSTANTS s1, s2, one, two, old, legacy, exported

MCSetup    == {s1, s2}
MCSymmetry == Permutations(MCSetup)
MCValue    == {one, two, old, legacy, exported}

Setting(K, S, v) == [k \in K |-> IF k \in S THEN v ELSE Unset]

\* The first brings a key file and a slug, the second a key command, the third
\* leaves what it can to the environment.
MCArguments ==
  {Setting(Asked, Asked \ {"private_key_cmd"}, one),
   Setting(Asked, {"client_id", "installations", "private_key_cmd"}, two),
   Setting(Asked, {"client_id", "installations"}, one)}

\* What is left of a longer text: a line cut in two, the keys after the first
\* two, or the whole section, which then is there twice.
MCTails == {{}, Asked \ {"client_id", "installations"}, Key}

MCEnvironment ==
  {Setting(LoadedKey, {}, exported),
   Setting(LoadedKey, {"private_key_path"}, exported),
   Setting(LoadedKey, {"client_id", "private_key", "installation_id"}, exported),
   Setting(LoadedKey, {"installations", "private_key_cmd", "app_slug"}, exported)}

MCFiles ==
  {EmptyFile,
   [rest |-> 1, app |-> Setting(Key, {"client_id", "installation_id", "private_key",
                                      "allowed_repos"}, legacy)],
   [rest |-> 1, app |-> Setting(Key, {"client_id", "installations", "private_key_path",
                                      "app_slug"}, old)]}
=============================================================================
