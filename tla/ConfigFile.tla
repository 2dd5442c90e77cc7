----------------------------- MODULE ConfigFile -----------------------------
(***************************************************************************)
(* The configuration of a local client or broker host (config.py, and      *)
(* _setup of cli.py): a section of Hermes' config.yaml that `ghapp setup`  *)
(* rewrites, twice, by reading the file, truncating it and writing it      *)
(* again, with no lock; environment variables that override it; and        *)
(* load_config, which combines them.  Hermes, whose file it is, is         *)
(* external.                                                               *)
(***************************************************************************)
EXTENDS Integers

CONSTANTS
  Setup,        \* processes that run `ghapp setup`
  Value,        \* values of configuration keys
  Unset,        \* a key that is absent or empty
  Arguments,    \* what setup is given by flags or at its prompts
  Environment,  \* the environments the processes may share
  Files,        \* the files that may exist to begin with
  Broken,       \* a text that is no YAML
  Tails,        \* the keys that may stand in the tail of a longer text
  MaxEdit       \* bound on the edits Hermes makes

KeyKind == {"private_key", "private_key_path", "private_key_cmd"}

\* The keys setup asks for, all keys of the section that load_config reads,
\* and the legacy ones a rewrite drops (allowed_repos stands for both).
Asked == {"client_id", "installations", "private_key_path", "private_key_cmd",
          "app_slug"}
LoadedKey  == Asked \cup {"installation_id", "private_key"}
Key    == LoadedKey \cup {"allowed_repos"}

Section == [Key -> Value \cup {Unset}]

\* rest numbers the versions of the other sections; 0: they are not there.
File == [rest : Nat, app : Section]

\* An absent file, or one truncated to nothing, reads as an empty mapping.
EmptyFile == [rest |-> 0, app |-> [k \in Key |-> Unset]]

ASSUME ConfigAssumption ==
  /\ Unset \notin Value
  /\ Arguments \subseteq [Asked -> Value \cup {Unset}]
  /\ Environment \subseteq [LoadedKey -> Value \cup {Unset}]
  /\ Files \subseteq File
  /\ Broken \notin File
  /\ Tails \subseteq SUBSET Key
  /\ MaxEdit \in Nat

VARIABLES
  env,          \* the environment variables
  file,         \* config.yaml
  pc,           \* pc[s] : where setup s stands
  pass,         \* pass[s] : its first or its second write
  args,         \* args[s] : what it was given
  data,         \* data[s] : the file as it read it
  latest,       \* the latest version of the other sections
  overlapped,   \* overlapped[s] : another setup ran during this one, or Hermes
                \* wrote between its truncation and its write
  clobbered,    \* another writer's work was overwritten, or a write cut short
  overlaid      \* a write left the tail of the text it landed on

vars == <<env, file, pc, pass, args, data, latest, overlapped, clobbered, overlaid>>

Active == {"reading", "truncating", "writing"}

Running(s) == pc[s] # "idle"

-----------------------------------------------------------------------------
\* os.environ.get(...) or section.get(...)
either(k, app) == IF env[k] # Unset THEN env[k] ELSE app[k]

\* mutant: the legacy id is preferred
LegacyFirst(app) ==
  IF either("installation_id", app) # Unset THEN either("installation_id", app)
  ELSE either("installations", app)

read_installations(app) ==
  IF either("installations", app) # Unset THEN either("installations", app)
  ELSE either("installation_id", app)

\* An inline key before a path before a command, each from either place.
read_key_source(app) ==
  LET kind == IF either("private_key", app) # Unset THEN "private_key"
              ELSE IF either("private_key_path", app) # Unset THEN "private_key_path"
              ELSE "private_key_cmd"
  IN  [kind |-> kind, value |-> either(kind, app)]

\* What load_config returns, or that it raises ConfigurationError.
load_config(app) ==
  [client_id |-> either("client_id", app), installations |-> read_installations(app),
   key_source |-> read_key_source(app), app_slug |-> either("app_slug", app)]

loads(app) ==
  /\ load_config(app).client_id # Unset
  /\ load_config(app).installations # Unset
  /\ load_config(app).key_source.value # Unset

\* mutant: empty values leave the keys of the file alone
MergedKeepingEmpty(app, values) ==
  [k \in Key |-> IF k = "allowed_repos" THEN Unset
                 ELSE IF k \in DOMAIN values /\ values[k] # Unset THEN values[k]
                 ELSE app[k]]

\* write_github_app_config: a value replaces the key, an empty one removes it.
merged(app, values) ==
  [k \in Key |-> IF k = "allowed_repos" THEN Unset
                 ELSE IF k \in DOMAIN values THEN values[k]
                 ELSE app[k]]

\* The values of the two writes of setup; what no flag gives, the environment
\* does.
values(s) ==
  IF pass[s] = 1
  THEN [k \in Asked |-> IF args[s][k] # Unset THEN args[s][k] ELSE env[k]]
  ELSE [k \in {"installation_id"} |-> Unset]

\* Setup refuses to go on without a client, installations and a key source.
complete(a) ==
  /\ \A k \in {"client_id", "installations"} : a[k] # Unset \/ env[k] # Unset
  /\ \E k \in {"private_key_path", "private_key_cmd"} : a[k] # Unset \/ env[k] # Unset

-----------------------------------------------------------------------------
NoArgs == [k \in Asked |-> Unset]

Init ==
  /\ env \in Environment
  /\ file \in Files
  /\ pc = [s \in Setup |-> "idle"]
  /\ pass = [s \in Setup |-> 1]
  /\ args = [s \in Setup |-> NoArgs]
  /\ data = [s \in Setup |-> EmptyFile]
  /\ latest = file.rest
  /\ overlapped = [s \in Setup |-> FALSE]
  /\ clobbered = FALSE
  /\ overlaid = FALSE

Begin(s, a) ==
  /\ pc[s] = "idle"
  /\ complete(a)
  /\ pc' = [pc EXCEPT ![s] = "reading"]
  /\ pass' = [pass EXCEPT ![s] = 1]
  /\ args' = [args EXCEPT ![s] = a]
  /\ overlapped' = [t \in Setup |->
       IF t = s THEN \E u \in Setup \ {s} : Running(u) ELSE overlapped[t] \/ Running(t)]
  /\ UNCHANGED <<env, file, data, latest, clobbered, overlaid>>

\* mutant: an empty file is read as None
ReadNone(s) ==
  /\ pc[s] = "reading"
  /\ file # Broken
  /\ pc' = [pc EXCEPT ![s] = "truncating"]
  /\ data' = [data EXCEPT ![s] = IF file = EmptyFile THEN Unset ELSE file]
  /\ clobbered' = (clobbered \/ \E t \in Setup : pc[t] = "writing")
  /\ UNCHANGED <<env, file, pass, args, latest, overlapped, overlaid>>

\* A text that is no YAML raises, and setup ends.
ReadFile(s) ==
  /\ pc[s] = "reading"
  /\ file # Broken
  /\ pc' = [pc EXCEPT ![s] = "truncating"]
  /\ data' = [data EXCEPT ![s] = file]
  /\ clobbered' = (clobbered \/ \E t \in Setup : pc[t] = "writing")
  /\ UNCHANGED <<env, file, pass, args, latest, overlapped, overlaid>>

\* write_text opens the file and truncates it,
Truncate(s) ==
  /\ pc[s] = "truncating"
  /\ pc' = [pc EXCEPT ![s] = "writing"]
  /\ file' = EmptyFile
  /\ UNCHANGED <<env, pass, args, data, latest, overlapped, clobbered, overlaid>>

\* What setup s writes.
text(s) == [data[s] EXCEPT !.app = merged(@, values(s))]

\* What own leaves when it is written at the start of other, and is shorter: no
\* YAML, or the other sections of either and, of the keys, those of the tail as
\* other has them.
overlays(own, other) ==
  {Broken} \cup
  {[rest |-> r, app |-> [k \in Key |-> IF k \in tail THEN other.app[k] ELSE own.app[k]]] :
     r \in {own.rest, other.rest}, tail \in Tails}

\* What is in the file once own is written into it: own, if nobody wrote since
\* the last truncation or what he wrote is not longer.
written(own) ==
  {own} \cup (IF file = EmptyFile THEN {}
             ELSE IF file = Broken THEN {Broken} ELSE overlays(own, file))

\* mutant: the section is written without the rest of the file
WriteSectionOnly(s) ==
  /\ pc[s] = "writing"
  /\ file' = [EmptyFile EXCEPT !.app = merged(data[s].app, values(s))]
  /\ overlaid' = overlaid
  /\ pc' = [pc EXCEPT ![s] = IF pass[s] = 1 THEN "reading" ELSE "done"]
  /\ pass' = [pass EXCEPT ![s] = 2]
  /\ data' = [data EXCEPT ![s] = EmptyFile]
  /\ UNCHANGED <<env, args, latest, overlapped, clobbered>>

\* and writes the merged text at its start, in one write of less than a buffer,
\* wherever another setup's text ends by then.
Write(s) ==
  /\ pc[s] = "writing"
  /\ file' \in written(text(s))
  /\ overlaid' = (overlaid \/ file' # text(s))
  /\ pc' = [pc EXCEPT ![s] = IF pass[s] = 1 THEN "reading" ELSE "done"]
  /\ pass' = [pass EXCEPT ![s] = 2]
  /\ data' = [data EXCEPT ![s] = EmptyFile]
  /\ UNCHANGED <<env, args, latest, overlapped, clobbered>>

\* Setup ends: done, or killed, or by an OSError or a YAMLError, at any point.
End(s) ==
  /\ pc' = [pc EXCEPT ![s] = "idle"]
  /\ pass' = [pass EXCEPT ![s] = 1]
  /\ args' = [args EXCEPT ![s] = NoArgs]
  /\ data' = [data EXCEPT ![s] = EmptyFile]
  /\ overlapped' = [overlapped EXCEPT ![s] = FALSE]
  /\ UNCHANGED <<env, file, latest, overlaid>>

Finish(s) == pc[s] = "done" /\ End(s) /\ UNCHANGED clobbered

Interrupted(s) ==
  /\ pc[s] \in Active
  /\ End(s)
  /\ clobbered' = (clobbered \/ pc[s] = "writing")

\* Hermes rewrites its own sections and keeps github_app as it finds it.
HermesEdit ==
  /\ latest < MaxEdit
  /\ file # Broken
  /\ latest' = latest + 1
  /\ file' = [file EXCEPT !.rest = latest + 1]
  /\ clobbered' = (clobbered \/ \E s \in Setup : pc[s] \in {"truncating", "writing"})
  /\ overlapped' = [s \in Setup |-> overlapped[s] \/ pc[s] = "writing"]
  /\ UNCHANGED <<env, pc, pass, args, data, overlaid>>

Next ==
  \/ \E s \in Setup :
       \/ \E a \in Arguments : Begin(s, a)
       \/ ReadFile(s) \/ Truncate(s) \/ Write(s)
       \/ Finish(s) \/ Interrupted(s)
  \/ HermesEdit

Spec == Init /\ [][Next]_vars

-----------------------------------------------------------------------------
\* The file, the setups and what they read are well typed (config.py:123-159).
TypeOK ==
  /\ env \in Environment
  /\ file \in File \cup {Broken}
  /\ pc \in [Setup -> Active \cup {"idle", "done"}]
  /\ pass \in [Setup -> {1, 2}]
  /\ args \in [Setup -> Arguments \cup {NoArgs}]
  /\ data \in [Setup -> File]
  /\ latest \in Nat
  /\ overlapped \in [Setup -> BOOLEAN]
  /\ clobbered \in BOOLEAN
  /\ overlaid \in BOOLEAN

\* The other sections of Hermes' file survive every setup, interrupted ones
\* and overlapping ones included, unless a write was cut short, a setup read
\* what another had truncated, Hermes wrote between a read and its write, or
\* two setups had both truncated the file before either wrote and the text of
\* the first was the longer (config.py:143-158).
RestSurvives ==
  overlaid \/ clobbered \/ file.rest = latest \/ \E s \in Setup : pc[s] = "writing"

\* When a setup that ran alone is done, whatever it found (a legacy file, one
\* earlier setups left empty, half migrated or mixed), load_config yields what it
\* was given, except where the environment or an inline key of the file takes
\* precedence (cli.py:279-306, config.py:139-159, 178-215).
SetupTakesEffect ==
  \A s \in Setup : pc[s] = "done" /\ ~ overlapped[s] =>
    LET loaded == load_config(file.app)
        Of(k)  == IF env[k] # Unset THEN env[k] ELSE args[s][k]
    IN  /\ file # Broken
        /\ loads(file.app)
        /\ loaded.client_id = Of("client_id")
        /\ loaded.installations = Of("installations")
        /\ loaded.app_slug = Of("app_slug")
        /\ loaded.key_source.kind # "private_key" =>
             loaded.key_source.value = Of(loaded.key_source.kind)

\* At every moment, with setups overlapping, interrupted or between their two
\* writes, the keys setup asks for come together from one run of setup or from
\* the file there was. Two runs are put together only where both had truncated
\* the file before either wrote and the first text was the longer: no setup
\* mixes keys by merging what it read (config.py:143-158).
NeverMixed ==
  \/ overlaid
  \/ \E f \in Files \cup {EmptyFile} : \A k \in Asked : file.app[k] = f.app[k]
  \/ \E a \in Arguments : \A k \in Asked :
       file.app[k] = IF a[k] # Unset THEN a[k] ELSE env[k]

-----------------------------------------------------------------------------
\* "Environment variables override" the config file (README.md:48-51): a key
\* source that the environment gives is the one used.
EnvironmentOverrides ==
  file # Broken /\ (\E k \in KeyKind : env[k] # Unset) =>
    env[read_key_source(file.app).kind] # Unset
=============================================================================
