-------------------------- MODULE ConfigFileProofs --------------------------
(***************************************************************************)
(* Proofs about ConfigFile, for any number of setups that overlap and are  *)
(* interrupted, any environment, any arguments and any file there was:     *)
(* what a setup leaves of Hermes' file, of the section and of its own      *)
(* arguments.                                                              *)
(***************************************************************************)
EXTENDS ConfigFile, TLAPS

\* What one run of setup, given a, puts in the keys it asks for.
GivenBy(a, app) == \A k \in Asked : app[k] = IF a[k] # Unset THEN a[k] ELSE env[k]

\* The keys setup asks for come from one file there was, or from one setup.
Whole(app) ==
  \/ \E f \in Files \cup {EmptyFile} : \A k \in Asked : app[k] = f.app[k]
  \/ \E a \in Arguments : GivenBy(a, app)

\* So do those of the file and of what the setups hold of it, unless a write
\* left the tail of another's text.
WholeInv ==
  \/ overlaid
  \/ Whole(file.app) /\ \A s \in Setup : Whole(data[s].app)

\* What a setup will write back has the other sections as they now are, and so
\* has the file while no setup is about to write it.
RestInv ==
  \/ overlaid \/ clobbered
  \/ /\ file.rest = latest \/ \E s \in Setup : pc[s] = "writing"
     /\ \A s \in Setup : pc[s] \in {"truncating", "writing"} => data[s].rest = latest

\* A setup that nobody overlapped is the only one: it writes into a file that
\* is still empty, and what its first write put into the section is there until
\* its second has removed the legacy id.
AloneInv(s) ==
  /\ Running(s) => args[s] \in Arguments /\ complete(args[s])
  /\ Running(s) /\ ~ overlapped[s] =>
       /\ \A t \in Setup \ {s} : ~ Running(t)
       /\ pc[s] = "writing" => file = EmptyFile
       /\ pass[s] = 2 /\ pc[s] = "reading" => file \in File /\ GivenBy(args[s], file.app)
       /\ pass[s] = 2 /\ pc[s] \in {"truncating", "writing"} => GivenBy(args[s], data[s].app)
       /\ pc[s] = "done" =>
            /\ file \in File /\ GivenBy(args[s], file.app)
            /\ file.app["installation_id"] = Unset

ConfigInv == TypeOK /\ WholeInv /\ RestInv /\ \A s \in Setup : AloneInv(s)

-----------------------------------------------------------------------------
\* What merged puts in each key.

LEMMA ValuesOf ==
  ASSUME NEW s \in Setup
  PROVE  /\ pass[s] = 1 =>
              /\ DOMAIN values(s) = Asked
              /\ \A k \in Asked :
                   values(s)[k] = IF args[s][k] # Unset THEN args[s][k] ELSE env[k]
         /\ pass[s] # 1 =>
              /\ DOMAIN values(s) = {"installation_id"}
              /\ values(s)["installation_id"] = Unset
BY DEF values

LEMMA MergedKeys ==
  ASSUME NEW s \in Setup, NEW app
  PROVE  /\ pass[s] = 1 => GivenBy(args[s], merged(app, values(s)))
         /\ pass[s] # 1 =>
              /\ merged(app, values(s))["installation_id"] = Unset
              /\ \A k \in Asked : merged(app, values(s))[k] = app[k]
BY ValuesOf DEF merged, GivenBy, Key, LoadedKey, Asked

LEMMA MergedType ==
  ASSUME TypeOK, NEW s \in Setup, NEW app \in Section
  PROVE  merged(app, values(s)) \in Section
<1>1. \A k \in Asked : args[s][k] \in Value \cup {Unset} /\ env[k] \in Value \cup {Unset}
  BY ConfigAssumption DEF TypeOK, NoArgs, LoadedKey
<1>2. \A k \in DOMAIN values(s) : values(s)[k] \in Value \cup {Unset}
  BY <1>1, ValuesOf
<1> QED
  BY <1>2 DEF merged, Section

LEMMA EmptyFileType == EmptyFile \in File
BY DEF EmptyFile, File, Section

\* What a setup writes, and what a write leaves: its own text, or one that is
\* marked as put together.

LEMMA TextType ==
  ASSUME TypeOK, NEW s \in Setup
  PROVE  /\ text(s) \in File
         /\ text(s).app = merged(data[s].app, values(s))
         /\ text(s).rest = data[s].rest
<1>1. merged(data[s].app, values(s)) \in Section
  BY MergedType DEF TypeOK, File
<1> QED
  BY <1>1 DEF text, TypeOK, File

LEMMA WrittenType ==
  ASSUME TypeOK, NEW own \in File
  PROVE  /\ written(own) \subseteq File \cup {Broken}
         /\ file = EmptyFile => written(own) = {own}
<1>1. CASE file \in File
  <2>1. overlays(own, file) \subseteq File \cup {Broken}
    BY <1>1 DEF overlays, File, Section
  <2> QED
    BY <2>1 DEF written
<1>2. CASE file \notin File
  BY <1>2, ConfigAssumption, EmptyFileType DEF TypeOK, written
<1> QED
  BY <1>1, <1>2

LEMMA WriteOwn ==
  ASSUME TypeOK, NEW s \in Setup, Write(s), ~ overlaid'
  PROVE  /\ ~ overlaid /\ file' \in File
         /\ file'.app = merged(data[s].app, values(s))
         /\ file'.rest = data[s].rest
BY TextType DEF Write, TypeOK

LEMMA EmptyFileWhole == Whole(EmptyFile.app)
BY DEF Whole

-----------------------------------------------------------------------------
\* Each step preserves the types.
LEMMA ConfigTypeNext == TypeOK /\ [Next]_vars => TypeOK'
<1> SUFFICES ASSUME TypeOK, [Next]_vars PROVE TypeOK'
  OBVIOUS
<1>1. ASSUME NEW s \in Setup, NEW a \in Arguments, Begin(s, a) PROVE TypeOK'
  BY <1>1 DEF TypeOK, Begin, Active, Running
<1>2. ASSUME NEW s \in Setup, ReadFile(s) PROVE TypeOK'
  BY <1>2 DEF TypeOK, ReadFile, Active
<1>3. ASSUME NEW s \in Setup, Truncate(s) PROVE TypeOK'
  BY <1>3, EmptyFileType DEF TypeOK, Truncate, Active
<1>4. ASSUME NEW s \in Setup, Write(s) PROVE TypeOK'
  <2>1. file' \in File \cup {Broken}
    BY <1>4, TextType, WrittenType DEF Write
  <2>2. overlaid' \in BOOLEAN
    BY <1>4 DEF Write
  <2> QED
    BY <1>4, <2>1, <2>2, EmptyFileType DEF TypeOK, Write, Active
<1>5. ASSUME NEW s \in Setup, Finish(s) \/ Interrupted(s) PROVE TypeOK'
  <2>1. End(s) /\ clobbered' \in BOOLEAN
    BY <1>5 DEF TypeOK, Finish, Interrupted
  <2> QED
    BY <2>1, EmptyFileType DEF TypeOK, End
<1>6. CASE HermesEdit
  <2>1. file' \in File /\ latest' \in Nat
    BY <1>6 DEF TypeOK, HermesEdit, File
  <2> QED
    BY <1>6, <2>1 DEF TypeOK, HermesEdit
<1>7. CASE UNCHANGED vars
  BY <1>7 DEF TypeOK, vars
<1> QED
  BY <1>1, <1>2, <1>3, <1>4, <1>5, <1>6, <1>7 DEF Next

\* Each step leaves the section, and what the setups hold of it, whole.
LEMMA WholeNext == TypeOK /\ WholeInv /\ (\A s \in Setup : AloneInv(s)) /\ [Next]_vars => WholeInv'
<1> SUFFICES ASSUME TypeOK, WholeInv, \A s \in Setup : AloneInv(s), [Next]_vars
             PROVE  WholeInv'
  OBVIOUS
<1> SUFFICES ASSUME ~ overlaid' PROVE WholeInv'
  BY DEF WholeInv
<1>a. ~ overlaid
  BY DEF Next, Begin, ReadFile, Truncate, Write, Finish, Interrupted, End, HermesEdit, vars
<1>b. Whole(file.app) /\ \A s \in Setup : Whole(data[s].app)
  BY <1>a DEF WholeInv
<1>1. env' = env
  BY DEF Next, Begin, ReadFile, Truncate, Write, Finish, Interrupted, End, HermesEdit, vars
<1>2. ASSUME NEW app, Whole(app) PROVE Whole(app)'
  BY <1>1, <1>2 DEF Whole, GivenBy
<1> SUFFICES Whole(file'.app) /\ \A s \in Setup : Whole(data'[s].app)
  BY <1>1 DEF WholeInv, Whole, GivenBy
<1>3. ASSUME NEW s \in Setup, Write(s) PROVE Whole(file'.app)
  <2>1. file'.app = merged(data[s].app, values(s))
    BY <1>3, WriteOwn
  <2>2. CASE pass[s] = 1
    <3>1. args[s] \in Arguments
      BY <1>3 DEF AloneInv, Running, Write
    <3> QED
      BY <2>1, <2>2, <3>1, MergedKeys DEF Whole
  <2>3. CASE pass[s] # 1
    BY <1>b, <2>1, <2>3, MergedKeys DEF Whole, GivenBy
  <2> QED
    BY <2>2, <2>3
<1>4. Whole(file'.app)
  <2>1. CASE file' = file
    BY <1>b, <2>1
  <2>2. CASE file' = EmptyFile
    BY <2>2, EmptyFileWhole
  <2>3. CASE HermesEdit
    BY <1>b, <2>3 DEF HermesEdit, TypeOK, File
  <2> QED
    BY <1>3, <2>1, <2>2, <2>3
    DEF Next, Begin, ReadFile, Truncate, Finish, Interrupted, End, vars
<1>5. ASSUME NEW t \in Setup PROVE Whole(data'[t].app)
  <2>1. data'[t] \in {data[t], file, EmptyFile}
    BY DEF Next, Begin, ReadFile, Truncate, Write, Finish, Interrupted, End, HermesEdit,
           vars, TypeOK
  <2> QED
    BY <1>b, <2>1, EmptyFileWhole
<1> QED
  BY <1>4, <1>5

\* Each step keeps the other sections, or records that it may not have.
LEMMA RestNext == TypeOK /\ RestInv /\ [Next]_vars => RestInv'
<1> SUFFICES ASSUME TypeOK, RestInv, [Next]_vars, ~ clobbered', ~ overlaid'
             PROVE  RestInv'
  BY DEF RestInv
<1>1. ~ clobbered /\ ~ overlaid
  BY DEF Next, Begin, ReadFile, Truncate, Write, Finish, Interrupted, End, HermesEdit, vars,
         TypeOK
<1>2. /\ file.rest = latest \/ \E s \in Setup : pc[s] = "writing"
      /\ \A s \in Setup : pc[s] \in {"truncating", "writing"} => data[s].rest = latest
  BY <1>1 DEF RestInv
<1>3. ASSUME NEW s \in Setup, NEW a \in Arguments, Begin(s, a) PROVE RestInv'
  BY <1>2, <1>3 DEF TypeOK, Begin, RestInv
<1>4. ASSUME NEW s \in Setup, ReadFile(s) PROVE RestInv'
  <2>1. file.rest = latest
    BY <1>2, <1>4 DEF ReadFile
  <2> QED
    BY <1>2, <1>4, <2>1 DEF TypeOK, ReadFile, RestInv
<1>5. ASSUME NEW s \in Setup, Truncate(s) PROVE RestInv'
  BY <1>2, <1>5 DEF TypeOK, Truncate, RestInv
<1>6. ASSUME NEW s \in Setup, Write(s) PROVE RestInv'
  <2>1. file'.rest = latest' /\ pc'[s] \notin {"truncating", "writing"}
    BY <1>2, <1>6, WriteOwn DEF TypeOK, Write
  <2>2. \A t \in Setup \ {s} : pc'[t] = pc[t] /\ data'[t] = data[t]
    BY <1>6 DEF TypeOK, Write
  <2> QED
    BY <1>2, <1>6, <2>1, <2>2 DEF Write, RestInv
<1>7. ASSUME NEW s \in Setup, Finish(s) \/ Interrupted(s) PROVE RestInv'
  <2>1. End(s) /\ pc[s] # "writing"
    BY <1>7 DEF Finish, Interrupted
  <2> QED
    BY <1>2, <2>1 DEF TypeOK, End, RestInv
<1>8. CASE HermesEdit
  <2>1. \A s \in Setup : pc[s] \notin {"truncating", "writing"}
    BY <1>8 DEF HermesEdit
  <2> QED
    BY <1>8, <2>1 DEF TypeOK, File, HermesEdit, RestInv
<1>9. CASE UNCHANGED vars
  BY <1>2, <1>9 DEF vars, RestInv
<1> QED
  BY <1>3, <1>4, <1>5, <1>6, <1>7, <1>8, <1>9 DEF Next

\* AloneInv of the next state, of a step that leaves the environment alone.
AloneNow(s) ==
  pc'[s] # "idle" =>
    /\ args'[s] \in Arguments /\ complete(args'[s])
    /\ ~ overlapped'[s] =>
         /\ \A t \in Setup \ {s} : pc'[t] = "idle"
         /\ pc'[s] = "writing" => file' = EmptyFile
         /\ pass'[s] = 2 /\ pc'[s] = "reading" =>
              file' \in File /\ GivenBy(args'[s], file'.app)
         /\ pass'[s] = 2 /\ pc'[s] \in {"truncating", "writing"} =>
              GivenBy(args'[s], data'[s].app)
         /\ pc'[s] = "done" =>
              /\ file' \in File /\ GivenBy(args'[s], file'.app)
              /\ file'.app["installation_id"] = Unset

\* Each step keeps what a setup that runs alone has put into the section.
LEMMA AloneNext ==
  TypeOK /\ (\A s \in Setup : AloneInv(s)) /\ [Next]_vars => \A s \in Setup : AloneInv(s)'
<1> SUFFICES ASSUME TypeOK, \A s \in Setup : AloneInv(s), [Next]_vars,
                    NEW s \in Setup
             PROVE  AloneInv(s)'
  OBVIOUS
<1>1. env' = env
  BY DEF Next, Begin, ReadFile, Truncate, Write, Finish, Interrupted, End, HermesEdit, vars
<1> SUFFICES AloneNow(s)
  BY <1>1 DEF AloneNow, AloneInv, Running, GivenBy, complete
<1>2. /\ pc[s] # "idle" => args[s] \in Arguments /\ complete(args[s])
      /\ pc[s] # "idle" /\ ~ overlapped[s] =>
           /\ \A t \in Setup \ {s} : pc[t] = "idle"
           /\ pc[s] = "writing" => file = EmptyFile
           /\ pass[s] = 2 /\ pc[s] = "reading" =>
                file \in File /\ GivenBy(args[s], file.app)
           /\ pass[s] = 2 /\ pc[s] \in {"truncating", "writing"} =>
                GivenBy(args[s], data[s].app)
           /\ pc[s] = "done" =>
                /\ file \in File /\ GivenBy(args[s], file.app)
                /\ file.app["installation_id"] = Unset
  BY DEF AloneInv, Running
<1>3. ASSUME NEW a \in Arguments, Begin(s, a) PROVE AloneNow(s)
  <2>1. /\ pc'[s] = "reading" /\ pass'[s] = 1 /\ args'[s] = a /\ complete(a)
        /\ \A t \in Setup \ {s} : pc'[t] = pc[t]
        /\ overlapped'[s] = \E u \in Setup \ {s} : pc[u] # "idle"
    BY <1>3 DEF TypeOK, Begin, Running
  <2> QED
    BY <2>1 DEF AloneNow
<1>4. CASE ReadFile(s)
  <2>1. /\ pc[s] = "reading" /\ pc'[s] = "truncating" /\ data'[s] = file
        /\ \A t \in Setup \ {s} : pc'[t] = pc[t]
        /\ UNCHANGED <<pass, args, overlapped>>
    BY <1>4 DEF TypeOK, ReadFile
  <2> QED
    BY <1>2, <2>1 DEF AloneNow
<1>5. CASE Truncate(s)
  <2>1. /\ pc[s] = "truncating" /\ pc'[s] = "writing" /\ file' = EmptyFile
        /\ \A t \in Setup \ {s} : pc'[t] = pc[t]
        /\ UNCHANGED <<pass, args, overlapped, data>>
    BY <1>5 DEF TypeOK, Truncate
  <2> QED
    BY <1>2, <2>1 DEF AloneNow
<1>6. CASE Write(s)
  <2>1. /\ pc[s] = "writing"
        /\ pc'[s] = IF pass[s] = 1 THEN "reading" ELSE "done"
        /\ pass[s] \in {1, 2}
        /\ \A t \in Setup \ {s} : pc'[t] = pc[t]
        /\ UNCHANGED <<args, overlapped>>
    BY <1>6 DEF TypeOK, Write
  <2>2. CASE overlapped[s]
    BY <1>2, <2>1, <2>2 DEF AloneNow
  <2>3. CASE ~ overlapped[s]
    <3>1. file' = text(s)
      BY <1>2, <1>6, <2>1, <2>3, TextType, WrittenType DEF Write
    <3>2. file' \in File /\ file'.app = merged(data[s].app, values(s))
      BY <3>1, TextType
    <3>3. pass[s] = 1 => GivenBy(args[s], file'.app)
      BY <3>2, MergedKeys
    <3>4. pass[s] = 2 =>
            /\ file'.app["installation_id"] = Unset
            /\ GivenBy(args[s], data[s].app) => GivenBy(args[s], file'.app)
      BY <3>2, MergedKeys DEF GivenBy
    <3> QED
      BY <1>2, <2>1, <3>2, <3>3, <3>4 DEF AloneNow
  <2> QED
    BY <2>2, <2>3
<1>7. CASE Finish(s) \/ Interrupted(s)
  BY <1>7 DEF TypeOK, Finish, Interrupted, End, AloneNow
<1>8. ASSUME NEW t \in Setup \ {s}, NEW a \in Arguments, Begin(t, a) PROVE AloneNow(s)
  <2>1. /\ pc'[s] = pc[s] /\ args'[s] = args[s]
        /\ overlapped'[s] = (overlapped[s] \/ pc[s] # "idle")
    BY <1>8 DEF TypeOK, Begin, Running
  <2> QED
    BY <1>2, <2>1 DEF AloneNow
<1>9. ASSUME NEW t \in Setup \ {s},
             ReadFile(t) \/ Truncate(t) \/ Write(t) \/ Finish(t) \/ Interrupted(t)
      PROVE  AloneNow(s)
  <2>1. pc[t] # "idle"
    BY <1>9 DEF ReadFile, Truncate, Write, Finish, Interrupted, Active
  <2>2. pc'[s] = pc[s] /\ args'[s] = args[s] /\ overlapped'[s] = overlapped[s]
    BY <1>9 DEF TypeOK, ReadFile, Truncate, Write, Finish, Interrupted, End
  <2> QED
    BY <1>2, <2>1, <2>2 DEF AloneNow
<1>10. CASE HermesEdit
  <2>1. /\ file' \in File /\ file'.app = file.app
        /\ overlapped'[s] = (overlapped[s] \/ pc[s] = "writing")
        /\ UNCHANGED <<pc, pass, args, data>>
    BY <1>10 DEF TypeOK, File, HermesEdit
  <2> QED
    BY <1>2, <2>1 DEF AloneNow
<1>11. CASE UNCHANGED vars
  BY <1>2, <1>11 DEF vars, AloneNow
<1> QED
  BY <1>3, <1>4, <1>5, <1>6, <1>7, <1>8, <1>9, <1>10, <1>11 DEF Next

-----------------------------------------------------------------------------
LEMMA ConfigInitial == Init => ConfigInv
<1> SUFFICES ASSUME Init PROVE ConfigInv
  OBVIOUS
<1>1. TypeOK
  BY EmptyFileType, ConfigAssumption DEF Init, TypeOK, File
<1>2. WholeInv
  BY EmptyFileWhole DEF Init, WholeInv, Whole
<1>3. RestInv /\ \A s \in Setup : AloneInv(s)
  BY DEF Init, RestInv, AloneInv, Running
<1> QED
  BY <1>1, <1>2, <1>3 DEF ConfigInv

LEMMA ConfigNext == ConfigInv /\ [Next]_vars => ConfigInv'
BY ConfigTypeNext, WholeNext, RestNext, AloneNext DEF ConfigInv

\* ConfigInv holds of every state, with setups overlapping and cut short at any
\* point (config.py:123-159).
THEOREM ConfigInvariant == Spec => []ConfigInv
BY ConfigInitial, ConfigNext, PTL DEF Spec

\* The file, the setups and what they read are always well typed.
THEOREM ConfigTypeCorrect == Spec => []TypeOK
<1>1. ConfigInv => TypeOK
  BY DEF ConfigInv
<1> QED
  BY <1>1, ConfigInvariant, PTL

\* Hermes' other sections survive, however many setups overlap, but for the
\* cases RestSurvives names (config.py:143-158).
THEOREM OtherSectionsSurvive == Spec => []RestSurvives
<1>1. ConfigInv => RestSurvives
  BY DEF ConfigInv, RestInv, RestSurvives
<1> QED
  BY <1>1, ConfigInvariant, PTL

\* The section never holds keys of two runs of setup together
\* (config.py:148-158).
THEOREM SectionIsWhole == Spec => []NeverMixed
<1>1. ConfigInv => NeverMixed
  BY DEF ConfigInv, WholeInv, Whole, GivenBy, NeverMixed
<1> QED
  BY <1>1, ConfigInvariant, PTL

\* Whatever file a setup found, once it is done alone load_config yields what
\* it was given, but for what takes precedence (cli.py:279-306).
THEOREM AloneTakesEffect == Spec => []SetupTakesEffect
<1>1. ConfigInv => SetupTakesEffect
  <2> SUFFICES ASSUME ConfigInv, NEW s \in Setup, pc[s] = "done", ~ overlapped[s]
               PROVE  LET loaded == load_config(file.app)
                          Of(k)  == IF env[k] # Unset THEN env[k] ELSE args[s][k]
                      IN  /\ file # Broken
                          /\ loads(file.app)
                          /\ loaded.client_id = Of("client_id")
                          /\ loaded.installations = Of("installations")
                          /\ loaded.app_slug = Of("app_slug")
                          /\ loaded.key_source.kind # "private_key" =>
                               loaded.key_source.value = Of(loaded.key_source.kind)
    BY DEF SetupTakesEffect
  <2>1. /\ complete(args[s]) /\ GivenBy(args[s], file.app)
        /\ file.app["installation_id"] = Unset
        /\ file # Broken
    BY ConfigAssumption DEF ConfigInv, AloneInv, Running
  <2>2. \A k \in Asked : either(k, file.app) = IF env[k] # Unset THEN env[k] ELSE args[s][k]
    BY <2>1 DEF either, GivenBy
  <2>3. /\ either("client_id", file.app) # Unset
        /\ either("installations", file.app) # Unset
        /\ \/ either("private_key_path", file.app) # Unset
           \/ either("private_key_cmd", file.app) # Unset
    BY <2>1, <2>2 DEF complete, Asked
  <2>4. /\ read_installations(file.app) = either("installations", file.app)
        /\ read_key_source(file.app).value = either(read_key_source(file.app).kind, file.app)
        /\ read_key_source(file.app).value # Unset
        /\ read_key_source(file.app).kind
             \in {"private_key", "private_key_path", "private_key_cmd"}
    BY <2>3 DEF read_installations, read_key_source
  <2> QED
    BY <2>1, <2>2, <2>3, <2>4 DEF loads, load_config, Asked
<1> QED
  BY <1>1, ConfigInvariant, PTL

\* No key is inlined in a file, where setup would leave it, and an environment
\* that gives a key source gives an inline key or a path.
PathsFromEnvironment ==
  /\ \A f \in Files : f.app["private_key"] = Unset
  /\ \A e \in Environment :
       (\E k \in KeyKind : e[k] # Unset) =>
         e["private_key"] # Unset \/ e["private_key_path"] # Unset

\* The environment does override the key source of the file then, with any
\* setups in progress: setup inlines no key, and a path hides every command
\* (config.py:197-210).
THEOREM EnvironmentWinsWithPaths ==
  ASSUME PathsFromEnvironment
  PROVE  Spec => []EnvironmentOverrides
<1> DEFINE NoInlineKey ==
             /\ file \in File => file.app["private_key"] = Unset
             /\ \A s \in Setup : data[s].app["private_key"] = Unset
<1>1. Init => NoInlineKey
  BY DEF Init, PathsFromEnvironment, EmptyFile, Key, LoadedKey
<1>2. TypeOK /\ NoInlineKey /\ [Next]_vars => NoInlineKey'
  <2> SUFFICES ASSUME TypeOK, NoInlineKey, [Next]_vars PROVE NoInlineKey'
    OBVIOUS
  <2>1. EmptyFile.app["private_key"] = Unset
    BY DEF EmptyFile, Key, LoadedKey
  <2>2. ASSUME NEW s \in Setup, NEW a \in Arguments, Begin(s, a)
        PROVE  NoInlineKey'
    BY <2>2 DEF Begin
  <2>3. ASSUME NEW s \in Setup, ReadFile(s)
        PROVE  NoInlineKey'
    BY <2>3 DEF ReadFile, TypeOK
  <2>4. ASSUME NEW s \in Setup, Truncate(s)
        PROVE  NoInlineKey'
    BY <2>1, <2>4 DEF Truncate
  <2>5. ASSUME NEW s \in Setup, Write(s)
        PROVE  NoInlineKey'
    <3>1. text(s).app["private_key"] = Unset
      <4>1. "private_key" \notin DOMAIN values(s)
        BY DEF values, Asked
      <4>2. "private_key" \in Key
        BY DEF Key, LoadedKey
      <4> QED
        BY <4>1, <4>2, TextType DEF merged
    <3>2. file' \in File => file'.app["private_key"] = Unset
      <4>1. CASE file' = text(s)
        BY <3>1, <4>1
      <4>2. CASE file' \in overlays(text(s), file) /\ file \in File
        BY <3>1, <4>2, ConfigAssumption DEF overlays, Key, LoadedKey
      <4>3. CASE file' = Broken
        BY <4>3, ConfigAssumption
      <4> QED
        BY <2>5, <4>1, <4>2, <4>3 DEF Write, written, TypeOK
    <3> QED
      BY <2>1, <2>5, <3>2 DEF Write, TypeOK
  <2>6. ASSUME NEW s \in Setup, Finish(s) \/ Interrupted(s)
        PROVE  NoInlineKey'
    BY <2>1, <2>6 DEF Finish, Interrupted, End, TypeOK
  <2>7. CASE HermesEdit
    BY <2>7 DEF HermesEdit, TypeOK, File
  <2>8. CASE UNCHANGED vars
    BY <2>8 DEF vars
  <2> QED
    BY <2>2, <2>3, <2>4, <2>5, <2>6, <2>7, <2>8 DEF Next
<1>3. TypeOK /\ NoInlineKey => EnvironmentOverrides
  BY DEF TypeOK, PathsFromEnvironment, EnvironmentOverrides, read_key_source, either
<1> HIDE DEF NoInlineKey
<1> QED
  BY <1>1, <1>2, <1>3, ConfigTypeCorrect, PTL DEF Spec
=============================================================================
