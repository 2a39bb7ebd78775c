---------------------------- MODULE ConfigFiles -----------------------------
(***************************************************************************)
(* The files of a daemon: the YAML configuration (src/config/mod.rs,       *)
(* src/config/cli.rs) and the encrypted secret bundle                      *)
(* (src/config/secrets.rs), written by the generator of a headless         *)
(* configuration and by the daemons that were started with it.             *)
(*                                                                         *)
(* Processes share the disk.  write_secure() truncates a file and then     *)
(* writes it, two steps between which a process can be killed, or another  *)
(* one can read or write; a write can also stop half-way, on a full disk.  *)
(*                                                                         *)
(* A file has the name of a slug: <slug>.yaml and <slug>.bin.  Of the      *)
(* settings, one stands for all that are resolved alike: level for those   *)
(* with a built-in default, alias for the one that defaults to the slug,   *)
(* bundle and pass are optional, note is a key outside the schema.  A      *)
(* bundle is the number of its generation, which stands for the four       *)
(* standard keys; encryption is the passphrase that opens it.  A generated *)
(* passphrase has the number of its bundle.                                *)
(***************************************************************************)
EXTENDS Naturals, Sequences, Functions

CONSTANTS
  Procs,        \* processes: each is one command at a time
  Slugs,
  DefaultSlug,  \* the slug compiled into the binary
  Passes,       \* passphrases that the operator knows
  Args,         \* command lines
  Envs,         \* environments
  ByHand,       \* configuration files that the operator wrote
  MaxKeys,      \* bound: generations of a run
  MaxStarts,    \* bound: starts of a daemon
  MaxFails,     \* bound: writes that fail half-way
  None,         \* no value, no file
  Torn          \* a file that is not, or not all of, a bundle or YAML text

ASSUME DefaultIsASlug == DefaultSlug \in Slugs

ASSUME Bounds == MaxKeys \in Nat /\ MaxStarts \in Nat /\ MaxFails \in Nat

\* The order in which to_yaml_string() writes them.
FieldOrder == <<"note", "slug", "level", "alias", "bundle", "pass">>

Fields == Range(FieldOrder)

Nothing == [f \in Fields |-> None]

VARIABLES
  conf,    \* conf[s]: <slug>.yaml: None, Torn, or the fields in it
  bin,     \* bin[s]: <slug>.bin: None, Torn, or a bundle and its passphrase
  at,      \* what each process does
  path,    \* the configuration file it chose
  cfg,     \* its settings
  held,    \* the bundle in its memory
  keys,    \* history: how many bundles were generated
  starts,  \* history: how many daemons were started
  fails,   \* history: how many writes failed
  made,    \* history: the generations that returned Ok
  saved,   \* history: the settings last saved to a file, if it is whole
  owner    \* history: the generation that last opened or wrote a file, or 0

diskVars == <<conf, bin, saved, owner>>
procVars == <<at, path, cfg, held>>
pastVars == <<keys, starts, fails, made>>
vars == <<diskVars, procVars, pastVars>>

Bundles == 1 .. MaxKeys

\* Between two of its steps a process has truncated a file, or has it still
\* to write.
CutSteps == {"cut bundle", "cut config", "re-bundle", "re-config"}

GenSteps == {"bundle", "cut bundle", "config", "cut config"}

Steps == {"off", "checked", "up"} \cup GenSteps \cup CutSteps

-----------------------------------------------------------------------------
(* Resolution of the settings.                                             *)

\* Mutant: a setting that is nowhere given is left without a value.
ChosenNoDefault(f, args, env, yaml, default) ==
  IF args[f] # None THEN args[f]
  ELSE IF env[f] # None THEN env[f]
  ELSE IF f \in DOMAIN yaml THEN yaml[f] ELSE None

\* Command line, environment, file, default.
Chosen(f, args, env, yaml, default) ==
  IF args[f] # None THEN args[f]
  ELSE IF env[f] # None THEN env[f]
  ELSE IF f \in DOMAIN yaml THEN yaml[f] ELSE default

\* The settings; the slug has no default of its own kind, the alias has it.
Settings(args, env, yaml, slug0) ==
  LET slug == Chosen("slug", args, env, yaml, slug0)
      default == [Nothing EXCEPT !["slug"] = slug0, !["level"] = "info",
                                 !["alias"] = slug]
  IN  [f \in Fields |-> Chosen(f, args, env, yaml, default[f])]

\* The file is chosen before anything in it is read.
ConfPath(a) ==
  IF a.config # None THEN a.config
  ELSE IF a.set["slug"] # None THEN a.set["slug"] ELSE DefaultSlug

IsMapping(text) == text \notin {None, Torn} /\ text # << >>

\* load_yaml_mapping() fails on a file that is there and is no mapping.
Loads(s) == conf[s] = None \/ IsMapping(conf[s])

FromArgs(a, env, s) ==
  Settings(a.set, env, IF conf[s] = None THEN << >> ELSE conf[s], DefaultSlug)

\* from_yaml_str(), where a missing slug is "ma": what the import of a
\* BrowserIdentityExport starts from.
FromYaml(text) == Settings(Nothing, Nothing, text, "ma")

\* Mutant: a passphrase is not written to the file.
ToYamlUnlocked(c) ==
  [f \in {g \in Fields \ {"pass"} : c[g] # None} |-> c[f]]

\* Mutant: the path of the bundle is not written to the file.
ToYamlNoBundle(c) ==
  [f \in {g \in Fields \ {"bundle"} : c[g] # None} |-> c[f]]

ToYaml(c) == [f \in {g \in Fields : c[g] # None} |-> c[f]]

\* to_yaml_string_without_passphrase(): what the export holds.
ToLockedYaml(c) == ToYaml([c EXCEPT !["pass"] = None])

\* What is left of the text when its write stops in the n-th field or at its
\* end: the fields before, if that is still YAML.
CutAt(text, n) ==
  [f \in DOMAIN text \cap {FieldOrder[i] : i \in 1 .. n} |-> text[f]]

CutTexts(text) == {CutAt(text, n) : n \in 0 .. Len(FieldOrder)} \cup {Torn}

\* effective_secret_bundle()
BinPath(c) == IF c["bundle"] # None THEN c["bundle"] ELSE c["slug"]

\* SecretBundle::load() of a file under a passphrase.
Opened(s, pw) ==
  IF bin[s] \notin {None, Torn} /\ pw # None /\ bin[s].pass = pw
  THEN bin[s].bundle ELSE None


-----------------------------------------------------------------------------
(* The type invariant and the initial state.                               *)

Secrets == Passes \cup Bundles

\* Settings, and the texts that they are written as.
Choices == [note   : {"n", None},
            slug   : Slugs \cup {None},
            level  : {"info", "debug", None},
            alias  : Slugs \cup {None},
            bundle : Slugs \cup {None},
            pass   : Secrets \cup {None}]

Texts == {ToYaml(c) : c \in Choices}

Seals == [bundle : Bundles, pass : Secrets]

ASSUME MarksAreDistinct ==
  /\ None # Torn
  /\ \A m \in {None, Torn} : /\ m \notin Slugs \cup Secrets \cup Seals
                            /\ m \notin Texts /\ m # << >>
                            /\ m \notin {"n", "info", "debug"}

\* Nobody has guessed a passphrase that is yet to be generated.
ASSUME GeneratedIsNew == Passes \cap Bundles = {}

ASSUME InputsAreTyped ==
  /\ \A a \in Args :
       /\ a.config \in Slugs \cup {None}
       /\ a.set \in Choices /\ a.set["pass"] \in Passes \cup {None}
  /\ \A env \in Envs : env \in Choices /\ env["pass"] \in Passes \cup {None}
  /\ \A t \in ByHand : t \in Texts /\ ("pass" \in DOMAIN t => t["pass"] \in Passes)

Init ==
  /\ conf \in [Slugs -> ByHand \cup {None}]
  /\ bin = [s \in Slugs |-> None]
  /\ at = [p \in Procs |-> "off"]
  /\ path = [p \in Procs |-> None]
  /\ cfg = [p \in Procs |-> Nothing]
  /\ held = [p \in Procs |-> None]
  /\ keys = 0
  /\ starts = 0
  /\ fails = 0
  /\ made = {}
  /\ saved = [s \in Slugs |-> None]
  /\ owner = [conf |-> [s \in Slugs |-> 0], bin |-> [s \in Slugs |-> 0]]

-----------------------------------------------------------------------------
(* Steps of one process.                                                   *)

\* The process goes on with these settings and this bundle in its memory.
Goes(p, where, file, settings, bundle) ==
  /\ at' = [at EXCEPT ![p] = where]
  /\ path' = [path EXCEPT ![p] = file]
  /\ cfg' = [cfg EXCEPT ![p] = settings]
  /\ held' = [held EXCEPT ![p] = bundle]

Moves(p, where) == Goes(p, where, path[p], cfg[p], held[p])

Ends(p) == Goes(p, "off", None, Nothing, None)

\* The bundle that the process is generating, or 0 for a daemon.
Number(p) == IF at[p] \in GenSteps THEN held[p] ELSE 0

SetsConf(p, text, settings) ==
  /\ conf' = [conf EXCEPT ![path[p]] = text]
  /\ saved' = [saved EXCEPT ![path[p]] = settings]
  /\ owner' = [owner EXCEPT !.conf[path[p]] = Number(p)]
  /\ UNCHANGED bin

\* The end of a write.  If another process wrote to the file after this one
\* truncated it, and its text was longer, some of that text stays behind.
FillsConf(p) ==
  IF conf[path[p]] = << >> THEN SetsConf(p, ToYaml(cfg[p]), cfg[p])
  ELSE /\ \E text \in {ToYaml(cfg[p]), Torn} : conf' = [conf EXCEPT ![path[p]] = text]
       /\ saved' = [saved EXCEPT ![path[p]] = None]
       /\ owner' = [owner EXCEPT !.conf[path[p]] = 0]
       /\ UNCHANGED bin

\* All bundles are as long as another.
SetsBin(p, content) ==
  /\ bin' = [bin EXCEPT ![BinPath(cfg[p])] = content]
  /\ owner' = [owner EXCEPT !.bin[BinPath(cfg[p])] = Number(p)]
  /\ UNCHANGED <<conf, saved>>

Sealed(p) == [bundle |-> held[p], pass |-> cfg[p]["pass"]]

-----------------------------------------------------------------------------
(* gen_headless                                                            *)

\* The settings it writes; of the command line, those it looks at.
Generated(a, slug) ==
  [Nothing EXCEPT !["slug"] = slug, !["level"] = "info", !["alias"] = slug,
                  !["bundle"] = IF a.set["bundle"] # None
                                THEN a.set["bundle"] ELSE slug,
                  !["pass"] = a.set["pass"]]

GenCheckConfig(p, a) ==
  /\ at[p] = "off"
  /\ conf[ConfPath(a)] = None
  /\ Goes(p, "checked", ConfPath(a),
          Generated(a, IF a.set["slug"] # None THEN a.set["slug"]
                       ELSE DefaultSlug), None)
  /\ UNCHANGED <<diskVars, pastVars>>

\* Mutant: a bundle that is there is not looked for.
BundleIsFreeAlways(s) == TRUE

BundleIsFree(s) == bin[s] = None

GenCheckBundle(p) ==
  /\ at[p] = "checked"
  /\ keys < MaxKeys
  /\ IF BundleIsFree(BinPath(cfg[p]))
     THEN /\ keys' = keys + 1
          /\ Goes(p, "bundle", path[p],
                  IF cfg[p]["pass"] # None THEN cfg[p]
                  ELSE [cfg[p] EXCEPT !["pass"] = keys'],
                  keys')
     ELSE Ends(p) /\ UNCHANGED keys
  /\ UNCHANGED <<diskVars, starts, fails, made>>

OpenBundle(p) ==
  /\ at[p] = "bundle"
  /\ SetsBin(p, Torn)
  /\ Moves(p, "cut bundle")
  /\ UNCHANGED pastVars

WriteBundle(p) ==
  /\ at[p] = "cut bundle"
  /\ SetsBin(p, Sealed(p))
  /\ Moves(p, "config")
  /\ UNCHANGED pastVars

OpenConfig(p) ==
  /\ at[p] = "config"
  /\ SetsConf(p, << >>, None)
  /\ Moves(p, "cut config")
  /\ UNCHANGED pastVars

\* Other generations that are to write a file that this one wrote.
Rivals(p) ==
  {q \in Procs \ {p} : at[q] \in GenSteps \cup {"checked"}
     /\ (path[q] = path[p] \/ BinPath(cfg[q]) = BinPath(cfg[p]))}

WriteConfig(p) ==
  /\ at[p] = "cut config"
  /\ FillsConf(p)
  /\ Ends(p)
  /\ made' = made \cup {[id |-> held[p], path |-> path[p], cfg |-> cfg[p],
                        alone |-> Rivals(p) = {}]}
  /\ UNCHANGED <<keys, starts, fails>>

Generate(p) ==
  \/ \E a \in Args : GenCheckConfig(p, a)
  \/ GenCheckBundle(p)
  \/ OpenBundle(p) \/ WriteBundle(p) \/ OpenConfig(p) \/ WriteConfig(p)

-----------------------------------------------------------------------------
(* A daemon.                                                               *)

\* Config::from_args()
Start(p, a, env) ==
  /\ at[p] = "off"
  /\ Loads(ConfPath(a))
  /\ Goes(p, "up", ConfPath(a), FromArgs(a, env, ConfPath(a)), None)
  /\ starts < MaxStarts
  /\ starts' = starts + 1
  /\ UNCHANGED <<diskVars, keys, fails, made>>

\* SecretBundle::load() of the effective path with the configured passphrase
Unlock(p) ==
  /\ at[p] = "up"
  /\ held[p] = None
  /\ Opened(BinPath(cfg[p]), cfg[p]["pass"]) # None
  /\ Goes(p, "up", path[p], cfg[p], Opened(BinPath(cfg[p]), cfg[p]["pass"]))
  /\ UNCHANGED <<diskVars, pastVars>>

\* Config::save() fails before it opens anything if there is no path.
ReopenConfig(p) ==
  /\ at[p] = "up"
  /\ path[p] # None
  /\ SetsConf(p, << >>, None)
  /\ Moves(p, "re-config")
  /\ UNCHANGED pastVars

RewriteConfig(p) ==
  /\ at[p] = "re-config"
  /\ FillsConf(p)
  /\ Moves(p, "up")
  /\ UNCHANGED pastVars

\* SecretBundle::save() where it was loaded from
ReopenBundle(p) ==
  /\ at[p] = "up"
  /\ held[p] # None
  /\ cfg[p]["pass"] # None
  /\ SetsBin(p, Torn)
  /\ Moves(p, "re-bundle")
  /\ UNCHANGED pastVars

RewriteBundle(p) ==
  /\ at[p] = "re-bundle"
  /\ SetsBin(p, Sealed(p))
  /\ Moves(p, "up")
  /\ UNCHANGED pastVars

Daemon(p) ==
  \/ \E a \in Args, env \in Envs : Start(p, a, env)
  \/ Unlock(p)
  \/ ReopenConfig(p) \/ RewriteConfig(p) \/ ReopenBundle(p) \/ RewriteBundle(p)

-----------------------------------------------------------------------------
(* Faults.                                                                 *)

\* The write stops half-way, with an error: the generator gives up, and the
\* daemon goes on.
WriteFails(p) ==
  /\ at[p] \in CutSteps
  /\ IF at[p] \in {"cut bundle", "re-bundle"}
     THEN SetsBin(p, Torn)
     ELSE \E text \in CutTexts(ToYaml(cfg[p])) : SetsConf(p, text, None)
  /\ IF at[p] \in GenSteps THEN Ends(p) ELSE Moves(p, "up")
  /\ fails < MaxFails
  /\ fails' = fails + 1
  /\ UNCHANGED <<keys, starts, made>>

\* Killed, or ended.
Stop(p) ==
  /\ at[p] # "off"
  /\ Ends(p)
  /\ UNCHANGED <<diskVars, pastVars>>

Next == \E p \in Procs : Generate(p) \/ Daemon(p) \/ WriteFails(p) \/ Stop(p)

Spec == Init /\ [][Next]_vars

-----------------------------------------------------------------------------
(* Properties.                                                             *)

\* The settings that have a default have a value.
Given(c) == c["slug"] # None /\ c["level"] # None /\ c["alias"] # None

\* The type of every variable; what a process has chosen has its defaults.
TypeOK ==
  /\ conf \in [Slugs -> Texts \cup {None, Torn, << >>}]
  /\ bin \in [Slugs -> Seals \cup {None, Torn}]
  /\ at \in [Procs -> Steps]
  /\ path \in [Procs -> Slugs \cup {None}]
  /\ cfg \in [Procs -> Choices]
  /\ held \in [Procs -> Bundles \cup {None}]
  /\ \A p \in Procs : at[p] # "off" => path[p] # None /\ Given(cfg[p])
  /\ keys \in 0 .. MaxKeys
  /\ starts \in 0 .. MaxStarts
  /\ fails \in 0 .. MaxFails
  /\ made \subseteq [id : Bundles, path : Slugs, cfg : Choices, alone : BOOLEAN]
  /\ saved \in [Slugs -> Choices \cup {None}]
  /\ owner \in [conf : [Slugs -> 0 .. MaxKeys], bin : [Slugs -> 0 .. MaxKeys]]

\* The command line that only names a configuration file.
Naming(s) == [config |-> s, set |-> Nothing]

\* The command line agrees with what a generation wrote.
Fits(a, g) ==
  /\ ConfPath(a) = g.path
  /\ \A f \in {"slug", "bundle", "pass"} : a.set[f] \in {None, g.cfg[f]}

\* The bundle that a start gets to with this command line and nothing in the
\* environment.
Reached(a) ==
  LET s == ConfPath(a)
      c == FromArgs(a, Nothing, s)
  IN  IF Loads(s) THEN Opened(BinPath(c), c["pass"]) ELSE None

\* A generation that returned Ok, and whose two files nobody else has opened
\* or written since it opened them, can be started, from its configuration
\* file alone or from any command line that agrees with it, and finds its
\* own identity unlocked: whatever other generations, savers and failed
\* writes there were before and beside it.
GenerationIsUsable ==
  \A g \in made : owner.conf[g.path] = g.id /\ owner.bin[BinPath(g.cfg)] = g.id =>
    \A a \in Args \cup {Naming(g.path)} : Fits(a, g) =>
      Reached(a) = g.id

\* A configuration that was saved to its end, by a generator or by a daemon
\* with settings from anywhere, and not opened since, gives a restart that
\* names the file the same settings; and the export of a daemon gives them
\* to an import, but for the passphrase.
RestartResumes ==
  /\ \A s \in Slugs : saved[s] # None =>
       FromArgs(Naming(s), Nothing, s) = saved[s]
  /\ \A p \in Procs : at[p] = "up" =>
       FromYaml(ToLockedYaml(cfg[p])) = [cfg[p] EXCEPT !["pass"] = None]

\* The operator knows the passphrase, or finds it in a configuration file.
Known(pw) ==
  \/ pw \in Passes
  \/ \E s \in Slugs : IsMapping(conf[s]) /\ "pass" \in DOMAIN conf[s]
                       /\ conf[s]["pass"] = pw

\* The identity can be unlocked from the disk, as it is or as it is when
\* those that are writing are done.
Recoverable(i) == \E pw \in Secrets :
  /\ \/ \E s \in Slugs : bin[s] = [bundle |-> i, pass |-> pw]
     \/ \E p \in Procs : at[p] \in {"cut bundle", "re-bundle"} /\ held[p] = i
                          /\ cfg[p]["pass"] = pw
  /\ \/ Known(pw)
     \/ \E p \in Procs : at[p] \in {"config", "cut config", "re-config"}
                          /\ cfg[p]["pass"] = pw

\* The process ends, or goes on, with a file cut that it did not write.
LeavesCut(p) ==
  /\ at'[p] \in {"off", "up"}
  /\ \/ at[p] = "re-bundle" /\ bin'[BinPath(cfg[p])] # Sealed(p)
     \/ at[p] = "re-config" /\ conf'[path[p]] # ToYaml(cfg[p])

\* The process, which does not hold the identity, saves what it has.
SavesAnother(p, i) ==
  held[p] # i /\ {at[p], at'[p]} \cap {"re-config", "re-bundle"} # {}

\* An identity that was generated, with no other generation on its files as
\* it ended, is lost only when a save of one of its files is cut short or
\* saved over, or by the save of a daemon that holds no or another identity:
\* not by later generations, starts, wrong passphrases, or the saves of
\* daemons that hold it.
OnlyCutOrForeignSavesLose ==
  [][\A g \in made : g.alone /\ Recoverable(g.id) /\ ~Recoverable(g.id)' =>
       \E p \in Procs : LeavesCut(p) \/ SavesAnother(p, g.id)]_vars

=============================================================================
