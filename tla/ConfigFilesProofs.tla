-------------------------- MODULE ConfigFilesProofs --------------------------
(***************************************************************************)
(* Theorems about ConfigFiles, for any processes, slugs, passphrases,      *)
(* command lines, environments and hand-written files.                     *)
(***************************************************************************)
EXTENDS ConfigFiles, TLAPS

-----------------------------------------------------------------------------
(* Settings and texts.                                                     *)

LEMMA FieldsAre == Fields = {"note", "slug", "level", "alias", "bundle", "pass"}
BY DEF Fields, FieldOrder, Range

\* The values of a setting that are not None.
Typed(c) ==
  /\ c["note"] \in {"n", None} /\ c["level"] \in {"info", "debug", None}
  /\ c["slug"] \in Slugs \cup {None} /\ c["alias"] \in Slugs \cup {None}
  /\ c["bundle"] \in Slugs \cup {None} /\ c["pass"] \in Secrets \cup {None}

LEMMA ChoiceIsTyped ==
  ASSUME NEW c \in Choices
  PROVE  c = [f \in Fields |-> c[f]] /\ Typed(c)
BY FieldsAre DEF Choices, Typed

LEMMA TypedIsChoice ==
  ASSUME NEW c, c = [f \in Fields |-> c[f]], Typed(c)
  PROVE  c \in Choices
BY FieldsAre DEF Choices, Typed

LEMMA NothingType == Nothing \in Choices /\ \A f \in Fields : Nothing[f] = None
<1>1. \A f \in Fields : Nothing[f] = None
  BY DEF Nothing
<1>2. Typed(Nothing)
  BY <1>1, FieldsAre DEF Typed
<1>3. Nothing = [f \in Fields |-> Nothing[f]]
  BY DEF Nothing
<1> QED  BY <1>1, <1>2, <1>3, TypedIsChoice

LEMMA TextOfChoice ==
  ASSUME NEW c \in Choices
  PROVE  /\ ToYaml(c) \in Texts /\ ToYaml(c) \notin {None, Torn}
         /\ DOMAIN ToYaml(c) = {f \in Fields : c[f] # None}
         /\ \A f \in DOMAIN ToYaml(c) : ToYaml(c)[f] = c[f]
<1>1. ToYaml(c) \in Texts
  BY DEF Texts
<1> QED  BY <1>1, MarksAreDistinct DEF ToYaml

LEMMA GivenIsMapping ==
  ASSUME NEW c \in Choices, Given(c)
  PROVE  IsMapping(ToYaml(c))
<1>1. "slug" \in DOMAIN ToYaml(c)
  BY TextOfChoice, FieldsAre DEF Given
<1>2. "slug" \notin DOMAIN << >>
  OBVIOUS
<1> QED  BY <1>1, <1>2, TextOfChoice DEF IsMapping

\* A text that is cut is the text of fewer settings.
LEMMA CutType ==
  ASSUME NEW c \in Choices, NEW text \in CutTexts(ToYaml(c))
  PROVE  text = Torn \/ (text \in Texts /\ ("pass" \in DOMAIN text => text["pass"] = c["pass"]))
<1>1. CASE text = Torn
  BY <1>1
<1>2. CASE \E n \in 0 .. Len(FieldOrder) : text = CutAt(ToYaml(c), n)
  <2>1. PICK n \in 0 .. Len(FieldOrder) : text = CutAt(ToYaml(c), n)
    BY <1>2
  <2> DEFINE kept == {FieldOrder[i] : i \in 1 .. n}
             less == [f \in Fields |-> IF f \in kept THEN c[f] ELSE None]
  <2> HIDE DEF kept
  <2>2. text = [f \in DOMAIN ToYaml(c) \cap kept |-> ToYaml(c)[f]]
    BY <2>1 DEF CutAt, kept
  <2>3. text = [f \in {g \in Fields : c[g] # None} \cap kept |-> c[f]]
    BY <2>2 DEF ToYaml
  <2>4. {g \in Fields : less[g] # None} = {g \in Fields : c[g] # None} \cap kept
    OBVIOUS
  <2>5. text = ToYaml(less)
    BY <2>3, <2>4 DEF ToYaml
  <2>6. less \in Choices
    <3>1. \A f \in Fields : less[f] \in {c[f], None}
      OBVIOUS
    <3>2. Typed(less)
      BY <3>1, FieldsAre, ChoiceIsTyped DEF Typed
    <3> QED  BY <3>2, TypedIsChoice
  <2>7. "pass" \in DOMAIN text => text["pass"] = c["pass"]
    BY <2>3
  <2> QED  BY <2>5, <2>6, <2>7 DEF Texts
<1> QED  BY <1>1, <1>2 DEF CutTexts

\* What a file can give: a text, or nothing if there is none.
Readable == Texts \cup {<< >>}

LEMMA TextIsTyped ==
  ASSUME NEW yaml \in Readable
  PROVE  /\ "note" \in DOMAIN yaml => yaml["note"] = "n"
         /\ "level" \in DOMAIN yaml => yaml["level"] \in {"info", "debug"}
         /\ \A f \in {"slug", "alias", "bundle"} : f \in DOMAIN yaml => yaml[f] \in Slugs
         /\ "pass" \in DOMAIN yaml => yaml["pass"] \in Secrets
<1>1. CASE yaml = << >>
  BY <1>1
<1>2. CASE yaml \in Texts
  <2>1. PICK c \in Choices : yaml = ToYaml(c)
    BY <1>2 DEF Texts
  <2>2. \A f \in DOMAIN yaml : yaml[f] = c[f] /\ c[f] # None
    BY <2>1 DEF ToYaml
  <2> QED  BY <2>2, ChoiceIsTyped DEF Typed
<1> QED  BY <1>1, <1>2 DEF Readable

DefaultOf(args, env, yaml, slug0) ==
  [Nothing EXCEPT !["slug"] = slug0, !["level"] = "info",
                  !["alias"] = Chosen("slug", args, env, yaml, slug0)]

LEMMA DefaultIs ==
  ASSUME NEW args, NEW env, NEW yaml, NEW slug0
  PROVE  LET d == DefaultOf(args, env, yaml, slug0) IN
         /\ d["slug"] = slug0 /\ d["level"] = "info"
         /\ d["alias"] = Chosen("slug", args, env, yaml, slug0)
         /\ d["note"] = None /\ d["bundle"] = None /\ d["pass"] = None
         /\ \A f \in Fields : Settings(args, env, yaml, slug0)[f] = Chosen(f, args, env, yaml, d[f])
BY FieldsAre DEF DefaultOf, Settings, Nothing

\* Resolving any sources gives settings that have their defaults.
LEMMA SettingsType ==
  ASSUME NEW args \in Choices, NEW env \in Choices, NEW yaml \in Readable, NEW slug0 \in Slugs
  PROVE  LET c == Settings(args, env, yaml, slug0) IN
         /\ c \in Choices /\ Given(c)
         /\ c["pass"] = Chosen("pass", args, env, yaml, None)
<1> DEFINE d == DefaultOf(args, env, yaml, slug0)
           c == Settings(args, env, yaml, slug0)
<1>1. /\ d["slug"] = slug0 /\ d["level"] = "info"
      /\ d["alias"] = Chosen("slug", args, env, yaml, slug0)
      /\ d["note"] = None /\ d["bundle"] = None /\ d["pass"] = None
      /\ \A f \in Fields : c[f] = Chosen(f, args, env, yaml, d[f])
  BY DefaultIs
<1>2. c = [f \in Fields |-> c[f]]
  BY DEF Settings
<1> HIDE DEF c, d
<1>3. Typed(args) /\ Typed(env)
  BY ChoiceIsTyped
<1>4. \A m \in {None} : m \notin Slugs /\ m \notin Secrets /\ m \notin {"n", "info", "debug"}
  BY MarksAreDistinct
<1>5. c["slug"] \in Slugs /\ Chosen("slug", args, env, yaml, slug0) \in Slugs
  BY <1>1, <1>3, FieldsAre, TextIsTyped DEF Chosen, Typed
<1>6. c["alias"] \in Slugs
  BY <1>1, <1>3, <1>5, FieldsAre, TextIsTyped DEF Chosen, Typed
<1>7. c["level"] \in {"info", "debug"}
  BY <1>1, <1>3, FieldsAre, TextIsTyped DEF Chosen, Typed
<1>8. c["note"] \in {"n", None}
  BY <1>1, <1>3, FieldsAre, TextIsTyped DEF Chosen, Typed
<1>9. c["bundle"] \in Slugs \cup {None}
  BY <1>1, <1>3, FieldsAre, TextIsTyped DEF Chosen, Typed
<1>10. c["pass"] \in Secrets \cup {None}
  BY <1>1, <1>3, FieldsAre, TextIsTyped DEF Chosen, Typed
<1>11. c \in Choices
  BY <1>2, <1>5, <1>6, <1>7, <1>8, <1>9, <1>10, TypedIsChoice DEF Typed
<1>12. Given(c)
  BY <1>4, <1>5, <1>6, <1>7 DEF Given
<1>13. c["pass"] = Chosen("pass", args, env, yaml, None)
  BY <1>1, FieldsAre
<1> QED  BY <1>11, <1>12, <1>13 DEF c

\* What is written is what is read, when the file alone is named.
LEMMA ReadBack ==
  ASSUME NEW c \in Choices, Given(c), NEW slug0
  PROVE  Settings(Nothing, Nothing, ToYaml(c), slug0) = c
<1> DEFINE r == Settings(Nothing, Nothing, ToYaml(c), slug0)
           d == DefaultOf(Nothing, Nothing, ToYaml(c), slug0)
<1>1. c = [f \in Fields |-> c[f]]
  BY ChoiceIsTyped
<1>2. r = [f \in Fields |-> r[f]]
  BY DEF Settings
<1>3. /\ d["note"] = None /\ d["bundle"] = None /\ d["pass"] = None
      /\ \A f \in Fields : r[f] = Chosen(f, Nothing, Nothing, ToYaml(c), d[f])
  BY DefaultIs
<1> HIDE DEF r, d
<1>4. \A f \in Fields : r[f] = IF c[f] # None THEN c[f] ELSE d[f]
  BY <1>3, NothingType, TextOfChoice DEF Chosen
<1>5. \A f \in Fields : c[f] = None => d[f] = None
  BY <1>3, FieldsAre DEF Given
<1>6. \A f \in Fields : r[f] = c[f]
  BY <1>4, <1>5
<1>7. r = c
  BY <1>1, <1>2, <1>6
<1> QED  BY <1>7 DEF r

-----------------------------------------------------------------------------
(* What a step does to the process that takes it, and to the disk.         *)

\* What a generation writes its files from.
IsGenerated(c) == Given(c) /\ c["bundle"] # None /\ c["pass"] # None

\* What a process has when it is about to write.
StepsInv ==
  /\ \A p \in Procs :
       /\ at[p] = "checked" =>
            cfg[p]["bundle"] # None /\ cfg[p]["pass"] \in Passes \cup {None}
       /\ at[p] \in GenSteps => IsGenerated(cfg[p]) /\ held[p] # None
       /\ at[p] = "re-bundle" => held[p] # None /\ cfg[p]["pass"] # None
  /\ \A g \in made : IsGenerated(g.cfg)

Step(p) == Generate(p) \/ Daemon(p) \/ WriteFails(p) \/ Stop(p)

HasPass(text, i) == text \notin {None, Torn} /\ "pass" \in DOMAIN text /\ text["pass"] = i

\* The process goes on with what it has.
MovesOn(p) ==
  \E where \in Steps \ {"off", "checked", "bundle"} :
    /\ Moves(p, where)
    /\ at[p] \notin {"off", "checked"}
    /\ where \in GenSteps <=> at[p] \in GenSteps
    /\ where = "re-bundle" => held[p] # None /\ cfg[p]["pass"] # None

Checks(p) ==
  \E file \in Slugs, c \in Choices :
    /\ Goes(p, "checked", file, c, None)
    /\ conf[file] = None
    /\ Given(c) /\ c["bundle"] # None /\ c["pass"] \in Passes \cup {None}

\* It gets the next number, and a passphrase if it has none.
Begins(p) ==
  /\ at[p] = "checked" /\ keys < MaxKeys /\ keys' = keys + 1
  /\ bin[BinPath(cfg[p])] = None
  /\ \E pw \in Passes \cup {keys'} :
       /\ Goes(p, "bundle", path[p], [cfg[p] EXCEPT !["pass"] = pw], keys')
       /\ pw = keys' \/ pw = cfg[p]["pass"]

Starts(p) ==
  \E file \in Slugs, c \in Choices :
    /\ Goes(p, "up", file, c, None)
    /\ Given(c)
    /\ c["pass"] \in Passes \cup {None} \/ HasPass(conf[file], c["pass"])

OwnEffect(p) ==
  \/ UNCHANGED keys /\ (Ends(p) \/ MovesOn(p) \/ Checks(p) \/ Starts(p))
  \/ Unlock(p)
  \/ Begins(p)

\* A text has no passphrase but that of the process.
PutsConf(p) ==
  /\ at[p] \notin {"off", "checked"}
  /\ UNCHANGED bin
  /\ \E text \in Texts \cup {Torn, << >>}, settings \in {None, cfg[p]}, n \in {0, Number(p)} :
       /\ conf' = [conf EXCEPT ![path[p]] = text]
       /\ saved' = [saved EXCEPT ![path[p]] = settings]
       /\ owner' = [owner EXCEPT !.conf[path[p]] = n]
       /\ settings # None => text = ToYaml(cfg[p])
       /\ \A i : HasPass(text, i) => cfg[p]["pass"] = i

PutsBin(p) ==
  /\ at[p] \notin {"off", "checked"} /\ held[p] # None /\ cfg[p]["pass"] # None
  /\ \E content \in {Torn, Sealed(p)} : SetsBin(p, content)

DiskEffect(p) == UNCHANGED diskVars \/ PutsConf(p) \/ PutsBin(p)

LEMMA BinPathType ==
  ASSUME NEW c \in Choices, Given(c)
  PROVE  BinPath(c) \in Slugs
BY ChoiceIsTyped DEF BinPath, Given, Typed

\* Settings and where they are.
LEMMA ProcTypes ==
  ASSUME TypeOK, NEW p \in Procs, at[p] # "off"
  PROVE  /\ path[p] \in Slugs /\ cfg[p] \in Choices /\ Given(cfg[p])
         /\ BinPath(cfg[p]) \in Slugs
BY BinPathType DEF TypeOK

LEMMA GoesIs ==
  ASSUME TypeOK, NEW p \in Procs, NEW where, NEW file, NEW c, NEW b, Goes(p, where, file, c, b)
  PROVE  /\ at'[p] = where /\ path'[p] = file /\ cfg'[p] = c /\ held'[p] = b
         /\ \A q \in Procs \ {p} : /\ at'[q] = at[q] /\ path'[q] = path[q]
                                   /\ cfg'[q] = cfg[q] /\ held'[q] = held[q]
BY DEF TypeOK, Goes

LEMMA GoesType ==
  ASSUME TypeOK, NEW p \in Procs, NEW where \in Steps, NEW file \in Slugs \cup {None},
         NEW c \in Choices, NEW b \in Bundles \cup {None}, Goes(p, where, file, c, b),
         where # "off" => file # None /\ Given(c)
  PROVE  /\ at' \in [Procs -> Steps]
         /\ path' \in [Procs -> Slugs \cup {None}]
         /\ cfg' \in [Procs -> Choices]
         /\ held' \in [Procs -> Bundles \cup {None}]
         /\ \A q \in Procs : at'[q] # "off" => path'[q] # None /\ Given(cfg'[q])
<1>1. /\ at' \in [Procs -> Steps]
      /\ path' \in [Procs -> Slugs \cup {None}]
      /\ cfg' \in [Procs -> Choices]
      /\ held' \in [Procs -> Bundles \cup {None}]
  BY DEF TypeOK, Goes
<1>2. \A q \in Procs : at'[q] # "off" => path'[q] # None /\ Given(cfg'[q])
  BY GoesIs DEF TypeOK
<1> QED  BY <1>1, <1>2

-----------------------------------------------------------------------------
(* Every step has these effects.                                           *)

LEMMA GeneratedType ==
  ASSUME NEW a \in Args, NEW slug \in Slugs
  PROVE  LET c == Generated(a, slug) IN
         /\ c \in Choices /\ Given(c) /\ c["bundle"] # None
         /\ c["pass"] \in Passes \cup {None}
<1> DEFINE c == Generated(a, slug)
<1>1. Typed(a.set) /\ a.set["pass"] \in Passes \cup {None}
  BY InputsAreTyped, ChoiceIsTyped
<1>2. None \notin Slugs /\ None # "info"
  BY MarksAreDistinct
<1>3. /\ c = [f \in Fields |-> c[f]]
      /\ c["note"] = None /\ c["slug"] = slug /\ c["level"] = "info" /\ c["alias"] = slug
      /\ c["bundle"] = IF a.set["bundle"] # None THEN a.set["bundle"] ELSE slug
      /\ c["pass"] = a.set["pass"]
  BY FieldsAre DEF Generated, Nothing
<1> HIDE DEF c
<1>4. c["bundle"] \in Slugs
  BY <1>1, <1>3 DEF Typed
<1>5. c \in Choices
  BY <1>1, <1>3, <1>4, TypedIsChoice DEF Typed, Secrets
<1> QED  BY <1>1, <1>2, <1>3, <1>4, <1>5 DEF c, Given

LEMMA ConfPathType ==
  ASSUME NEW a \in Args
  PROVE  ConfPath(a) \in Slugs
BY InputsAreTyped, ChoiceIsTyped, DefaultIsASlug DEF ConfPath, Typed

LEMMA MovesOnTo ==
  ASSUME NEW p \in Procs, NEW where \in Steps \ {"off", "checked", "bundle"}, Moves(p, where),
         at[p] \notin {"off", "checked"}, where \in GenSteps <=> at[p] \in GenSteps,
         where = "re-bundle" => held[p] # None /\ cfg[p]["pass"] # None
  PROVE  MovesOn(p)
BY DEF MovesOn

LEMMA SetsConfPuts ==
  ASSUME TypeOK, NEW p \in Procs, at[p] \notin {"off", "checked"},
         NEW text \in Texts \cup {Torn, << >>}, NEW settings \in {None, cfg[p]},
         SetsConf(p, text, settings), settings # None => text = ToYaml(cfg[p]),
         text \in Texts /\ "pass" \in DOMAIN text => text["pass"] = cfg[p]["pass"]
  PROVE  PutsConf(p)
<1>1. \A i : HasPass(text, i) => cfg[p]["pass"] = i
  BY DEF HasPass
<1> QED  BY <1>1 DEF PutsConf, SetsConf

LEMMA FillsConfPuts ==
  ASSUME TypeOK, NEW p \in Procs, at[p] \notin {"off", "checked"}, FillsConf(p)
  PROVE  PutsConf(p)
<1>1. cfg[p] \in Choices
  BY DEF TypeOK
<1>2. /\ ToYaml(cfg[p]) \in Texts
      /\ "pass" \in DOMAIN ToYaml(cfg[p]) => ToYaml(cfg[p])["pass"] = cfg[p]["pass"]
  BY <1>1, TextOfChoice
<1>3. CASE SetsConf(p, ToYaml(cfg[p]), cfg[p])
  BY <1>2, <1>3, SetsConfPuts
<1>4. CASE \E text \in {ToYaml(cfg[p]), Torn} :
             /\ conf' = [conf EXCEPT ![path[p]] = text]
             /\ saved' = [saved EXCEPT ![path[p]] = None]
             /\ owner' = [owner EXCEPT !.conf[path[p]] = 0]
             /\ UNCHANGED bin
  <2>1. PICK text \in {ToYaml(cfg[p]), Torn} :
             /\ conf' = [conf EXCEPT ![path[p]] = text]
             /\ saved' = [saved EXCEPT ![path[p]] = None]
             /\ owner' = [owner EXCEPT !.conf[path[p]] = 0]
             /\ UNCHANGED bin
    BY <1>4
  <2>2. \A i : HasPass(text, i) => cfg[p]["pass"] = i
    BY <1>2 DEF HasPass
  <2> QED  BY <1>2, <2>1, <2>2 DEF PutsConf
<1> QED  BY <1>3, <1>4 DEF FillsConf

LEMMA FailEffect ==
  ASSUME TypeOK, StepsInv, NEW p \in Procs, WriteFails(p)
  PROVE  OwnEffect(p) /\ DiskEffect(p)
<1>1. at[p] \in CutSteps /\ UNCHANGED keys
  BY DEF WriteFails
<1>2. OwnEffect(p)
  <2>1. CASE Ends(p)
    BY <1>1, <2>1 DEF OwnEffect
  <2>2. CASE at[p] \notin GenSteps /\ Moves(p, "up")
    <3>1. MovesOn(p)
      BY <1>1, <2>2, MovesOnTo DEF CutSteps, GenSteps, Steps
    <3> QED  BY <1>1, <3>1 DEF OwnEffect
  <2> QED  BY <2>1, <2>2 DEF WriteFails
<1>3. DiskEffect(p)
  <2>1. CASE at[p] \in {"cut bundle", "re-bundle"}
    <3>1. held[p] # None /\ cfg[p]["pass"] # None
      BY <2>1 DEF StepsInv, IsGenerated, GenSteps
    <3> QED  BY <2>1, <3>1 DEF WriteFails, DiskEffect, PutsBin
  <2>2. CASE at[p] \notin {"cut bundle", "re-bundle"}
    <3>1. PICK text \in CutTexts(ToYaml(cfg[p])) : SetsConf(p, text, None)
      BY <2>2 DEF WriteFails
    <3>2. cfg[p] \in Choices /\ at[p] \notin {"off", "checked"}
      BY <1>1 DEF TypeOK, CutSteps
    <3>3. text = Torn \/ (text \in Texts /\ ("pass" \in DOMAIN text => text["pass"] = cfg[p]["pass"]))
      BY <3>1, <3>2, CutType
    <3>4. text \in Texts /\ "pass" \in DOMAIN text => text["pass"] = cfg[p]["pass"]
      BY <3>3, MarksAreDistinct
    <3> QED  BY <3>1, <3>2, <3>3, <3>4, SetsConfPuts DEF DiskEffect
  <2> QED  BY <2>1, <2>2
<1> QED  BY <1>2, <1>3

LEMMA GenerateEffect ==
  ASSUME TypeOK, StepsInv, NEW p \in Procs, Generate(p)
  PROVE  OwnEffect(p) /\ DiskEffect(p)
<1> USE DEF OwnEffect, DiskEffect
<1>1. ASSUME NEW a \in Args, GenCheckConfig(p, a) PROVE OwnEffect(p) /\ DiskEffect(p)
  <2> DEFINE slug == IF a.set["slug"] # None THEN a.set["slug"] ELSE DefaultSlug
  <2>1. slug \in Slugs
    BY InputsAreTyped, ChoiceIsTyped, DefaultIsASlug DEF Typed
  <2>2. /\ Generated(a, slug) \in Choices /\ Given(Generated(a, slug))
        /\ Generated(a, slug)["bundle"] # None
        /\ Generated(a, slug)["pass"] \in Passes \cup {None}
    BY <2>1, GeneratedType
  <2>3. /\ Goes(p, "checked", ConfPath(a), Generated(a, slug), None)
        /\ conf[ConfPath(a)] = None /\ UNCHANGED <<diskVars, keys>>
    BY <1>1 DEF GenCheckConfig, pastVars
  <2>4. Checks(p)
    BY <2>2, <2>3, ConfPathType DEF Checks
  <2> QED  BY <2>3, <2>4
<1>2. CASE GenCheckBundle(p)
  <2>1. CASE Ends(p) /\ UNCHANGED keys
    BY <1>2, <2>1 DEF GenCheckBundle
  <2>2. CASE /\ BundleIsFree(BinPath(cfg[p])) /\ keys' = keys + 1
             /\ Goes(p, "bundle", path[p],
                     IF cfg[p]["pass"] # None THEN cfg[p]
                     ELSE [cfg[p] EXCEPT !["pass"] = keys'], keys')
    <3>1. cfg[p] \in Choices /\ cfg[p]["pass"] \in Passes \cup {None} /\ at[p] = "checked"
          /\ keys < MaxKeys
      BY <1>2 DEF TypeOK, StepsInv, GenCheckBundle
    <3>2. CASE cfg[p]["pass"] # None
      <4>1. [cfg[p] EXCEPT !["pass"] = cfg[p]["pass"]] = cfg[p]
        BY <3>1, ChoiceIsTyped
      <4>2. Goes(p, "bundle", path[p], [cfg[p] EXCEPT !["pass"] = cfg[p]["pass"]], keys')
        BY <2>2, <3>2, <4>1
      <4>3. Begins(p)
        BY <2>2, <3>1, <3>2, <4>2 DEF Begins, BundleIsFree
      <4> QED  BY <1>2, <4>3 DEF GenCheckBundle
    <3>3. CASE cfg[p]["pass"] = None
      <4>1. Goes(p, "bundle", path[p], [cfg[p] EXCEPT !["pass"] = keys'], keys')
        BY <2>2, <3>3
      <4>2. Begins(p)
        BY <2>2, <3>1, <4>1 DEF Begins, BundleIsFree
      <4> QED  BY <1>2, <4>2 DEF GenCheckBundle
    <3> QED  BY <3>2, <3>3
  <2> QED  BY <1>2, <2>1, <2>2 DEF GenCheckBundle
<1>3. CASE OpenBundle(p) \/ WriteBundle(p)
  <2>1. at[p] \in GenSteps /\ UNCHANGED keys
    BY <1>3 DEF OpenBundle, WriteBundle, GenSteps, pastVars
  <2>2. held[p] # None /\ cfg[p]["pass"] # None
    BY <2>1 DEF StepsInv, IsGenerated
  <2>3. MovesOn(p)
    BY <1>3, MovesOnTo DEF OpenBundle, WriteBundle, GenSteps, Steps, CutSteps
  <2>4. PutsBin(p)
    BY <1>3, <2>2 DEF OpenBundle, WriteBundle, PutsBin
  <2> QED  BY <2>1, <2>3, <2>4
<1>4. CASE OpenConfig(p)
  <2>1. MovesOn(p)
    BY <1>4, MovesOnTo DEF OpenConfig, GenSteps, Steps, CutSteps
  <2>2. \A i : ~HasPass(<< >>, i)
    BY DEF HasPass
  <2>3. PutsConf(p)
    BY <1>4, <2>2 DEF OpenConfig, PutsConf, SetsConf
  <2> QED  BY <1>4, <2>1, <2>3 DEF OpenConfig, pastVars
<1>5. CASE WriteConfig(p)
  <2>1. PutsConf(p)
    BY <1>5, FillsConfPuts DEF WriteConfig
  <2> QED  BY <1>5, <2>1 DEF WriteConfig
<1> QED  BY <1>1, <1>2, <1>3, <1>4, <1>5 DEF Generate

LEMMA StartEffect ==
  ASSUME TypeOK, NEW p \in Procs, NEW a \in Args, NEW env \in Envs, Start(p, a, env)
  PROVE  Starts(p)
<1> DEFINE s == ConfPath(a)
           yaml == IF conf[s] = None THEN << >> ELSE conf[s]
           c == Settings(a.set, env, yaml, DefaultSlug)
<1>1. s \in Slugs /\ Goes(p, "up", s, c, None)
  BY ConfPathType DEF Start, FromArgs
<1>2. yaml \in Readable
  BY <1>1 DEF Start, Loads, IsMapping, Readable, TypeOK
<1>3. /\ a.set \in Choices /\ a.set["pass"] \in Passes \cup {None}
      /\ env \in Choices /\ env["pass"] \in Passes \cup {None}
  BY InputsAreTyped
<1>4. c \in Choices /\ Given(c) /\ c["pass"] = Chosen("pass", a.set, env, yaml, None)
  BY <1>2, <1>3, SettingsType, DefaultIsASlug
<1>5. \A f : f \notin DOMAIN << >>
  OBVIOUS
<1>6. yaml = << >> \/ (yaml = conf[s] /\ conf[s] \notin {None, Torn})
  BY DEF Start, Loads, IsMapping
<1> HIDE DEF c, yaml, s
<1>7. c["pass"] \in Passes \cup {None} \/ HasPass(conf[s], c["pass"])
  BY <1>3, <1>4, <1>5, <1>6 DEF Chosen, HasPass
<1> QED  BY <1>1, <1>4, <1>7 DEF Starts

LEMMA DaemonEffect ==
  ASSUME TypeOK, StepsInv, NEW p \in Procs, Daemon(p)
  PROVE  OwnEffect(p) /\ DiskEffect(p)
<1> USE DEF OwnEffect, DiskEffect
<1>1. ASSUME NEW a \in Args, NEW env \in Envs, Start(p, a, env)
      PROVE  OwnEffect(p) /\ DiskEffect(p)
  BY <1>1, StartEffect DEF Start
<1>2. CASE Unlock(p)
  BY <1>2 DEF Unlock
<1>3. CASE ReopenConfig(p)
  <2>1. MovesOn(p)
    BY <1>3, MovesOnTo DEF ReopenConfig, GenSteps, Steps, CutSteps
  <2>2. \A i : ~HasPass(<< >>, i)
    BY DEF HasPass
  <2>3. PutsConf(p)
    BY <1>3, <2>2 DEF ReopenConfig, PutsConf, SetsConf
  <2> QED  BY <1>3, <2>1, <2>3 DEF ReopenConfig, pastVars
<1>4. CASE RewriteConfig(p)
  <2>1. MovesOn(p)
    BY <1>4, MovesOnTo DEF RewriteConfig, GenSteps, Steps, CutSteps
  <2>2. PutsConf(p)
    BY <1>4, FillsConfPuts DEF RewriteConfig
  <2> QED  BY <1>4, <2>1, <2>2 DEF RewriteConfig, pastVars
<1>5. CASE ReopenBundle(p) \/ RewriteBundle(p)
  <2>1. held[p] # None /\ cfg[p]["pass"] # None /\ UNCHANGED keys
    BY <1>5 DEF ReopenBundle, RewriteBundle, StepsInv, pastVars
  <2>2. MovesOn(p)
    BY <1>5, MovesOnTo DEF ReopenBundle, RewriteBundle, GenSteps, Steps, CutSteps
  <2>3. PutsBin(p)
    BY <1>5, <2>1 DEF ReopenBundle, RewriteBundle, PutsBin
  <2> QED  BY <2>1, <2>2, <2>3
<1> QED  BY <1>1, <1>2, <1>3, <1>4, <1>5 DEF Daemon

LEMMA StepEffect ==
  ASSUME TypeOK, StepsInv, NEW p \in Procs, Step(p)
  PROVE  OwnEffect(p) /\ DiskEffect(p)
<1>1. CASE Stop(p)
  BY <1>1 DEF Stop, OwnEffect, DiskEffect, pastVars
<1> QED  BY <1>1, GenerateEffect, DaemonEffect, FailEffect DEF Step

-----------------------------------------------------------------------------
(* Types.                                                                  *)

LEMMA NumberType ==
  ASSUME TypeOK, StepsInv, NEW p \in Procs
  PROVE  Number(p) \in 0 .. MaxKeys
BY Bounds DEF TypeOK, StepsInv, Number, Bundles

LEMMA DiskType ==
  ASSUME TypeOK, StepsInv, NEW p \in Procs, DiskEffect(p)
  PROVE  /\ conf' \in [Slugs -> Texts \cup {None, Torn, << >>}]
         /\ bin' \in [Slugs -> Seals \cup {None, Torn}]
         /\ saved' \in [Slugs -> Choices \cup {None}]
         /\ owner' \in [conf : [Slugs -> 0 .. MaxKeys], bin : [Slugs -> 0 .. MaxKeys]]
<1>1. Number(p) \in 0 .. MaxKeys /\ 0 \in 0 .. MaxKeys
  BY NumberType, Bounds
<1>2. CASE UNCHANGED diskVars
  BY <1>2 DEF diskVars, TypeOK
<1>3. CASE PutsConf(p)
  <2>1. path[p] \in Slugs /\ cfg[p] \in Choices
    BY <1>3, ProcTypes DEF PutsConf
  <2>2. PICK text \in Texts \cup {Torn, << >>}, settings \in {None, cfg[p]}, n \in {0, Number(p)} :
          /\ conf' = [conf EXCEPT ![path[p]] = text]
          /\ saved' = [saved EXCEPT ![path[p]] = settings]
          /\ owner' = [owner EXCEPT !.conf[path[p]] = n]
    BY <1>3 DEF PutsConf
  <2>3. n \in 0 .. MaxKeys /\ bin' = bin
    BY <1>1, <1>3 DEF PutsConf
  <2>4. owner' \in [conf : [Slugs -> 0 .. MaxKeys], bin : [Slugs -> 0 .. MaxKeys]]
    BY <2>1, <2>2, <2>3 DEF TypeOK
  <2> QED  BY <2>1, <2>2, <2>3, <2>4 DEF TypeOK
<1>4. CASE PutsBin(p)
  <2>1. BinPath(cfg[p]) \in Slugs
    BY <1>4, ProcTypes DEF PutsBin
  <2>2. held[p] \in Bundles /\ cfg[p]["pass"] \in Secrets
    BY <1>4, ChoiceIsTyped DEF PutsBin, TypeOK, Typed
  <2>3. Sealed(p) \in Seals
    BY <2>2 DEF Sealed, Seals
  <2>4. PICK content \in Seals \cup {None, Torn} : SetsBin(p, content)
    BY <1>4, <2>3 DEF PutsBin
  <2> QED  BY <1>1, <2>1, <2>4 DEF SetsBin, TypeOK
<1> QED  BY <1>2, <1>3, <1>4 DEF DiskEffect

LEMMA PassIsChoice ==
  ASSUME NEW c \in Choices, NEW pw \in Secrets \cup {None}
  PROVE  LET d == [c EXCEPT !["pass"] = pw] IN
         /\ d \in Choices /\ d["pass"] = pw
         /\ \A f \in Fields \ {"pass"} : d[f] = c[f]
BY FieldsAre DEF Choices

LEMMA BeginsType ==
  ASSUME TypeOK, NEW p \in Procs, Begins(p)
  PROVE  /\ keys' \in Bundles /\ at[p] = "checked"
         /\ \E pw \in Passes \cup {keys'} :
              LET c == [cfg[p] EXCEPT !["pass"] = pw] IN
              /\ Goes(p, "bundle", path[p], c, keys')
              /\ c \in Choices /\ c["pass"] = pw /\ pw # None
              /\ \A f \in Fields \ {"pass"} : c[f] = cfg[p][f]
<1>1. keys' \in Bundles
  BY Bounds DEF Begins, TypeOK, Bundles
<1>2. PICK pw \in Passes \cup {keys'} : Goes(p, "bundle", path[p], [cfg[p] EXCEPT !["pass"] = pw], keys')
  BY DEF Begins
<1>3. pw \in Secrets /\ cfg[p] \in Choices
  BY <1>1 DEF Secrets, TypeOK
<1>4. pw # None
  BY <1>3, MarksAreDistinct
<1> QED  BY <1>1, <1>2, <1>3, <1>4, PassIsChoice DEF Begins

LEMMA OwnType ==
  ASSUME TypeOK, NEW p \in Procs, OwnEffect(p)
  PROVE  /\ at' \in [Procs -> Steps]
         /\ path' \in [Procs -> Slugs \cup {None}]
         /\ cfg' \in [Procs -> Choices]
         /\ held' \in [Procs -> Bundles \cup {None}]
         /\ \A q \in Procs : at'[q] # "off" => path'[q] # None /\ Given(cfg'[q])
         /\ keys' \in 0 .. MaxKeys
<1>1. /\ path[p] \in Slugs \cup {None} /\ cfg[p] \in Choices /\ held[p] \in Bundles \cup {None}
      /\ at[p] # "off" => path[p] # None /\ Given(cfg[p])
      /\ {"off", "checked", "up", "bundle"} \subseteq Steps
  BY DEF TypeOK, Steps, GenSteps
<1>2. CASE Ends(p) /\ UNCHANGED keys
  <2>1. Goes(p, "off", None, Nothing, None)
    BY <1>2 DEF Ends
  <2> QED  BY <1>1, <1>2, <2>1, GoesType, NothingType DEF TypeOK
<1>3. CASE MovesOn(p) /\ UNCHANGED keys
  <2>1. PICK where \in Steps : Moves(p, where) /\ at[p] # "off"
    BY <1>3 DEF MovesOn
  <2>2. Goes(p, where, path[p], cfg[p], held[p])
    BY <2>1 DEF Moves
  <2> QED  BY <1>1, <1>3, <2>1, <2>2, GoesType DEF TypeOK
<1>4. CASE Checks(p) /\ UNCHANGED keys
  <2>1. PICK file \in Slugs, c \in Choices : Goes(p, "checked", file, c, None) /\ Given(c)
    BY <1>4 DEF Checks
  <2>2. file # None
    BY MarksAreDistinct
  <2> QED  BY <1>1, <1>4, <2>1, <2>2, GoesType DEF TypeOK
<1>5. CASE Starts(p) /\ UNCHANGED keys
  <2>1. PICK file \in Slugs, c \in Choices : Goes(p, "up", file, c, None) /\ Given(c)
    BY <1>5 DEF Starts
  <2>2. file # None
    BY MarksAreDistinct
  <2> QED  BY <1>1, <1>5, <2>1, <2>2, GoesType DEF TypeOK
<1>6. CASE Unlock(p)
  <2> DEFINE b == Opened(BinPath(cfg[p]), cfg[p]["pass"])
  <2>1. b # None /\ Goes(p, "up", path[p], cfg[p], b) /\ at[p] = "up" /\ UNCHANGED keys
    BY <1>6 DEF Unlock, pastVars
  <2>2. BinPath(cfg[p]) \in Slugs
    BY <2>1, ProcTypes
  <2>3. b \in Bundles
    BY <2>1, <2>2 DEF Opened, TypeOK, Seals
  <2> HIDE DEF b
  <2> QED  BY <1>1, <2>1, <2>3, GoesType DEF TypeOK
<1>7. CASE Begins(p)
  <2>1. PICK pw \in Passes \cup {keys'} :
          LET c == [cfg[p] EXCEPT !["pass"] = pw] IN
          /\ Goes(p, "bundle", path[p], c, keys')
          /\ c \in Choices
          /\ \A f \in Fields \ {"pass"} : c[f] = cfg[p][f]
    BY <1>7, BeginsType
  <2>2. keys' \in Bundles /\ at[p] = "checked"
    BY <1>7, BeginsType
  <2>3. Given([cfg[p] EXCEPT !["pass"] = pw])
    BY <1>1, <2>1, <2>2, FieldsAre DEF Given
  <2>4. keys' \in 0 .. MaxKeys
    BY <2>2, Bounds DEF Bundles
  <2> QED  BY <1>1, <2>1, <2>2, <2>3, <2>4, GoesType
<1> QED  BY <1>2, <1>3, <1>4, <1>5, <1>6, <1>7 DEF OwnEffect

LEMMA PastType ==
  ASSUME TypeOK, StepsInv, NEW p \in Procs, Step(p)
  PROVE  /\ starts' \in 0 .. MaxStarts
         /\ fails' \in 0 .. MaxFails
         /\ made' \subseteq [id : Bundles, path : Slugs, cfg : Choices, alone : BOOLEAN]
         /\ made' = made \/ (WriteConfig(p) /\ made' = made \cup
              {[id |-> held[p], path |-> path[p], cfg |-> cfg[p], alone |-> Rivals(p) = {}]})
<1>1. starts' = starts \/ (starts < MaxStarts /\ starts' = starts + 1)
  BY DEF Step, Generate, GenCheckConfig, GenCheckBundle, OpenBundle, WriteBundle, OpenConfig,
     WriteConfig, Daemon, Start, Unlock, ReopenConfig, RewriteConfig, ReopenBundle, RewriteBundle,
     WriteFails, Stop, pastVars
<1>2. fails' = fails \/ (fails < MaxFails /\ fails' = fails + 1)
  BY DEF Step, Generate, GenCheckConfig, GenCheckBundle, OpenBundle, WriteBundle, OpenConfig,
     WriteConfig, Daemon, Start, Unlock, ReopenConfig, RewriteConfig, ReopenBundle, RewriteBundle,
     WriteFails, Stop, pastVars
<1>3. made' = made \/ (WriteConfig(p) /\ made' = made \cup
        {[id |-> held[p], path |-> path[p], cfg |-> cfg[p], alone |-> Rivals(p) = {}]})
  BY DEF Step, Generate, GenCheckConfig, GenCheckBundle, OpenBundle, WriteBundle, OpenConfig,
     WriteConfig, Daemon, Start, Unlock, ReopenConfig, RewriteConfig, ReopenBundle, RewriteBundle,
     WriteFails, Stop, pastVars
<1>4. ASSUME WriteConfig(p)
      PROVE  [id |-> held[p], path |-> path[p], cfg |-> cfg[p], alone |-> Rivals(p) = {}]
               \in [id : Bundles, path : Slugs, cfg : Choices, alone : BOOLEAN]
  <2>1. path[p] \in Slugs /\ cfg[p] \in Choices
    BY <1>4, ProcTypes DEF WriteConfig
  <2>2. held[p] \in Bundles
    BY <1>4 DEF WriteConfig, StepsInv, GenSteps, TypeOK
  <2>3. (Rivals(p) = {}) \in BOOLEAN
    OBVIOUS
  <2> QED  BY <2>1, <2>2, <2>3
<1>5. made' \subseteq [id : Bundles, path : Slugs, cfg : Choices, alone : BOOLEAN]
  BY <1>3, <1>4 DEF TypeOK
<1>6. starts' \in 0 .. MaxStarts /\ fails' \in 0 .. MaxFails
  BY <1>1, <1>2, Bounds DEF TypeOK
<1> QED  BY <1>3, <1>5, <1>6

LEMMA OwnStepsInv ==
  ASSUME TypeOK, StepsInv, NEW p \in Procs, OwnEffect(p), NEW q \in Procs
  PROVE  /\ at'[q] = "checked" =>
              cfg'[q]["bundle"] # None /\ cfg'[q]["pass"] \in Passes \cup {None}
         /\ at'[q] \in GenSteps => IsGenerated(cfg'[q]) /\ held'[q] # None
         /\ at'[q] = "re-bundle" => held'[q] # None /\ cfg'[q]["pass"] # None
<1> DEFINE Ready(w, c, b) ==
             /\ w = "checked" => c["bundle"] # None /\ c["pass"] \in Passes \cup {None}
             /\ w \in GenSteps => IsGenerated(c) /\ b # None
             /\ w = "re-bundle" => b # None /\ c["pass"] # None
<1>1. \A r \in Procs : Ready(at[r], cfg[r], held[r])
  BY DEF StepsInv
<1>2. ASSUME NEW w, NEW file, NEW c, NEW b, Goes(p, w, file, c, b), Ready(w, c, b)
      PROVE  Ready(at'[q], cfg'[q], held'[q])
  BY <1>1, <1>2, GoesIs
<1>3. "off" \notin GenSteps /\ "checked" \notin GenSteps /\ "up" \notin GenSteps /\ "bundle" \in GenSteps
      /\ "re-bundle" \notin GenSteps
  BY DEF GenSteps
<1>4. CASE Ends(p)
  <2>1. Ready("off", Nothing, None)
    BY <1>3
  <2> HIDE DEF Ready
  <2>2. Ready(at'[q], cfg'[q], held'[q])
    BY <1>2, <1>4, <2>1 DEF Ends
  <2> QED  BY <2>2 DEF Ready
<1>5. CASE MovesOn(p)
  <2>1. PICK w \in Steps \ {"off", "checked", "bundle"} :
          /\ Moves(p, w) /\ (w \in GenSteps <=> at[p] \in GenSteps)
          /\ w = "re-bundle" => held[p] # None /\ cfg[p]["pass"] # None
    BY <1>5 DEF MovesOn
  <2>2. Ready(w, cfg[p], held[p])
    BY <1>1, <2>1
  <2> HIDE DEF Ready
  <2>3. Ready(at'[q], cfg'[q], held'[q])
    BY <1>2, <2>1, <2>2 DEF Moves
  <2> QED  BY <2>3 DEF Ready
<1>6. CASE Checks(p)
  <2>1. PICK file \in Slugs, c \in Choices :
          /\ Goes(p, "checked", file, c, None)
          /\ c["bundle"] # None /\ c["pass"] \in Passes \cup {None}
    BY <1>6 DEF Checks
  <2>2. Ready("checked", c, None)
    BY <1>3, <2>1
  <2> HIDE DEF Ready
  <2>3. Ready(at'[q], cfg'[q], held'[q])
    BY <1>2, <2>1, <2>2
  <2> QED  BY <2>3 DEF Ready
<1>7. CASE \E file, c, b : Goes(p, "up", file, c, b)
  <2>1. PICK file, c, b : Goes(p, "up", file, c, b)
    BY <1>7
  <2>2. Ready("up", c, b)
    BY <1>3
  <2> HIDE DEF Ready
  <2>3. Ready(at'[q], cfg'[q], held'[q])
    BY <1>2, <2>1, <2>2
  <2> QED  BY <2>3 DEF Ready
<1>8. CASE Begins(p)
  <2>1. PICK pw \in Passes \cup {keys'} :
          LET c == [cfg[p] EXCEPT !["pass"] = pw] IN
          /\ Goes(p, "bundle", path[p], c, keys')
          /\ c["pass"] = pw /\ pw # None
          /\ \A f \in Fields \ {"pass"} : c[f] = cfg[p][f]
    BY <1>8, BeginsType
  <2>2. keys' # None
    BY <1>8, BeginsType, MarksAreDistinct DEF Secrets
  <2>3. cfg[p]["bundle"] # None /\ Given(cfg[p])
    BY <1>8 DEF Begins, StepsInv, TypeOK
  <2>4. IsGenerated([cfg[p] EXCEPT !["pass"] = pw])
    BY <2>1, <2>3, FieldsAre DEF IsGenerated, Given
  <2>5. Ready("bundle", [cfg[p] EXCEPT !["pass"] = pw], keys')
    BY <2>2, <2>4
  <2> HIDE DEF Ready
  <2>6. Ready(at'[q], cfg'[q], held'[q])
    BY <1>2, <2>1, <2>5
  <2> QED  BY <2>6 DEF Ready
<1>9. Starts(p) \/ Unlock(p) => \E file, c, b : Goes(p, "up", file, c, b)
  BY DEF Starts, Unlock
<1> QED  BY <1>4, <1>5, <1>6, <1>7, <1>8, <1>9 DEF OwnEffect

LEMMA InitTypeOK == Init => TypeOK /\ StepsInv
<1> SUFFICES ASSUME Init PROVE TypeOK /\ StepsInv
  OBVIOUS
<1>1. "off" \in Steps /\ "off" \notin GenSteps
  BY DEF Steps, GenSteps
<1>2. conf \in [Slugs -> Texts \cup {None, Torn, << >>}]
  BY InputsAreTyped DEF Init
<1>3. 0 \in 0 .. MaxKeys /\ 0 \in 0 .. MaxStarts /\ 0 \in 0 .. MaxFails
  BY Bounds
<1>4. TypeOK
  BY <1>1, <1>2, <1>3, NothingType DEF Init, TypeOK
<1>5. StepsInv
  BY <1>1 DEF Init, StepsInv
<1> QED  BY <1>4, <1>5

LEMMA StepTypeOK ==
  ASSUME TypeOK, StepsInv, NEW p \in Procs, Step(p)
  PROVE  TypeOK' /\ StepsInv'
<1>1. OwnEffect(p) /\ DiskEffect(p)
  BY StepEffect
<1>2. TypeOK'
  BY <1>1, OwnType, DiskType, PastType DEF TypeOK
<1>3. \A g \in made' : IsGenerated(g.cfg)
  <2>1. ASSUME WriteConfig(p) PROVE IsGenerated(cfg[p])
    BY <2>1 DEF WriteConfig, StepsInv, GenSteps
  <2> QED  BY <2>1, PastType DEF StepsInv
<1>4. StepsInv'
  BY <1>1, <1>3, OwnStepsInv DEF StepsInv
<1> QED  BY <1>2, <1>4

LEMMA StutterTypeOK == TypeOK /\ StepsInv /\ UNCHANGED vars => TypeOK' /\ StepsInv'
BY DEF vars, diskVars, procVars, pastVars, TypeOK, StepsInv

LEMMA NextIsStep == Next <=> \E p \in Procs : Step(p)
BY DEF Next, Step

LEMMA TypesCorrect == Spec => [](TypeOK /\ StepsInv)
<1>1. TypeOK /\ StepsInv /\ [Next]_vars => TypeOK' /\ StepsInv'
  BY StepTypeOK, StutterTypeOK, NextIsStep
<1> QED  BY <1>1, InitTypeOK, PTL DEF Spec

\* Types; and whatever its sources leave out, a process that has chosen its
\* settings has a slug, a level and an alias.
THEOREM TypeCorrect == Spec => []TypeOK
<1> QED  BY TypesCorrect, PTL

-----------------------------------------------------------------------------
(* What was saved is what is read.                                         *)

\* What was saved to its end is in the file.
SavedInv ==
  \A s \in Slugs : saved[s] # None => Given(saved[s]) /\ conf[s] = ToYaml(saved[s])

LEMMA StepSavedInv ==
  ASSUME TypeOK, SavedInv, NEW p \in Procs, DiskEffect(p)
  PROVE  SavedInv'
<1>1. CASE UNCHANGED <<conf, saved>>
  BY <1>1 DEF SavedInv
<1>2. CASE PutsConf(p)
  <2>1. PICK text \in Texts \cup {Torn, << >>}, settings \in {None, cfg[p]} :
          /\ conf' = [conf EXCEPT ![path[p]] = text]
          /\ saved' = [saved EXCEPT ![path[p]] = settings]
          /\ settings # None => text = ToYaml(cfg[p])
    BY <1>2 DEF PutsConf
  <2>2. Given(cfg[p]) /\ path[p] \in Slugs
    BY <1>2, ProcTypes DEF PutsConf
  <2> SUFFICES ASSUME NEW s \in Slugs, saved'[s] # None
               PROVE  Given(saved'[s]) /\ conf'[s] = ToYaml(saved'[s])
    BY DEF SavedInv, Given, ToYaml
  <2>3. CASE s = path[p]
    <3>1. conf'[s] = text /\ saved'[s] = settings
      BY <2>1, <2>3 DEF TypeOK
    <3>2. saved'[s] = cfg[p] /\ conf'[s] = ToYaml(cfg[p])
      BY <2>1, <3>1
    <3> QED  BY <2>2, <3>2
  <2>4. CASE s # path[p]
    <3>1. conf'[s] = conf[s] /\ saved'[s] = saved[s]
      BY <2>1, <2>4 DEF TypeOK
    <3> QED  BY <3>1 DEF SavedInv
  <2> QED  BY <2>3, <2>4
<1>3. CASE PutsBin(p)
  BY <1>1, <1>3 DEF PutsBin, SetsBin
<1> QED  BY <1>1, <1>2, <1>3 DEF DiskEffect, diskVars

LEMMA SavedCorrect == Spec => []SavedInv
<1>1. Init => SavedInv
  BY DEF Init, SavedInv
<1>2. TypeOK /\ StepsInv /\ SavedInv /\ [Next]_vars => SavedInv'
  <2>1. ASSUME TypeOK, StepsInv, SavedInv, Next PROVE SavedInv'
    BY <2>1, NextIsStep, StepEffect, StepSavedInv
  <2>2. SavedInv /\ UNCHANGED vars => SavedInv'
    BY DEF SavedInv, vars, diskVars
  <2> QED  BY <2>1, <2>2
<1> QED  BY <1>1, <1>2, TypesCorrect, PTL DEF Spec

\* A configuration file that was saved to its end gives a restart that names
\* it the settings that were saved; and what a daemon exports gives them to
\* an import, but for the passphrase.
THEOREM AlwaysResumes == Spec => []RestartResumes
<1>1. TypeOK /\ SavedInv => RestartResumes
  <2> SUFFICES ASSUME TypeOK, SavedInv PROVE RestartResumes
    OBVIOUS
  <2>1. ASSUME NEW s \in Slugs, saved[s] # None
        PROVE  FromArgs(Naming(s), Nothing, s) = saved[s]
    <3>1. PICK c \in Choices : c = saved[s]
      BY <2>1 DEF TypeOK
    <3>2. Given(c) /\ conf[s] = ToYaml(c) /\ conf[s] # None
      BY <2>1, <3>1, TextOfChoice DEF SavedInv
    <3>3. FromArgs(Naming(s), Nothing, s) = Settings(Nothing, Nothing, ToYaml(c), DefaultSlug)
      BY <3>2 DEF FromArgs, Naming
    <3> QED  BY <3>1, <3>2, <3>3, ReadBack
  <2>2. ASSUME NEW p \in Procs, at[p] = "up"
        PROVE  FromYaml(ToLockedYaml(cfg[p])) = [cfg[p] EXCEPT !["pass"] = None]
    <3>1. PICK c \in Choices : c = [cfg[p] EXCEPT !["pass"] = None]
                               /\ \A f \in Fields \ {"pass"} : c[f] = cfg[p][f]
      <4>1. cfg[p] \in Choices /\ None \in Secrets \cup {None}
        BY DEF TypeOK
      <4>2. LET c == [cfg[p] EXCEPT !["pass"] = None] IN
            c \in Choices /\ \A f \in Fields \ {"pass"} : c[f] = cfg[p][f]
        BY <4>1, PassIsChoice
      <4> QED  BY <4>2
    <3>2. Given(c)
      BY <2>2, <3>1, FieldsAre DEF TypeOK, Given
    <3>3. FromYaml(ToLockedYaml(cfg[p])) = Settings(Nothing, Nothing, ToYaml(c), "ma")
      BY <3>1 DEF FromYaml, ToLockedYaml
    <3> QED  BY <3>1, <3>2, <3>3, ReadBack
  <2> QED  BY <2>1, <2>2 DEF RestartResumes
<1> QED  BY <1>1, TypesCorrect, SavedCorrect, PTL

-----------------------------------------------------------------------------
(* Numbers are given out once.                                             *)

\* The bundle i, or its passphrase, is nowhere.
Unseen(i) ==
  /\ \A s \in Slugs : bin[s] \notin {None, Torn} => bin[s].bundle # i
  /\ \A p \in Procs : held[p] # i /\ cfg[p]["pass"] # i
  /\ \A s \in Slugs : ~HasPass(conf[s], i)

FreshInv == \A i \in Bundles : i > keys => Unseen(i)

NumbersInv ==
  /\ \A g \in made : g.id <= keys
  /\ \A p \in Procs : held[p] # None => held[p] <= keys
  /\ \A p, q \in Procs : at[p] \in GenSteps /\ at[q] \in GenSteps /\ held[p] = held[q] => p = q
  /\ \A p \in Procs : at[p] \in GenSteps => \A g \in made : g.id # held[p]

LEMMA BundleIsNumber ==
  ASSUME NEW i \in Bundles
  PROVE  i \in Nat /\ i > 0 /\ i # None /\ i # Torn /\ i \notin Passes
<1>1. i \in Secrets
  BY DEF Secrets
<1> QED  BY <1>1, Bounds, MarksAreDistinct, GeneratedIsNew DEF Bundles

LEMMA NothingHasNoPass == Nothing["pass"] = None
BY NothingType, FieldsAre

LEMMA StepFreshInv ==
  ASSUME TypeOK, StepsInv, FreshInv, NEW p \in Procs, OwnEffect(p), DiskEffect(p)
  PROVE  FreshInv'
<1>1. SUFFICES ASSUME NEW i \in Bundles, i > keys' PROVE Unseen(i)'
  BY DEF FreshInv
<1>2. i > keys
  <2>1. keys' = keys \/ keys' = keys + 1
    BY DEF OwnEffect, Begins, Unlock, pastVars
  <2> QED  BY <1>1, <2>1, BundleIsNumber DEF TypeOK
<1>3. Unseen(i)
  BY <1>2 DEF FreshInv
<1>4. i # None /\ i # Torn /\ i \notin Passes /\ i # keys'
  BY <1>1, BundleIsNumber
<1>5. \A s \in Slugs : bin'[s] \notin {None, Torn} => bin'[s].bundle # i
  <2>1. CASE bin' = bin
    BY <1>3, <2>1 DEF Unseen
  <2>2. CASE PutsBin(p)
    <3>1. PICK content \in {Torn, Sealed(p)} : bin' = [bin EXCEPT ![BinPath(cfg[p])] = content]
      BY <2>2 DEF PutsBin, SetsBin
    <3>2. content # Torn => content.bundle # i
      BY <1>3 DEF Unseen, Sealed
    <3> QED  BY <1>3, <3>1, <3>2 DEF Unseen, TypeOK
  <2> QED  BY <2>1, <2>2 DEF DiskEffect, PutsConf, diskVars
<1>6. \A s \in Slugs : ~HasPass(conf'[s], i)
  <2>1. CASE conf' = conf
    BY <1>3, <2>1 DEF Unseen
  <2>2. CASE PutsConf(p)
    <3>1. PICK text : conf' = [conf EXCEPT ![path[p]] = text] /\ (HasPass(text, i) => cfg[p]["pass"] = i)
      BY <2>2 DEF PutsConf
    <3> QED  BY <1>3, <3>1 DEF Unseen, TypeOK
  <2> QED  BY <2>1, <2>2 DEF DiskEffect, PutsBin, SetsBin, diskVars
<1>7. \A q \in Procs : held'[q] # i /\ cfg'[q]["pass"] # i
  <2>1. ASSUME NEW w, NEW file, NEW c, NEW b, Goes(p, w, file, c, b), c["pass"] # i, b # i
        PROVE  \A q \in Procs : held'[q] # i /\ cfg'[q]["pass"] # i
    BY <1>3, <2>1, GoesIs DEF Unseen
  <2>2. CASE Ends(p)
    BY <1>4, <2>1, <2>2, NothingHasNoPass DEF Ends
  <2>3. CASE MovesOn(p)
    BY <1>3, <2>1, <2>3 DEF MovesOn, Moves, Unseen
  <2>4. CASE Checks(p)
    BY <1>4, <2>1, <2>4 DEF Checks
  <2>5. CASE Starts(p)
    BY <1>3, <1>4, <2>1, <2>5 DEF Starts, Unseen
  <2>6. CASE Unlock(p)
    <3> DEFINE b == Opened(BinPath(cfg[p]), cfg[p]["pass"])
    <3>1. b # None /\ Goes(p, "up", path[p], cfg[p], b) /\ BinPath(cfg[p]) \in Slugs
      BY <2>6, ProcTypes DEF Unlock
    <3>2. b # i
      BY <1>3, <3>1 DEF Opened, Unseen
    <3> HIDE DEF b
    <3> QED  BY <1>3, <2>1, <3>1, <3>2 DEF Unseen
  <2>7. CASE Begins(p)
    <3>1. PICK pw \in Passes \cup {keys'} :
            LET c == [cfg[p] EXCEPT !["pass"] = pw] IN
            Goes(p, "bundle", path[p], c, keys') /\ c["pass"] = pw
      BY <2>7, BeginsType
    <3> QED  BY <1>4, <2>1, <3>1
  <2> QED  BY <2>2, <2>3, <2>4, <2>5, <2>6, <2>7 DEF OwnEffect
<1> QED  BY <1>5, <1>6, <1>7 DEF Unseen, HasPass

LEMMA StepNumbersInv ==
  ASSUME TypeOK, TypeOK', StepsInv, FreshInv, NumbersInv, NEW p \in Procs, Step(p)
  PROVE  NumbersInv'
<1>1. OwnEffect(p)
  BY StepEffect
<1>2. keys \in Nat /\ keys' \in Nat /\ keys <= keys'
  BY <1>1, Bounds DEF OwnEffect, Begins, Unlock, pastVars, TypeOK
<1>3. \A q \in Procs : held[q] # None => held[q] \in Nat /\ held[q] <= keys
  BY BundleIsNumber DEF TypeOK, NumbersInv
<1>4. \A g \in made : g.id \in Nat /\ g.id <= keys
  BY BundleIsNumber DEF TypeOK, NumbersInv
<1>5. \A q \in Procs \ {p} : at'[q] = at[q] /\ held'[q] = held[q]
  BY <1>1, GoesIs DEF OwnEffect, Ends, MovesOn, Moves, Checks, Starts, Unlock, Begins
<1>6. held'[p] # None => held'[p] <= keys'
  <2>1. CASE Ends(p) \/ Checks(p) \/ Starts(p)
    BY <2>1, GoesIs DEF Ends, Checks, Starts
  <2>2. CASE MovesOn(p)
    <3>1. held'[p] = held[p]
      BY <2>2, GoesIs DEF MovesOn, Moves
    <3> QED  BY <1>2, <1>3, <3>1
  <2>3. CASE Unlock(p)
    <3> DEFINE b == Opened(BinPath(cfg[p]), cfg[p]["pass"])
    <3>1. b # None /\ Goes(p, "up", path[p], cfg[p], b) /\ BinPath(cfg[p]) \in Slugs
      BY <2>3, ProcTypes DEF Unlock
    <3>2. b \in Bundles /\ bin[BinPath(cfg[p])] \notin {None, Torn} /\ b = bin[BinPath(cfg[p])].bundle
      BY <3>1 DEF Opened, TypeOK, Seals
    <3>3. ~(b > keys)
      BY <3>1, <3>2 DEF FreshInv, Unseen
    <3>4. held'[p] = b
      BY <3>1, GoesIs
    <3> QED  BY <1>2, <3>2, <3>3, <3>4, BundleIsNumber
  <2>4. CASE Begins(p)
    <3>1. held'[p] = keys'
      BY <2>4, GoesIs DEF Begins
    <3> QED  BY <1>2, <3>1
  <2> QED  BY <1>1, <2>1, <2>2, <2>3, <2>4 DEF OwnEffect
<1>7. CASE Begins(p)
  <2>1. at'[p] = "bundle" /\ held'[p] = keys' /\ keys' = keys + 1
    BY <1>7, GoesIs DEF Begins
  <2>2. made' = made
    BY <1>7, PastType DEF Begins, WriteConfig
  <2>3. \A q \in Procs \ {p} : held'[q] # held'[p]
    <3>1. keys' # None
      BY <1>7, BeginsType, BundleIsNumber
    <3> QED  BY <1>2, <1>3, <1>5, <2>1, <3>1
  <2>4. \A g \in made' : g.id <= keys' /\ g.id # held'[p]
    BY <1>2, <1>4, <2>1, <2>2
  <2>5. \A q \in Procs : held'[q] # None => held'[q] <= keys'
    BY <1>2, <1>3, <1>5, <1>6
  <2> QED  BY <1>5, <2>2, <2>3, <2>4, <2>5 DEF NumbersInv
<1>8. CASE ~Begins(p)
  <2>1. at'[p] \in GenSteps => at[p] \in GenSteps /\ held'[p] = held[p]
    <3>1. "off" \notin GenSteps /\ "checked" \notin GenSteps /\ "up" \notin GenSteps
      BY DEF GenSteps
    <3>2. CASE MovesOn(p)
      BY <3>2, GoesIs DEF MovesOn, Moves
    <3>3. CASE Ends(p) \/ Checks(p) \/ Starts(p) \/ Unlock(p)
      BY <3>1, <3>3, GoesIs DEF Ends, Checks, Starts, Unlock
    <3> QED  BY <1>1, <1>8, <3>2, <3>3 DEF OwnEffect
  <2>2. \A q \in Procs : held'[q] # None => held'[q] <= keys'
    BY <1>2, <1>3, <1>5, <1>6
  <2>3. \A q, r \in Procs : at'[q] \in GenSteps /\ at'[r] \in GenSteps /\ held'[q] = held'[r] => q = r
    BY <1>5, <2>1 DEF NumbersInv
  <2>4. CASE made' = made
    BY <1>2, <1>4, <1>5, <2>1, <2>2, <2>3, <2>4 DEF NumbersInv
  <2>5. CASE WriteConfig(p) /\ made' = made \cup
               {[id |-> held[p], path |-> path[p], cfg |-> cfg[p], alone |-> Rivals(p) = {}]}
    <3>1. at'[p] = "off" /\ at[p] \in GenSteps /\ held[p] # None
      BY <2>5, GoesIs DEF WriteConfig, Ends, GenSteps, StepsInv
    <3>2. \A g \in made' : g \in made \/ g.id = held[p]
      BY <2>5
    <3>3. \A g \in made' : g.id <= keys'
      BY <1>2, <1>3, <1>4, <3>1, <3>2
    <3>4. "off" \notin GenSteps
      BY DEF GenSteps
    <3>5. \A q \in Procs : at'[q] \in GenSteps => \A g \in made' : g.id # held'[q]
      BY <1>5, <3>1, <3>2, <3>4 DEF NumbersInv
    <3> QED  BY <2>2, <2>3, <3>3, <3>5 DEF NumbersInv
  <2> QED  BY <2>4, <2>5, PastType
<1> QED  BY <1>7, <1>8

LEMMA NumbersCorrect == Spec => [](FreshInv /\ NumbersInv)
<1>1. Init => FreshInv /\ NumbersInv
  <2> SUFFICES ASSUME Init PROVE FreshInv /\ NumbersInv
    OBVIOUS
  <2>1. ASSUME NEW i \in Bundles PROVE Unseen(i)
    <3>1. i # None /\ i \notin Passes
      BY BundleIsNumber
    <3>2. \A s \in Slugs : ~HasPass(conf[s], i)
      BY <3>1, InputsAreTyped DEF Init, HasPass
    <3> QED  BY <3>1, <3>2, NothingHasNoPass DEF Init, Unseen
  <2>2. "off" \notin GenSteps
    BY DEF GenSteps
  <2> QED  BY <2>1, <2>2 DEF Init, FreshInv, NumbersInv
<1>2. TypeOK /\ StepsInv /\ TypeOK' /\ FreshInv /\ NumbersInv /\ [Next]_vars => FreshInv' /\ NumbersInv'
  <2>1. ASSUME TypeOK, StepsInv, TypeOK', FreshInv, NumbersInv, Next PROVE FreshInv' /\ NumbersInv'
    BY <2>1, NextIsStep, StepEffect, StepFreshInv, StepNumbersInv
  <2>2. FreshInv /\ NumbersInv /\ UNCHANGED vars => FreshInv' /\ NumbersInv'
    BY DEF FreshInv, NumbersInv, Unseen, vars, diskVars, procVars, pastVars
  <2> QED  BY <2>1, <2>2
<1> QED  BY <1>1, <1>2, TypesCorrect, PTL DEF Spec

-----------------------------------------------------------------------------
(* What a generation wrote is there until somebody else opens the file.    *)

\* The generation i owns a file only as long as its own text is in it.
OwnerInv ==
  /\ \A p \in Procs :
       at[p] \in {"config", "cut config"} /\ owner.bin[BinPath(cfg[p])] = held[p] =>
         bin[BinPath(cfg[p])] = Sealed(p)
  /\ \A g \in made : owner.bin[BinPath(g.cfg)] = g.id =>
       bin[BinPath(g.cfg)] = [bundle |-> g.id, pass |-> g.cfg["pass"]]
  /\ \A g \in made : owner.conf[g.path] = g.id => conf[g.path] = ToYaml(g.cfg)

\* Nobody writes to the bundle in the name of another generation.
LEMMA OthersBin ==
  ASSUME TypeOK, StepsInv, NumbersInv, NEW p \in Procs, DiskEffect(p),
         NEW s \in Slugs, NEW i \in Bundles, owner'.bin[s] = i,
         at[p] \in GenSteps => held[p] # i
  PROVE  bin'[s] = bin[s] /\ owner.bin[s] = i
<1>1. CASE UNCHANGED diskVars
  BY <1>1 DEF diskVars
<1>2. CASE PutsConf(p)
  <2>1. bin' = bin /\ owner'.bin = owner.bin
    BY <1>2 DEF PutsConf, TypeOK
  <2> QED  BY <2>1
<1>3. CASE PutsBin(p)
  <2>1. PICK content : bin' = [bin EXCEPT ![BinPath(cfg[p])] = content]
    BY <1>3 DEF PutsBin, SetsBin
  <2>2. owner' = [owner EXCEPT !.bin[BinPath(cfg[p])] = Number(p)]
    BY <1>3 DEF PutsBin, SetsBin
  <2>3. Number(p) # i
    BY BundleIsNumber DEF Number
  <2>4. BinPath(cfg[p]) # s
    BY <2>2, <2>3 DEF TypeOK
  <2> QED  BY <2>1, <2>2, <2>4 DEF TypeOK
<1> QED  BY <1>1, <1>2, <1>3 DEF DiskEffect

LEMMA OthersConf ==
  ASSUME TypeOK, NEW p \in Procs, DiskEffect(p),
         NEW s \in Slugs, NEW i \in Bundles, owner'.conf[s] = i,
         at[p] \in GenSteps => held[p] # i
  PROVE  conf'[s] = conf[s] /\ owner.conf[s] = i
<1>1. CASE UNCHANGED diskVars
  BY <1>1 DEF diskVars
<1>2. CASE PutsBin(p)
  <2>1. conf' = conf /\ owner'.conf = owner.conf
    BY <1>2 DEF PutsBin, SetsBin, TypeOK
  <2> QED  BY <2>1
<1>3. CASE PutsConf(p)
  <2>1. PICK text \in Texts \cup {Torn, << >>}, settings \in {None, cfg[p]}, n \in {0, Number(p)} :
          /\ conf' = [conf EXCEPT ![path[p]] = text]
          /\ owner' = [owner EXCEPT !.conf[path[p]] = n]
    BY <1>3 DEF PutsConf
  <2>2. n # i
    BY BundleIsNumber DEF Number
  <2>3. path[p] # s
    BY <2>1, <2>2 DEF TypeOK
  <2> QED  BY <2>1, <2>3 DEF TypeOK
<1> QED  BY <1>1, <1>2, <1>3 DEF DiskEffect

LEMMA MovesIs ==
  ASSUME TypeOK, NEW p \in Procs, NEW where, Moves(p, where)
  PROVE  /\ at'[p] = where /\ path'[p] = path[p] /\ cfg'[p] = cfg[p] /\ held'[p] = held[p]
         /\ \A q \in Procs \ {p} : /\ at'[q] = at[q] /\ path'[q] = path[q]
                                   /\ cfg'[q] = cfg[q] /\ held'[q] = held[q]
BY GoesIs DEF Moves

LEMMA EndsIs ==
  ASSUME TypeOK, NEW p \in Procs, Ends(p)
  PROVE  /\ at'[p] = "off" /\ path'[p] = None /\ cfg'[p] = Nothing /\ held'[p] = None
         /\ \A q \in Procs \ {p} : /\ at'[q] = at[q] /\ path'[q] = path[q]
                                   /\ cfg'[q] = cfg[q] /\ held'[q] = held[q]
BY GoesIs DEF Ends

\* Who is about to write the configuration has just written the bundle.
LEMMA ToConfig ==
  ASSUME TypeOK, NEW p \in Procs, Step(p), at'[p] \in {"config", "cut config"}
  PROVE  /\ cfg'[p] = cfg[p] /\ held'[p] = held[p]
         /\ WriteBundle(p) \/ (at[p] = "config" /\ OpenConfig(p))
<1>1. CASE Stop(p)
  BY <1>1, EndsIs DEF Stop
<1>2. CASE Generate(p)
  <2>1. ASSUME NEW a \in Args, GenCheckConfig(p, a) PROVE at'[p] = "checked"
    BY <2>1, GoesIs DEF GenCheckConfig
  <2>2. CASE GenCheckBundle(p)
    BY <2>2, GoesIs, EndsIs DEF GenCheckBundle
  <2>3. CASE OpenBundle(p) \/ WriteConfig(p)
    BY <2>3, MovesIs, EndsIs DEF OpenBundle, WriteConfig
  <2>4. CASE WriteBundle(p) \/ OpenConfig(p)
    BY <2>4, MovesIs DEF WriteBundle, OpenConfig
  <2> QED  BY <1>2, <2>1, <2>2, <2>3, <2>4 DEF Generate
<1>3. CASE Daemon(p)
  <2>1. ASSUME NEW a \in Args, NEW env \in Envs, Start(p, a, env) PROVE at'[p] = "up"
    BY <2>1, GoesIs DEF Start
  <2>2. CASE Unlock(p)
    BY <2>2, GoesIs DEF Unlock
  <2>3. CASE ReopenConfig(p) \/ RewriteConfig(p) \/ ReopenBundle(p) \/ RewriteBundle(p)
    BY <2>3, MovesIs DEF ReopenConfig, RewriteConfig, ReopenBundle, RewriteBundle
  <2> QED  BY <1>3, <2>1, <2>2, <2>3 DEF Daemon
<1>4. CASE WriteFails(p)
  <2>1. Ends(p) \/ Moves(p, "up")
    BY <1>4 DEF WriteFails
  <2>2. CASE Ends(p)
    BY <2>2, EndsIs
  <2>3. CASE Moves(p, "up")
    <3>1. at'[p] = "up"
      BY <2>3, MovesIs
    <3> QED  BY <3>1
  <2> QED  BY <2>1, <2>2, <2>3
<1> QED  BY <1>1, <1>2, <1>3, <1>4 DEF Step

LEMMA StepOwnerInv ==
  ASSUME TypeOK, TypeOK', StepsInv, StepsInv', NumbersInv, OwnerInv, NEW p \in Procs, Step(p)
  PROVE  OwnerInv'
<1>1. OwnEffect(p) /\ DiskEffect(p)
  BY StepEffect
<1>2. \A q \in Procs \ {p} : at'[q] = at[q] /\ held'[q] = held[q] /\ cfg'[q] = cfg[q]
  BY <1>1, GoesIs DEF OwnEffect, Ends, MovesOn, Moves, Checks, Starts, Unlock, Begins
<1>3. \A g \in made : /\ g.id \in Bundles /\ g.path \in Slugs /\ BinPath(g.cfg) \in Slugs
                      /\ at[p] \in GenSteps => held[p] # g.id
  BY BinPathType DEF TypeOK, StepsInv, IsGenerated, NumbersInv
<1>4. ASSUME NEW q \in Procs, at'[q] \in {"config", "cut config"},
             owner'.bin[BinPath(cfg'[q])] = held'[q]
      PROVE  bin'[BinPath(cfg'[q])] = [bundle |-> held'[q], pass |-> cfg'[q]["pass"]]
  <2>1. CASE q # p
    <3>1. at[q] \in GenSteps /\ held[q] # None
      BY <1>2, <1>4, <2>1 DEF StepsInv, GenSteps
    <3>2. held[q] \in Bundles /\ BinPath(cfg[q]) \in Slugs
      BY <3>1, ProcTypes DEF TypeOK, GenSteps
    <3>3. at[p] \in GenSteps => held[p] # held[q]
      BY <2>1, <3>1 DEF NumbersInv
    <3>4. bin'[BinPath(cfg[q])] = bin[BinPath(cfg[q])] /\ owner.bin[BinPath(cfg[q])] = held[q]
      <4>1. PICK i \in Bundles, s \in Slugs : i = held[q] /\ s = BinPath(cfg[q])
        BY <3>2
      <4>2. s \in Slugs /\ owner'.bin[s] = i /\ (at[p] \in GenSteps => held[p] # i)
        BY <1>2, <1>4, <2>1, <3>2, <3>3, <4>1
      <4>3. bin'[s] = bin[s] /\ owner.bin[s] = i
        BY <1>1, <4>2, OthersBin
      <4> QED  BY <4>1, <4>3
    <3> QED  BY <1>2, <1>4, <2>1, <3>4 DEF OwnerInv, Sealed
  <2>2. CASE q = p
    <3>1. cfg'[p] = cfg[p] /\ held'[p] = held[p]
      BY <1>4, <2>2, ToConfig
    <3>2. CASE WriteBundle(p)
      <4>1. BinPath(cfg[p]) \in Slugs
        BY <3>2, ProcTypes DEF WriteBundle
      <4> QED  BY <2>2, <3>1, <3>2, <4>1 DEF WriteBundle, SetsBin, Sealed, TypeOK
    <3>3. CASE at[p] = "config" /\ OpenConfig(p)
      <4>1. bin' = bin /\ owner'.bin = owner.bin
        BY <3>3 DEF OpenConfig, SetsConf, TypeOK
      <4> QED  BY <1>4, <2>2, <3>1, <3>3, <4>1 DEF OwnerInv, Sealed
    <3> QED  BY <1>4, <2>2, <3>2, <3>3, ToConfig
  <2> QED  BY <2>1, <2>2
<1>5. ASSUME NEW g \in made
      PROVE  /\ owner'.bin[BinPath(g.cfg)] = g.id =>
                  bin'[BinPath(g.cfg)] = [bundle |-> g.id, pass |-> g.cfg["pass"]]
             /\ owner'.conf[g.path] = g.id => conf'[g.path] = ToYaml(g.cfg)
  <2>1. PICK i \in Bundles, s \in Slugs, f \in Slugs : i = g.id /\ s = BinPath(g.cfg) /\ f = g.path
    BY <1>3
  <2>2. s \in Slugs /\ f \in Slugs /\ (at[p] \in GenSteps => held[p] # i)
    BY <1>3, <2>1
  <2>3. owner'.bin[s] = i => bin'[s] = bin[s] /\ owner.bin[s] = i
    BY <1>1, <2>2, OthersBin
  <2>4. owner'.conf[f] = i => conf'[f] = conf[f] /\ owner.conf[f] = i
    BY <1>1, <2>2, OthersConf
  <2> QED  BY <2>1, <2>3, <2>4 DEF OwnerInv
<1>6. ASSUME WriteConfig(p)
      PROVE  /\ owner'.bin[BinPath(cfg[p])] = held[p] =>
                  bin'[BinPath(cfg[p])] = [bundle |-> held[p], pass |-> cfg[p]["pass"]]
             /\ owner'.conf[path[p]] = held[p] => conf'[path[p]] = ToYaml(cfg[p])
  <2>1. at[p] = "cut config" /\ path[p] \in Slugs
    BY <1>6, ProcTypes DEF WriteConfig
  <2>2. held[p] \in Bundles
    BY <2>1 DEF StepsInv, GenSteps, TypeOK
  <2>3. CASE SetsConf(p, ToYaml(cfg[p]), cfg[p])
    <3>1. /\ bin' = bin /\ owner'.bin = owner.bin /\ conf'[path[p]] = ToYaml(cfg[p])
      BY <2>1, <2>3 DEF SetsConf, TypeOK
    <3>2. at[p] \in {"config", "cut config"}
      BY <2>1
    <3>3. owner.bin[BinPath(cfg[p])] = held[p] => bin[BinPath(cfg[p])] = Sealed(p)
      BY <3>2 DEF OwnerInv
    <3> QED  BY <3>1, <3>3 DEF Sealed
  <2>4. CASE bin' = bin /\ owner' = [owner EXCEPT !.conf[path[p]] = 0]
    <3>1. owner'.bin = owner.bin /\ owner'.conf[path[p]] = 0 /\ bin' = bin
      BY <2>1, <2>4 DEF TypeOK
    <3>2. owner'.conf[path[p]] # held[p]
      BY <2>2, <3>1, BundleIsNumber
    <3>3. at[p] \in {"config", "cut config"}
      BY <2>1
    <3>4. owner.bin[BinPath(cfg[p])] = held[p] => bin[BinPath(cfg[p])] = Sealed(p)
      BY <3>3 DEF OwnerInv
    <3> QED  BY <3>1, <3>2, <3>4 DEF Sealed
  <2> QED  BY <1>6, <2>3, <2>4 DEF WriteConfig, FillsConf
<1>7. \A g \in made' : \/ g \in made
                       \/ WriteConfig(p) /\ g.id = held[p] /\ g.path = path[p] /\ g.cfg = cfg[p]
  BY PastType
<1>8. \A g \in made' : /\ owner'.bin[BinPath(g.cfg)] = g.id =>
                            bin'[BinPath(g.cfg)] = [bundle |-> g.id, pass |-> g.cfg["pass"]]
                       /\ owner'.conf[g.path] = g.id => conf'[g.path] = ToYaml(g.cfg)
  BY <1>5, <1>6, <1>7
<1> QED  BY <1>4, <1>8 DEF OwnerInv, BinPath, Sealed, ToYaml

LEMMA OwnerCorrect == Spec => []OwnerInv
<1>1. Init => OwnerInv
  BY DEF Init, OwnerInv
<1>2. TypeOK /\ StepsInv /\ TypeOK' /\ StepsInv' /\ NumbersInv /\ OwnerInv /\ [Next]_vars => OwnerInv'
  <2>1. ASSUME TypeOK, StepsInv, TypeOK', StepsInv', NumbersInv, OwnerInv, Next PROVE OwnerInv'
    BY <2>1, NextIsStep, StepOwnerInv
  <2>2. OwnerInv /\ UNCHANGED vars => OwnerInv'
    BY DEF OwnerInv, BinPath, Sealed, ToYaml, vars, diskVars, procVars, pastVars
  <2> QED  BY <2>1, <2>2
<1> QED  BY <1>1, <1>2, TypesCorrect, NumbersCorrect, PTL DEF Spec

\* A command line that agrees with a generation resolves to its bundle and
\* its passphrase.
LEMMA FittingResolves ==
  ASSUME NEW a, a.set \in Choices, NEW c \in Choices, IsGenerated(c),
         \A f \in {"slug", "bundle", "pass"} : a.set[f] \in {None, c[f]}
  PROVE  LET r == Settings(a.set, Nothing, ToYaml(c), DefaultSlug) IN
         BinPath(r) = BinPath(c) /\ r["pass"] = c["pass"]
<1> DEFINE r == Settings(a.set, Nothing, ToYaml(c), DefaultSlug)
           d == DefaultOf(a.set, Nothing, ToYaml(c), DefaultSlug)
<1>1. \A f \in Fields : r[f] = Chosen(f, a.set, Nothing, ToYaml(c), d[f])
  BY DefaultIs
<1> HIDE DEF r, d
<1>2. \A f \in {"bundle", "pass"} : f \in Fields /\ c[f] # None
  BY FieldsAre DEF IsGenerated
<1>3. \A f \in {"bundle", "pass"} : f \in DOMAIN ToYaml(c) /\ ToYaml(c)[f] = c[f]
  BY <1>2, TextOfChoice
<1>4. \A f \in {"bundle", "pass"} : r[f] = c[f]
  BY <1>1, <1>2, <1>3, NothingType DEF Chosen
<1> QED  BY <1>2, <1>4 DEF r, BinPath

\* Whatever was generated, written, cut and saved beside it: a generation
\* that returned Ok leads every start that agrees with it to its identity as
\* long as its two files are its own.
THEOREM GenerationStaysUsable == Spec => []GenerationIsUsable
<1>1. TypeOK /\ StepsInv /\ OwnerInv => GenerationIsUsable
  <2> SUFFICES ASSUME TypeOK, StepsInv, OwnerInv, NEW g \in made,
                      owner.conf[g.path] = g.id, owner.bin[BinPath(g.cfg)] = g.id,
                      NEW a \in Args \cup {Naming(g.path)}, Fits(a, g)
               PROVE  Reached(a) = g.id
    BY DEF GenerationIsUsable
  <2>1. /\ g.cfg \in Choices /\ IsGenerated(g.cfg) /\ a.set \in Choices
        /\ ConfPath(a) = g.path /\ \A f \in {"slug", "bundle", "pass"} : a.set[f] \in {None, g.cfg[f]}
    BY NothingType, InputsAreTyped DEF TypeOK, StepsInv, Fits, Naming
  <2>2. /\ conf[g.path] = ToYaml(g.cfg)
        /\ bin[BinPath(g.cfg)] = [bundle |-> g.id, pass |-> g.cfg["pass"]]
    BY DEF OwnerInv
  <2>3. IsMapping(conf[g.path]) /\ conf[g.path] # None
    BY <2>1, <2>2, GivenIsMapping, TextOfChoice DEF IsGenerated
  <2> DEFINE c == FromArgs(a, Nothing, g.path)
  <2>4. BinPath(c) = BinPath(g.cfg) /\ c["pass"] = g.cfg["pass"]
    <3>1. c = Settings(a.set, Nothing, ToYaml(g.cfg), DefaultSlug)
      BY <2>2, <2>3 DEF FromArgs
    <3> QED  BY <2>1, <3>1, FittingResolves
  <2> HIDE DEF c
  <2>5. bin[BinPath(g.cfg)] \notin {None, Torn} /\ g.cfg["pass"] # None
    <3>1. bin[BinPath(g.cfg)] \in Seals
      <4>1. g.id \in Bundles /\ g.cfg["pass"] \in Secrets
        BY <2>1, ChoiceIsTyped DEF TypeOK, IsGenerated, Typed
      <4> QED  BY <2>2, <4>1 DEF Seals
    <3> QED  BY <2>1, <3>1, MarksAreDistinct DEF IsGenerated
  <2>6. Opened(BinPath(c), c["pass"]) = g.id
    BY <2>2, <2>4, <2>5 DEF Opened
  <2> QED  BY <2>1, <2>3, <2>6 DEF Reached, Loads, c
<1> QED  BY <1>1, TypesCorrect, OwnerCorrect, PTL

-----------------------------------------------------------------------------
(* What a step leaves of the process that takes it, field by field.        *)

Keeps(p) == path'[p] = path[p] /\ cfg'[p] = cfg[p] /\ held'[p] = held[p]

HasEnded(p) == at'[p] = "off" /\ cfg'[p]["pass"] = None /\ held'[p] = None

HasMoved(p) ==
  /\ Keeps(p)
  /\ at[p] \notin {"off", "checked"} /\ at'[p] \notin {"off", "checked", "bundle"}
  /\ at'[p] \in GenSteps <=> at[p] \in GenSteps

HasChecked(p) ==
  /\ at'[p] = "checked" /\ held'[p] = None /\ path'[p] \in Slugs
  /\ conf[path'[p]] = None
  /\ cfg'[p]["pass"] \in Passes \cup {None}

HasStarted(p) ==
  /\ at'[p] = "up" /\ held'[p] = None /\ path'[p] \in Slugs
  /\ \/ cfg'[p]["pass"] \in Passes \cup {None}
     \/ HasPass(conf[path'[p]], cfg'[p]["pass"])

HasUnlocked(p) ==
  /\ at[p] = "up" /\ at'[p] = "up" /\ path'[p] = path[p] /\ cfg'[p] = cfg[p]
  /\ BinPath(cfg[p]) \in Slugs /\ bin[BinPath(cfg[p])] \notin {None, Torn}
  /\ bin[BinPath(cfg[p])].bundle = held'[p]
  /\ bin[BinPath(cfg[p])].pass = cfg[p]["pass"]

HasBegun(p) ==
  /\ at[p] = "checked" /\ at'[p] = "bundle" /\ keys' = keys + 1 /\ keys' \in Bundles
  /\ path'[p] = path[p] /\ held'[p] = keys'
  /\ bin[BinPath(cfg[p])] = None /\ BinPath(cfg'[p]) = BinPath(cfg[p])
  /\ cfg'[p]["pass"] \in Passes \cup {keys'}

OwnFields(p) ==
  /\ \A q \in Procs \ {p} : at'[q] = at[q] /\ Keeps(q)
  /\ \/ HasEnded(p) \/ HasMoved(p) \/ HasChecked(p) \/ HasStarted(p)
     \/ HasUnlocked(p) \/ HasBegun(p)

LEMMA OwnIs ==
  ASSUME TypeOK, NEW p \in Procs, OwnEffect(p)
  PROVE  OwnFields(p)
<1>1. CASE Ends(p)
  BY <1>1, EndsIs, NothingHasNoPass DEF OwnFields, HasEnded, Keeps
<1>2. CASE MovesOn(p)
  <2>1. PICK w \in Steps \ {"off", "checked", "bundle"} :
          /\ Moves(p, w) /\ (w \in GenSteps <=> at[p] \in GenSteps)
          /\ at[p] \notin {"off", "checked"}
    BY <1>2 DEF MovesOn
  <2>2. at'[p] = w /\ Keeps(p) /\ \A q \in Procs \ {p} : at'[q] = at[q] /\ Keeps(q)
    BY <2>1, MovesIs DEF Keeps
  <2>3. HasMoved(p)
    BY <2>1, <2>2 DEF HasMoved
  <2> QED  BY <2>2, <2>3 DEF OwnFields
<1>3. CASE Checks(p)
  <2>1. PICK file \in Slugs, c \in Choices :
          /\ Goes(p, "checked", file, c, None)
          /\ conf[file] = None /\ c["pass"] \in Passes \cup {None}
    BY <1>3 DEF Checks
  <2>2. /\ at'[p] = "checked" /\ path'[p] = file /\ cfg'[p] = c /\ held'[p] = None
        /\ \A q \in Procs \ {p} : at'[q] = at[q] /\ Keeps(q)
    BY <2>1, GoesIs DEF Keeps
  <2>3. HasChecked(p)
    BY <2>1, <2>2 DEF HasChecked
  <2> QED  BY <2>2, <2>3 DEF OwnFields
<1>4. CASE Starts(p)
  <2>1. PICK file \in Slugs, c \in Choices :
          /\ Goes(p, "up", file, c, None)
          /\ c["pass"] \in Passes \cup {None} \/ HasPass(conf[file], c["pass"])
    BY <1>4 DEF Starts
  <2>2. /\ at'[p] = "up" /\ path'[p] = file /\ cfg'[p] = c /\ held'[p] = None
        /\ \A q \in Procs \ {p} : at'[q] = at[q] /\ Keeps(q)
    BY <2>1, GoesIs DEF Keeps
  <2>3. HasStarted(p)
    BY <2>1, <2>2 DEF HasStarted
  <2> QED  BY <2>2, <2>3 DEF OwnFields
<1>5. CASE Unlock(p)
  <2> DEFINE b == Opened(BinPath(cfg[p]), cfg[p]["pass"])
  <2>1. b # None /\ Goes(p, "up", path[p], cfg[p], b) /\ at[p] = "up" /\ BinPath(cfg[p]) \in Slugs
    BY <1>5, ProcTypes DEF Unlock
  <2>2. /\ bin[BinPath(cfg[p])] \notin {None, Torn} /\ bin[BinPath(cfg[p])].bundle = b
        /\ bin[BinPath(cfg[p])].pass = cfg[p]["pass"]
    BY <2>1 DEF Opened
  <2> HIDE DEF b
  <2>3. /\ at'[p] = "up" /\ path'[p] = path[p] /\ cfg'[p] = cfg[p] /\ held'[p] = b
        /\ \A q \in Procs \ {p} : at'[q] = at[q] /\ Keeps(q)
    BY <2>1, GoesIs DEF Keeps
  <2>4. HasUnlocked(p)
    BY <2>1, <2>2, <2>3 DEF HasUnlocked
  <2> QED  BY <2>3, <2>4 DEF OwnFields
<1>6. CASE Begins(p)
  <2>1. PICK pw \in Passes \cup {keys'} :
          LET c == [cfg[p] EXCEPT !["pass"] = pw] IN
          /\ Goes(p, "bundle", path[p], c, keys')
          /\ c["pass"] = pw
          /\ \A f \in Fields \ {"pass"} : c[f] = cfg[p][f]
    BY <1>6, BeginsType
  <2> DEFINE c == [cfg[p] EXCEPT !["pass"] = pw]
  <2>2. /\ Goes(p, "bundle", path[p], c, keys') /\ c["pass"] = pw
        /\ c["bundle"] = cfg[p]["bundle"] /\ c["slug"] = cfg[p]["slug"]
    BY <2>1, FieldsAre
  <2> HIDE DEF c
  <2>3. /\ at'[p] = "bundle" /\ path'[p] = path[p] /\ cfg'[p] = c /\ held'[p] = keys'
        /\ \A q \in Procs \ {p} : at'[q] = at[q] /\ Keeps(q)
    BY <2>2, GoesIs DEF Keeps
  <2>4. BinPath(cfg'[p]) = BinPath(cfg[p])
    BY <2>2, <2>3 DEF BinPath
  <2>5. /\ at[p] = "checked" /\ keys' = keys + 1 /\ bin[BinPath(cfg[p])] = None /\ keys' \in Bundles
    BY <1>6, BeginsType DEF Begins
  <2>6. HasBegun(p)
    BY <2>1, <2>2, <2>3, <2>4, <2>5 DEF HasBegun
  <2> QED  BY <2>3, <2>6 DEF OwnFields
<1> QED  BY <1>1, <1>2, <1>3, <1>4, <1>5, <1>6 DEF OwnEffect

\* No file is taken away.
LEMMA FilesStay ==
  ASSUME TypeOK, TypeOK', StepsInv, NEW p \in Procs, DiskEffect(p), NEW s \in Slugs
  PROVE  /\ conf[s] # None => conf'[s] # None
         /\ bin[s] # None => bin'[s] # None
<1>1. CASE UNCHANGED diskVars
  BY <1>1 DEF diskVars
<1>2. CASE PutsConf(p)
  <2>1. PICK text \in Texts \cup {Torn, << >>} : conf' = [conf EXCEPT ![path[p]] = text]
    BY <1>2 DEF PutsConf
  <2>2. text # None /\ bin' = bin
    BY <1>2, <2>1, MarksAreDistinct DEF PutsConf
  <2> QED  BY <2>1, <2>2 DEF TypeOK
<1>3. CASE PutsBin(p)
  <2>1. PICK content \in {Torn, Sealed(p)} : bin' = [bin EXCEPT ![BinPath(cfg[p])] = content]
    BY <1>3 DEF PutsBin, SetsBin
  <2>2. Sealed(p) \in Seals
    <3>1. held[p] \in Bundles /\ cfg[p]["pass"] \in Secrets
      BY <1>3, ChoiceIsTyped DEF PutsBin, TypeOK, Typed
    <3> QED  BY <3>1 DEF Sealed, Seals
  <2>3. content # None /\ conf' = conf
    BY <1>3, <2>1, <2>2, MarksAreDistinct DEF PutsBin, SetsBin
  <2> QED  BY <2>1, <2>3 DEF TypeOK
<1> QED  BY <1>1, <1>2, <1>3 DEF DiskEffect

-----------------------------------------------------------------------------
(* Where an identity and its passphrase are.                               *)

\* The bundle i is nowhere but in one file and in the memory of those that
\* use this file, always under one passphrase; and the passphrase that was
\* generated with it is in one configuration file and in the settings that
\* were read from it.
Lives(i, file, c) ==
  /\ \A s \in Slugs : bin[s] \notin {None, Torn} /\ bin[s].bundle = i =>
       s = BinPath(c) /\ bin[s].pass = c["pass"]
  /\ \A p \in Procs : held[p] = i => BinPath(cfg[p]) = BinPath(c) /\ cfg[p]["pass"] = c["pass"]
  /\ \A s \in Slugs : HasPass(conf[s], i) => s = file
  /\ \A p \in Procs : cfg[p]["pass"] = i => path[p] = file
  /\ c["pass"] \in Passes \cup {i}

LivesInv ==
  /\ \A g \in made : Lives(g.id, g.path, g.cfg)
  /\ \A p \in Procs : at[p] \in GenSteps => Lives(held[p], path[p], cfg[p])

\* It stays there, whatever a process does.
LEMMA LivesStays ==
  ASSUME TypeOK, StepsInv, NEW p \in Procs, OwnFields(p), DiskEffect(p),
         NEW i \in Bundles, i <= keys, NEW file, NEW c, Lives(i, file, c)
  PROVE  /\ \A s \in Slugs : bin'[s] \notin {None, Torn} /\ bin'[s].bundle = i =>
              s = BinPath(c) /\ bin'[s].pass = c["pass"]
         /\ \A q \in Procs : held'[q] = i => BinPath(cfg'[q]) = BinPath(c) /\ cfg'[q]["pass"] = c["pass"]
         /\ \A s \in Slugs : HasPass(conf'[s], i) => s = file
         /\ \A q \in Procs : cfg'[q]["pass"] = i => path'[q] = file
<1>1. i # None /\ i # Torn /\ i \notin Passes /\ i # keys + 1
  BY BundleIsNumber, Bounds DEF TypeOK
<1>2. \A s \in Slugs : bin'[s] \notin {None, Torn} /\ bin'[s].bundle = i =>
        s = BinPath(c) /\ bin'[s].pass = c["pass"]
  <2>1. CASE bin' = bin
    BY <2>1 DEF Lives
  <2>2. CASE PutsBin(p)
    <3>1. PICK content \in {Torn, Sealed(p)} : bin' = [bin EXCEPT ![BinPath(cfg[p])] = content]
      BY <2>2 DEF PutsBin, SetsBin
    <3>2. content # Torn /\ content.bundle = i => BinPath(cfg[p]) = BinPath(c) /\ content.pass = c["pass"]
      BY DEF Lives, Sealed
    <3> QED  BY <3>1, <3>2 DEF Lives, TypeOK
  <2> QED  BY <2>1, <2>2 DEF DiskEffect, PutsConf, diskVars
<1>3. \A s \in Slugs : HasPass(conf'[s], i) => s = file
  <2>1. CASE conf' = conf
    BY <2>1 DEF Lives
  <2>2. CASE PutsConf(p)
    <3>1. PICK text : conf' = [conf EXCEPT ![path[p]] = text] /\ (HasPass(text, i) => cfg[p]["pass"] = i)
      BY <2>2 DEF PutsConf
    <3>2. HasPass(text, i) => path[p] = file
      BY <3>1 DEF Lives
    <3> QED  BY <3>1, <3>2 DEF Lives, TypeOK
  <2> QED  BY <2>1, <2>2 DEF DiskEffect, PutsBin, SetsBin, diskVars
<1>4. /\ held'[p] = i => BinPath(cfg'[p]) = BinPath(c) /\ cfg'[p]["pass"] = c["pass"]
      /\ cfg'[p]["pass"] = i => path'[p] = file
  <2>1. CASE HasEnded(p) \/ HasChecked(p)
    BY <1>1, <2>1 DEF HasEnded, HasChecked
  <2>2. CASE HasMoved(p)
    BY <2>2 DEF HasMoved, Keeps, Lives
  <2>3. CASE HasStarted(p)
    BY <1>1, <2>3 DEF HasStarted, Lives
  <2>4. CASE HasUnlocked(p)
    BY <2>4 DEF HasUnlocked, Lives
  <2>5. CASE HasBegun(p)
    BY <1>1, <2>5 DEF HasBegun
  <2> QED  BY <2>1, <2>2, <2>3, <2>4, <2>5 DEF OwnFields
<1>5. ASSUME NEW q \in Procs \ {p}
      PROVE  /\ held'[q] = i => BinPath(cfg'[q]) = BinPath(c) /\ cfg'[q]["pass"] = c["pass"]
             /\ cfg'[q]["pass"] = i => path'[q] = file
  BY DEF OwnFields, Keeps, Lives
<1> QED  BY <1>2, <1>3, <1>4, <1>5

\* A number that is given out is nowhere else yet.
LEMMA LivesBegins ==
  ASSUME TypeOK, FreshInv, NEW p \in Procs, OwnFields(p), DiskEffect(p), HasBegun(p)
  PROVE  Lives(held[p], path[p], cfg[p])'
<1>1. PICK i \in Bundles : i = keys' /\ i > keys
  BY Bounds DEF HasBegun, TypeOK
<1>2. Unseen(i)
  BY <1>1 DEF FreshInv
<1>3. conf' = conf /\ bin' = bin
  BY DEF DiskEffect, PutsConf, PutsBin, HasBegun, diskVars
<1>4. held'[p] = i /\ cfg'[p]["pass"] \in Passes \cup {i}
  BY <1>1 DEF HasBegun
<1>5. \A q \in Procs \ {p} : held'[q] # i /\ cfg'[q]["pass"] # i
  BY <1>2 DEF OwnFields, Keeps, Unseen
<1> QED  BY <1>2, <1>3, <1>4, <1>5 DEF Lives, Unseen, HasPass, BinPath

LEMMA StepLivesInv ==
  ASSUME TypeOK, StepsInv, FreshInv, NumbersInv, LivesInv, NEW p \in Procs, Step(p)
  PROVE  LivesInv'
<1>1. OwnFields(p) /\ DiskEffect(p)
  BY StepEffect, OwnIs
<1>2. ASSUME NEW i \in Bundles, i <= keys, NEW file, NEW c, Lives(i, file, c)
      PROVE  /\ \A s \in Slugs : bin'[s] \notin {None, Torn} /\ bin'[s].bundle = i =>
                   s = BinPath(c) /\ bin'[s].pass = c["pass"]
             /\ \A q \in Procs : held'[q] = i =>
                   BinPath(cfg'[q]) = BinPath(c) /\ cfg'[q]["pass"] = c["pass"]
             /\ \A s \in Slugs : HasPass(conf'[s], i) => s = file
             /\ \A q \in Procs : cfg'[q]["pass"] = i => path'[q] = file
             /\ c["pass"] \in Passes \cup {i}
  <2>1. c["pass"] \in Passes \cup {i}
    BY <1>2 DEF Lives
  <2> QED  BY <1>1, <1>2, <2>1, LivesStays
<1>3. \A q \in Procs : at[q] \in GenSteps => held[q] \in Bundles /\ held[q] <= keys
  BY DEF TypeOK, StepsInv, NumbersInv
<1>4. ASSUME NEW g \in made'
      PROVE  Lives(g.id, g.path, g.cfg)'
  <2>1. g.id \in Bundles /\ g.id <= keys /\ Lives(g.id, g.path, g.cfg)
    <3>1. CASE g \in made
      BY <3>1 DEF TypeOK, NumbersInv, LivesInv
    <3>2. CASE WriteConfig(p) /\ g.id = held[p] /\ g.path = path[p] /\ g.cfg = cfg[p]
      <4>1. at[p] \in GenSteps
        BY <3>2 DEF WriteConfig, GenSteps
      <4> QED  BY <1>3, <3>2, <4>1 DEF LivesInv
    <3> QED  BY <1>4, <3>1, <3>2, PastType
  <2>2. PICK i \in Bundles, file \in {g.path}, c \in {g.cfg} : i = g.id
    BY <2>1
  <2>3. i <= keys /\ Lives(i, file, c)
    BY <2>1, <2>2
  <2>4. /\ \A s \in Slugs : bin'[s] \notin {None, Torn} /\ bin'[s].bundle = i =>
             s = BinPath(c) /\ bin'[s].pass = c["pass"]
        /\ \A r \in Procs : held'[r] = i =>
             BinPath(cfg'[r]) = BinPath(c) /\ cfg'[r]["pass"] = c["pass"]
        /\ \A s \in Slugs : HasPass(conf'[s], i) => s = file
        /\ \A r \in Procs : cfg'[r]["pass"] = i => path'[r] = file
        /\ c["pass"] \in Passes \cup {i}
    BY <1>2, <2>3
  <2> QED  BY <2>2, <2>4 DEF Lives, BinPath, HasPass
<1>5. ASSUME NEW q \in Procs, at'[q] \in GenSteps
      PROVE  Lives(held[q], path[q], cfg[q])'
  <2>1. CASE at[q] \in GenSteps /\ Keeps(q)
    <3>1. PICK i \in Bundles, file \in Slugs, c \in Choices : i = held[q] /\ file = path[q] /\ c = cfg[q]
      <4>1. at[q] # "off"
        BY <2>1 DEF GenSteps
      <4> QED  BY <1>3, <2>1, <4>1, ProcTypes
    <3>2. i <= keys /\ Lives(i, file, c)
      BY <1>3, <2>1, <3>1 DEF LivesInv
    <3>3. held'[q] = i /\ path'[q] = file /\ cfg'[q] = c
      BY <2>1, <3>1 DEF Keeps
    <3>4. /\ \A s \in Slugs : bin'[s] \notin {None, Torn} /\ bin'[s].bundle = i =>
               s = BinPath(c) /\ bin'[s].pass = c["pass"]
          /\ \A r \in Procs : held'[r] = i =>
               BinPath(cfg'[r]) = BinPath(c) /\ cfg'[r]["pass"] = c["pass"]
          /\ \A s \in Slugs : HasPass(conf'[s], i) => s = file
          /\ \A r \in Procs : cfg'[r]["pass"] = i => path'[r] = file
          /\ c["pass"] \in Passes \cup {i}
      BY <1>2, <3>2
    <3> QED  BY <3>3, <3>4 DEF Lives, BinPath, HasPass
  <2>2. CASE q = p /\ HasBegun(p)
    BY <1>1, <2>2, LivesBegins
  <2>3. (at[q] \in GenSteps /\ Keeps(q)) \/ (q = p /\ HasBegun(p))
    <3>1. "off" \notin GenSteps /\ "checked" \notin GenSteps /\ "up" \notin GenSteps
      BY DEF GenSteps
    <3>2. CASE q # p
      BY <1>1, <1>5, <3>2 DEF OwnFields
    <3>3. CASE q = p
      BY <1>1, <1>5, <3>1, <3>3 DEF OwnFields, HasEnded, HasMoved, HasChecked, HasStarted, HasUnlocked
    <3> QED  BY <3>2, <3>3
  <2> QED  BY <2>1, <2>2, <2>3
<1> QED  BY <1>4, <1>5 DEF LivesInv

LEMMA LivesCorrect == Spec => []LivesInv
<1>1. Init => LivesInv
  BY DEF Init, LivesInv, GenSteps
<1>2. TypeOK /\ StepsInv /\ FreshInv /\ NumbersInv /\ LivesInv /\ [Next]_vars => LivesInv'
  <2>1. ASSUME TypeOK, StepsInv, FreshInv, NumbersInv, LivesInv, Next PROVE LivesInv'
    BY <2>1, NextIsStep, StepLivesInv
  <2>2. LivesInv /\ UNCHANGED vars => LivesInv'
    BY DEF LivesInv, Lives, HasPass, BinPath, vars, diskVars, procVars, pastVars
  <2> QED  BY <2>1, <2>2
<1> QED  BY <1>1, <1>2, TypesCorrect, NumbersCorrect, PTL DEF Spec

-----------------------------------------------------------------------------
(* What loses an identity.                                                 *)

\* No other generation writes the files of one that was alone on them.
AloneInv ==
  /\ \A p \in Procs : at[p] \in {"cut bundle", "config", "cut config"} =>
       bin[BinPath(cfg[p])] # None
  /\ \A g \in made : g.alone =>
       /\ conf[g.path] # None /\ bin[BinPath(g.cfg)] # None
       /\ \A p \in Procs :
            /\ at[p] \in GenSteps \cup {"checked"} => path[p] # g.path
            /\ at[p] \in GenSteps => BinPath(cfg[p]) # BinPath(g.cfg)

\* Who has the bundle still to write its configuration beside has written,
\* or is writing, the bundle.
LEMMA PastBundle ==
  ASSUME TypeOK, StepsInv, NEW p \in Procs, Step(p), HasMoved(p),
         at'[p] \in {"cut bundle", "config", "cut config"}
  PROVE  at[p] \in {"cut bundle", "config", "cut config"} \/ OpenBundle(p)
<1>1. at[p] \in GenSteps
  BY DEF HasMoved, GenSteps
<1>2. at[p] # "bundle" => at[p] \in {"cut bundle", "config", "cut config"}
  BY <1>1 DEF GenSteps
<1>3. CASE at[p] = "bundle"
  <2>1. ~Daemon(p)
    BY <1>3 DEF Daemon, Start, Unlock, ReopenConfig, RewriteConfig, ReopenBundle, RewriteBundle
  <2>2. ~WriteFails(p)
    BY <1>3 DEF WriteFails, CutSteps
  <2>3. ~Stop(p)
    <3>1. Stop(p) => at'[p] = "off"
      BY EndsIs DEF Stop
    <3> QED  BY <3>1
  <2>4. Generate(p) => OpenBundle(p)
    BY <1>3 DEF Generate, GenCheckConfig, GenCheckBundle, WriteBundle, OpenConfig, WriteConfig
  <2> QED  BY <2>1, <2>2, <2>3, <2>4 DEF Step
<1> QED  BY <1>2, <1>3

LEMMA StepAloneInv ==
  ASSUME TypeOK, TypeOK', StepsInv, AloneInv, NEW p \in Procs, Step(p)
  PROVE  AloneInv'
<1>1. OwnFields(p) /\ DiskEffect(p)
  BY StepEffect, OwnIs
<1>2. \A s \in Slugs : /\ conf[s] # None => conf'[s] # None
                       /\ bin[s] # None => bin'[s] # None
  BY <1>1, FilesStay
<1>3. "off" \notin GenSteps /\ "checked" \notin GenSteps /\ "up" \notin GenSteps
      /\ {"cut bundle", "config", "cut config"} \subseteq GenSteps
  BY DEF GenSteps
<1>4. \A q \in Procs : at[q] \in GenSteps => BinPath(cfg[q]) \in Slugs /\ path[q] \in Slugs
  BY <1>3, ProcTypes
<1>5. ASSUME NEW q \in Procs, at'[q] \in {"cut bundle", "config", "cut config"}
      PROVE  bin'[BinPath(cfg'[q])] # None
  <2>1. CASE at[q] \in {"cut bundle", "config", "cut config"} /\ cfg'[q] = cfg[q]
    BY <1>2, <1>3, <1>4, <2>1 DEF AloneInv
  <2>2. CASE q = p /\ HasMoved(p)
    <3>1. CASE OpenBundle(p)
      <4>1. BinPath(cfg[p]) \in Slugs /\ cfg'[p] = cfg[p]
        BY <2>2, <3>1, ProcTypes DEF OpenBundle, HasMoved, Keeps
      <4>2. bin' = [bin EXCEPT ![BinPath(cfg[p])] = Torn]
        BY <3>1 DEF OpenBundle, SetsBin
      <4> QED  BY <2>2, <4>1, <4>2, MarksAreDistinct DEF TypeOK
    <3> QED  BY <1>5, <2>1, <2>2, <3>1, PastBundle DEF HasMoved, Keeps
  <2>3. CASE q # p
    BY <1>1, <1>5, <2>1, <2>3 DEF OwnFields, Keeps
  <2> QED  BY <1>1, <1>5, <2>2, <2>3 DEF OwnFields, HasEnded, HasChecked, HasStarted, HasUnlocked, HasBegun
<1>6. ASSUME NEW f \in Slugs, NEW b \in Slugs, conf[f] # None, bin[b] # None,
             \A q \in Procs : /\ at[q] \in GenSteps \cup {"checked"} => path[q] # f
                              /\ at[q] \in GenSteps => BinPath(cfg[q]) # b
      PROVE  /\ conf'[f] # None /\ bin'[b] # None
             /\ \A q \in Procs : /\ at'[q] \in GenSteps \cup {"checked"} => path'[q] # f
                                 /\ at'[q] \in GenSteps => BinPath(cfg'[q]) # b
  <2>1. ASSUME NEW q \in Procs \ {p}
        PROVE  /\ at'[q] \in GenSteps \cup {"checked"} => path'[q] # f
               /\ at'[q] \in GenSteps => BinPath(cfg'[q]) # b
    BY <1>1, <1>6 DEF OwnFields, Keeps
  <2>2. /\ at'[p] \in GenSteps \cup {"checked"} => path'[p] # f
        /\ at'[p] \in GenSteps => BinPath(cfg'[p]) # b
    <3>1. CASE HasEnded(p) \/ HasStarted(p) \/ HasUnlocked(p)
      BY <1>3, <3>1 DEF HasEnded, HasStarted, HasUnlocked
    <3>2. CASE HasMoved(p)
      BY <1>3, <1>6, <3>2 DEF HasMoved, Keeps
    <3>3. CASE HasChecked(p)
      BY <1>3, <1>6, <3>3 DEF HasChecked
    <3>4. CASE HasBegun(p)
      BY <1>3, <1>6, <3>4 DEF HasBegun
    <3> QED  BY <1>1, <3>1, <3>2, <3>3, <3>4 DEF OwnFields
  <2> QED  BY <1>2, <1>6, <2>1, <2>2
<1>7. ASSUME NEW g \in made', g.alone
      PROVE  /\ conf'[g.path] # None /\ bin'[BinPath(g.cfg)] # None
             /\ \A q \in Procs : /\ at'[q] \in GenSteps \cup {"checked"} => path'[q] # g.path
                                 /\ at'[q] \in GenSteps => BinPath(cfg'[q]) # BinPath(g.cfg)
  <2>1. CASE g \in made
    <3>1. PICK f \in Slugs, b \in Slugs : f = g.path /\ b = BinPath(g.cfg)
      BY <2>1, BinPathType DEF TypeOK, StepsInv, IsGenerated
    <3>2. /\ conf[f] # None /\ bin[b] # None
          /\ \A q \in Procs : /\ at[q] \in GenSteps \cup {"checked"} => path[q] # f
                              /\ at[q] \in GenSteps => BinPath(cfg[q]) # b
      BY <1>7, <2>1, <3>1 DEF AloneInv
    <3> QED  BY <1>6, <3>1, <3>2
  <2>2. CASE g \notin made
    <3>1. WriteConfig(p) /\ g = [id |-> held[p], path |-> path[p], cfg |-> cfg[p], alone |-> Rivals(p) = {}]
      BY <1>7, <2>2, PastType
    <3>2. PICK f \in Slugs, b \in Slugs : f = path[p] /\ b = BinPath(cfg[p])
      BY <3>1, ProcTypes DEF WriteConfig
    <3>3. at[p] = "cut config" /\ FillsConf(p) /\ Rivals(p) = {} /\ HasEnded(p)
      BY <1>7, <3>1, EndsIs, NothingHasNoPass DEF WriteConfig, HasEnded
    <3>4. bin[b] # None
      BY <3>2, <3>3 DEF AloneInv
    <3>5. \A q \in Procs \ {p} : /\ at[q] \in GenSteps \cup {"checked"} => path[q] # f
                                 /\ at[q] \in GenSteps => BinPath(cfg[q]) # b
      BY <3>2, <3>3 DEF Rivals
    <3>6. at'[p] = "off" /\ \A q \in Procs \ {p} : at'[q] = at[q] /\ Keeps(q)
      BY <1>1, <3>3 DEF HasEnded, OwnFields
    <3>7. conf'[f] # None
      <4>1. ToYaml(cfg[p]) # None /\ Torn # None
        BY TextOfChoice, MarksAreDistinct DEF TypeOK
      <4>2. \E text \in {ToYaml(cfg[p]), Torn} : conf' = [conf EXCEPT ![path[p]] = text]
        BY <3>3 DEF FillsConf, SetsConf
      <4> QED  BY <3>2, <4>1, <4>2 DEF TypeOK
    <3>8. \A q \in Procs : /\ at'[q] \in GenSteps \cup {"checked"} => path'[q] # f
                           /\ at'[q] \in GenSteps => BinPath(cfg'[q]) # b
      BY <1>3, <3>5, <3>6 DEF Keeps
    <3>9. g.path = f /\ BinPath(g.cfg) = b
      BY <3>1, <3>2
    <3> QED  BY <1>2, <3>4, <3>7, <3>8, <3>9
  <2> QED  BY <2>1, <2>2
<1> QED  BY <1>5, <1>7 DEF AloneInv, BinPath

LEMMA AloneCorrect == Spec => []AloneInv
<1>1. Init => AloneInv
  BY DEF Init, AloneInv
<1>2. TypeOK /\ TypeOK' /\ StepsInv /\ AloneInv /\ [Next]_vars => AloneInv'
  <2>1. ASSUME TypeOK, TypeOK', StepsInv, AloneInv, Next PROVE AloneInv'
    BY <2>1, NextIsStep, StepAloneInv
  <2>2. AloneInv /\ UNCHANGED vars => AloneInv'
    BY DEF AloneInv, BinPath, vars, diskVars, procVars, pastVars
  <2> QED  BY <2>1, <2>2
<1> QED  BY <1>1, <1>2, TypesCorrect, PTL DEF Spec

\* Who, but a generation, writes a bundle: a daemon that opens it and has it
\* still to write, or that has done so.
LEMMA BinWriters ==
  ASSUME TypeOK, StepsInv, NEW p \in Procs, Step(p), bin' # bin, at[p] \notin GenSteps
  PROVE  /\ PutsBin(p) /\ Keeps(p)
         /\ at'[p] = "re-bundle" \/ (at[p] = "re-bundle" /\ at'[p] = "up")
<1>1. DiskEffect(p)
  BY StepEffect
<1>2. PutsBin(p)
  BY <1>1 DEF DiskEffect, PutsConf, diskVars
<1>3. CASE ReopenBundle(p)
  BY <1>2, <1>3, MovesIs DEF ReopenBundle, Keeps
<1>4. CASE RewriteBundle(p)
  BY <1>2, <1>4, MovesIs DEF RewriteBundle, Keeps
<1>5. CASE WriteFails(p)
  <2>1. at[p] = "re-bundle"
    BY <1>5 DEF WriteFails, SetsConf, GenSteps
  <2>2. Moves(p, "up")
    BY <1>5, <2>1 DEF WriteFails, GenSteps
  <2> QED  BY <1>2, <2>1, <2>2, MovesIs DEF Keeps
<1>6. ~Generate(p)
  <2>1. ASSUME NEW a \in Args, GenCheckConfig(p, a) PROVE FALSE
    BY <2>1 DEF GenCheckConfig, diskVars
  <2>2. ~GenCheckBundle(p)
    BY DEF GenCheckBundle, diskVars
  <2> QED  BY <2>1, <2>2 DEF Generate, OpenBundle, WriteBundle, OpenConfig, WriteConfig, GenSteps
<1>7. ~Stop(p)
  BY DEF Stop, diskVars
<1>8. Daemon(p) => ReopenBundle(p) \/ RewriteBundle(p)
  BY DEF Daemon, Start, Unlock, ReopenConfig, RewriteConfig, SetsConf, FillsConf, diskVars
<1> QED  BY <1>3, <1>4, <1>5, <1>6, <1>7, <1>8 DEF Step

\* The same of a configuration.
LEMMA ConfWriters ==
  ASSUME TypeOK, StepsInv, NEW p \in Procs, Step(p), conf' # conf, at[p] \notin GenSteps
  PROVE  /\ PutsConf(p) /\ Keeps(p)
         /\ at'[p] = "re-config" \/ (at[p] = "re-config" /\ at'[p] = "up")
<1>1. DiskEffect(p)
  BY StepEffect
<1>2. PutsConf(p)
  BY <1>1 DEF DiskEffect, PutsBin, SetsBin, diskVars
<1>3. CASE ReopenConfig(p)
  BY <1>2, <1>3, MovesIs DEF ReopenConfig, Keeps
<1>4. CASE RewriteConfig(p)
  BY <1>2, <1>4, MovesIs DEF RewriteConfig, Keeps
<1>5. CASE WriteFails(p)
  <2>1. at[p] = "re-config"
    BY <1>5 DEF WriteFails, SetsBin, CutSteps, GenSteps
  <2>2. Moves(p, "up")
    BY <1>5, <2>1 DEF WriteFails, GenSteps
  <2> QED  BY <1>2, <2>1, <2>2, MovesIs DEF Keeps
<1>6. ~Generate(p)
  <2>1. ASSUME NEW a \in Args, GenCheckConfig(p, a) PROVE FALSE
    BY <2>1 DEF GenCheckConfig, diskVars
  <2>2. ~GenCheckBundle(p)
    BY DEF GenCheckBundle, diskVars
  <2> QED  BY <2>1, <2>2 DEF Generate, OpenBundle, WriteBundle, OpenConfig, WriteConfig, GenSteps
<1>7. ~Stop(p)
  BY DEF Stop, diskVars
<1>8. Daemon(p) => ReopenConfig(p) \/ RewriteConfig(p)
  BY DEF Daemon, Start, Unlock, ReopenBundle, RewriteBundle, SetsBin, diskVars
<1> QED  BY <1>3, <1>4, <1>5, <1>6, <1>7, <1>8 DEF Step

\* A daemon that has a file still to write ends, or goes on, when it moves.
LEMMA CutEnds ==
  ASSUME TypeOK, NEW p \in Procs, Step(p), at[p] \in {"re-bundle", "re-config"}
  PROVE  at'[p] \in {"off", "up"}
<1>1. CASE Stop(p)
  BY <1>1, EndsIs DEF Stop
<1>2. CASE WriteFails(p)
  <2>1. Ends(p) \/ Moves(p, "up")
    BY <1>2 DEF WriteFails
  <2>2. CASE Ends(p)
    BY <2>2, EndsIs
  <2>3. CASE Moves(p, "up")
    <3>1. at'[p] = "up"
      BY <2>3, MovesIs
    <3> QED  BY <3>1
  <2> QED  BY <2>1, <2>2, <2>3
<1>3. CASE RewriteConfig(p) \/ RewriteBundle(p)
  <2>1. at'[p] = "up"
    BY <1>3, MovesIs DEF RewriteConfig, RewriteBundle
  <2> QED  BY <2>1
<1>4. ~Generate(p)
  BY DEF Generate, GenCheckConfig, GenCheckBundle, OpenBundle, WriteBundle, OpenConfig, WriteConfig
<1>5. Daemon(p) => RewriteConfig(p) \/ RewriteBundle(p)
  BY DEF Daemon, Start, Unlock, ReopenConfig, ReopenBundle
<1> QED  BY <1>1, <1>2, <1>3, <1>4, <1>5 DEF Step

\* The bundle i is in the file, or a daemon is about to write it there.
BundleLives(i, home, pw) ==
  \/ bin[home] = [bundle |-> i, pass |-> pw]
  \/ \E q \in Procs : at[q] = "re-bundle" /\ held[q] = i

LEMMA BundleStays ==
  ASSUME TypeOK, StepsInv, NEW p \in Procs, Step(p),
         NEW i \in Bundles, NEW home \in Slugs, NEW pw \in Secrets,
         \A q \in Procs : held[q] = i => BinPath(cfg[q]) = home /\ cfg[q]["pass"] = pw,
         \A q \in Procs : at[q] \in GenSteps => BinPath(cfg[q]) # home,
         ~LeavesCut(p), ~SavesAnother(p, i), BundleLives(i, home, pw)
  PROVE  \/ bin'[home] = [bundle |-> i, pass |-> pw]
         \/ \E q \in Procs : at'[q] = "re-bundle" /\ held'[q] = i /\ cfg'[q]["pass"] = pw
<1>1. OwnFields(p) /\ DiskEffect(p)
  BY StepEffect, OwnIs
<1>2. ASSUME at[p] = "re-bundle", held[p] = i
      PROVE  bin'[home] = [bundle |-> i, pass |-> pw]
  <2>1. bin'[BinPath(cfg[p])] = Sealed(p)
    BY <1>2, CutEnds DEF LeavesCut
  <2> QED  BY <1>2, <2>1 DEF Sealed
<1>3. CASE \E q \in Procs : at[q] = "re-bundle" /\ held[q] = i
  <2>1. PICK q \in Procs : at[q] = "re-bundle" /\ held[q] = i
    BY <1>3
  <2>2. CASE q = p
    BY <1>2, <2>1, <2>2
  <2>3. CASE q # p
    BY <1>1, <2>1, <2>3 DEF OwnFields, Keeps
  <2> QED  BY <2>2, <2>3
<1>4. CASE bin[home] = [bundle |-> i, pass |-> pw]
  <2>1. CASE bin'[home] = bin[home]
    BY <1>4, <2>1
  <2>2. CASE bin'[home] # bin[home]
    <3>1. PutsBin(p) /\ BinPath(cfg[p]) = home
      BY <1>1, <2>2 DEF DiskEffect, PutsConf, PutsBin, SetsBin, diskVars, TypeOK
    <3>2. at[p] \notin GenSteps
      BY <3>1
    <3>3. Keeps(p) /\ (at'[p] = "re-bundle" \/ (at[p] = "re-bundle" /\ at'[p] = "up"))
      BY <2>2, <3>2, BinWriters
    <3>4. held[p] = i
      BY <3>3 DEF SavesAnother
    <3> QED  BY <1>2, <3>3, <3>4 DEF Keeps
  <2> QED  BY <2>1, <2>2
<1> QED  BY <1>3, <1>4 DEF BundleLives

\* The passphrase i is in the file, or a daemon is about to write it there.
PassLives(i, file) ==
  \/ HasPass(conf[file], i)
  \/ \E q \in Procs : at[q] = "re-config" /\ cfg[q]["pass"] = i

LEMMA PassStays ==
  ASSUME TypeOK, StepsInv, NEW p \in Procs, Step(p), NEW i \in Bundles, NEW file \in Slugs,
         \A q \in Procs : held[q] = i => cfg[q]["pass"] = i,
         \A q \in Procs : cfg[q]["pass"] = i => path[q] = file,
         \A q \in Procs : at[q] \in GenSteps => path[q] # file,
         ~LeavesCut(p), ~SavesAnother(p, i), PassLives(i, file)
  PROVE  \/ HasPass(conf'[file], i)
         \/ \E q \in Procs : at'[q] = "re-config" /\ cfg'[q]["pass"] = i
<1>1. OwnFields(p) /\ DiskEffect(p)
  BY StepEffect, OwnIs
<1>2. ASSUME at[p] = "re-config", cfg[p]["pass"] = i
      PROVE  HasPass(conf'[file], i)
  <2>1. conf'[file] = ToYaml(cfg[p])
    BY <1>2, CutEnds DEF LeavesCut
  <2>2. cfg[p] \in Choices /\ cfg[p]["pass"] # None /\ "pass" \in Fields
    BY <1>2, BundleIsNumber, FieldsAre DEF TypeOK
  <2> QED  BY <1>2, <2>1, <2>2, TextOfChoice DEF HasPass
<1>3. CASE \E q \in Procs : at[q] = "re-config" /\ cfg[q]["pass"] = i
  <2>1. PICK q \in Procs : at[q] = "re-config" /\ cfg[q]["pass"] = i
    BY <1>3
  <2>2. CASE q = p
    BY <1>2, <2>1, <2>2
  <2>3. CASE q # p
    BY <1>1, <2>1, <2>3 DEF OwnFields, Keeps
  <2> QED  BY <2>2, <2>3
<1>4. CASE HasPass(conf[file], i)
  <2>1. CASE conf'[file] = conf[file]
    BY <1>4, <2>1
  <2>2. CASE conf'[file] # conf[file]
    <3>1. PutsConf(p) /\ path[p] = file
      BY <1>1, <2>2 DEF DiskEffect, PutsConf, PutsBin, SetsBin, diskVars, TypeOK
    <3>2. at[p] \notin GenSteps
      BY <3>1
    <3>3. Keeps(p) /\ (at'[p] = "re-config" \/ (at[p] = "re-config" /\ at'[p] = "up"))
      BY <2>2, <3>2, ConfWriters
    <3>4. cfg[p]["pass"] = i
      BY <3>3 DEF SavesAnother
    <3> QED  BY <1>2, <3>3, <3>4 DEF Keeps
  <2> QED  BY <2>1, <2>2
<1> QED  BY <1>3, <1>4 DEF PassLives

\* Where the identity and its passphrase can be found now.
LEMMA RecoverableIs ==
  ASSUME TypeOK, StepsInv, NumbersInv, LivesInv, AloneInv,
         NEW g \in made, g.alone, Recoverable(g.id)
  PROVE  /\ g.id \in Bundles /\ BinPath(g.cfg) \in Slugs /\ g.path \in Slugs /\ g.cfg["pass"] \in Secrets
         /\ BundleLives(g.id, BinPath(g.cfg), g.cfg["pass"])
         /\ g.cfg["pass"] \in Passes \/ (g.cfg["pass"] = g.id /\ PassLives(g.id, g.path))
<1>1. /\ g.id \in Bundles /\ g.path \in Slugs /\ g.cfg \in Choices /\ IsGenerated(g.cfg)
      /\ Lives(g.id, g.path, g.cfg)
  BY DEF TypeOK, StepsInv, LivesInv
<1>2. BinPath(g.cfg) \in Slugs /\ g.cfg["pass"] \in Secrets
  BY <1>1, BinPathType, ChoiceIsTyped DEF IsGenerated, Typed
<1>3. PICK i \in Bundles, file \in Slugs, c \in Choices : i = g.id /\ file = g.path /\ c = g.cfg
  BY <1>1
<1>4. Lives(i, file, c) /\ \A q \in Procs : at[q] \in GenSteps => held[q] # i /\ path[q] # file
  BY <1>1, <1>3 DEF NumbersInv, AloneInv
<1>5. PICK pw \in Secrets :
        /\ \/ \E s \in Slugs : bin[s] = [bundle |-> i, pass |-> pw]
           \/ \E q \in Procs : at[q] \in {"cut bundle", "re-bundle"} /\ held[q] = i /\ cfg[q]["pass"] = pw
        /\ \/ Known(pw)
           \/ \E q \in Procs : at[q] \in {"config", "cut config", "re-config"} /\ cfg[q]["pass"] = pw
  BY <1>3 DEF Recoverable
<1>6. BundleLives(i, BinPath(c), c["pass"]) /\ pw = c["pass"]
  <2>1. CASE \E s \in Slugs : bin[s] = [bundle |-> i, pass |-> pw]
    <3>1. PICK s \in Slugs : bin[s] = [bundle |-> i, pass |-> pw]
      BY <2>1
    <3>2. bin[s] \in Seals
      BY <3>1 DEF Seals
    <3>3. s = BinPath(c) /\ pw = c["pass"]
      BY <1>4, <3>1, <3>2, MarksAreDistinct DEF Lives
    <3> QED  BY <3>1, <3>3 DEF BundleLives
  <2>2. CASE \E q \in Procs : at[q] \in {"cut bundle", "re-bundle"} /\ held[q] = i /\ cfg[q]["pass"] = pw
    <3>1. PICK q \in Procs : at[q] \in {"cut bundle", "re-bundle"} /\ held[q] = i /\ cfg[q]["pass"] = pw
      BY <2>2
    <3>2. at[q] = "re-bundle" /\ pw = c["pass"]
      BY <1>4, <3>1 DEF Lives, GenSteps
    <3> QED  BY <3>1, <3>2 DEF BundleLives
  <2> QED  BY <1>5, <2>1, <2>2
<1>7. pw \in Passes \/ (pw = i /\ PassLives(i, file))
  <2> SUFFICES ASSUME pw \notin Passes PROVE pw = i /\ PassLives(i, file)
    OBVIOUS
  <2>1. pw = i
    BY <1>4, <1>6 DEF Lives
  <2>2. CASE Known(i)
    <3>1. PICK s \in Slugs : IsMapping(conf[s]) /\ "pass" \in DOMAIN conf[s] /\ conf[s]["pass"] = i
      BY <2>1, <2>2 DEF Known
    <3>2. HasPass(conf[s], i)
      BY <3>1 DEF HasPass, IsMapping
    <3> QED  BY <1>4, <2>1, <3>2 DEF PassLives, Lives
  <2>3. CASE \E q \in Procs : at[q] \in {"config", "cut config", "re-config"} /\ cfg[q]["pass"] = i
    BY <1>4, <2>1, <2>3 DEF PassLives, Lives, GenSteps
  <2> QED  BY <1>5, <2>1, <2>2, <2>3
<1> QED  BY <1>1, <1>2, <1>3, <1>6, <1>7

LEMMA RecoverableStays ==
  ASSUME TypeOK, StepsInv, NumbersInv, LivesInv, AloneInv, NEW p \in Procs, Step(p),
         NEW g \in made, g.alone, Recoverable(g.id), ~LeavesCut(p), ~SavesAnother(p, g.id)
  PROVE  Recoverable(g.id)'
<1>1. PICK i \in Bundles, home \in Slugs, file \in Slugs, pw \in Secrets, c \in {g.cfg} :
        /\ i = g.id /\ home = BinPath(c) /\ file = g.path /\ pw = c["pass"]
        /\ BundleLives(i, home, pw)
        /\ pw \in Passes \/ (pw = i /\ PassLives(i, file))
  BY RecoverableIs
<1>2. Lives(i, file, c) /\ ~SavesAnother(p, i)
  BY <1>1 DEF LivesInv
<1>3. \A q \in Procs : at[q] \in GenSteps => path[q] # file /\ BinPath(cfg[q]) # home
  BY <1>1 DEF AloneInv
<1>4. \A q \in Procs : held[q] = i => BinPath(cfg[q]) = home /\ cfg[q]["pass"] = pw
  BY <1>1, <1>2 DEF Lives
<1>5. \/ bin'[home] = [bundle |-> i, pass |-> pw]
      \/ \E q \in Procs : at'[q] = "re-bundle" /\ held'[q] = i /\ cfg'[q]["pass"] = pw
  BY <1>1, <1>2, <1>3, <1>4, BundleStays
<1>6. \/ pw \in Passes
      \/ \E s \in Slugs : IsMapping(conf'[s]) /\ "pass" \in DOMAIN conf'[s] /\ conf'[s]["pass"] = pw
      \/ \E q \in Procs : at'[q] = "re-config" /\ cfg'[q]["pass"] = pw
  <2> SUFFICES ASSUME pw \notin Passes
               PROVE  \/ \E s \in Slugs : IsMapping(conf'[s]) /\ "pass" \in DOMAIN conf'[s] /\ conf'[s]["pass"] = pw
                      \/ \E q \in Procs : at'[q] = "re-config" /\ cfg'[q]["pass"] = pw
    OBVIOUS
  <2>1. pw = i /\ PassLives(i, file)
    BY <1>1
  <2>2. \A q \in Procs : /\ held[q] = i => cfg[q]["pass"] = i
                         /\ cfg[q]["pass"] = i => path[q] = file
    BY <1>2, <1>4, <2>1 DEF Lives
  <2>3. \/ HasPass(conf'[file], i)
        \/ \E q \in Procs : at'[q] = "re-config" /\ cfg'[q]["pass"] = i
    BY <1>2, <1>3, <2>1, <2>2, PassStays
  <2>4. HasPass(conf'[file], i) => IsMapping(conf'[file])
    <3>1. "pass" \notin DOMAIN << >>
      OBVIOUS
    <3> QED  BY <3>1 DEF HasPass, IsMapping
  <2> QED  BY <2>1, <2>3, <2>4 DEF HasPass
<1> QED  BY <1>1, <1>5, <1>6 DEF Recoverable, Known, IsMapping

\* An identity that was generated, with no other generation on its files as
\* it ended, is lost only when a save of one of its files is cut short or
\* saved over, or by the save of a daemon that holds no or another identity;
\* for any number of daemons, generations, starts, failed writes and kills.
THEOREM OnlyTheseLose == Spec => OnlyCutOrForeignSavesLose
<1>1. TypeOK /\ StepsInv /\ NumbersInv /\ LivesInv /\ AloneInv /\ [Next]_vars =>
        [\A g \in made : g.alone /\ Recoverable(g.id) /\ ~Recoverable(g.id)' =>
           \E p \in Procs : LeavesCut(p) \/ SavesAnother(p, g.id)]_vars
  <2> SUFFICES ASSUME TypeOK, StepsInv, NumbersInv, LivesInv, AloneInv, Next,
                      NEW g \in made, g.alone, Recoverable(g.id), ~Recoverable(g.id)'
               PROVE  \E p \in Procs : LeavesCut(p) \/ SavesAnother(p, g.id)
    OBVIOUS
  <2>1. PICK p \in Procs : Step(p)
    BY NextIsStep
  <2> QED  BY <2>1, RecoverableStays
<1> QED  BY <1>1, TypesCorrect, NumbersCorrect, LivesCorrect, AloneCorrect, PTL
         DEF Spec, OnlyCutOrForeignSavesLose

=============================================================================
