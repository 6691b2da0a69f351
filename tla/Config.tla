--------------------------------- MODULE Config ---------------------------------
(***************************************************************************)
(* agentos-config: how agentos.toml becomes the configuration in force     *)
(* (profile inheritance, environment overlay, validation), and how a file  *)
(* of an older version is migrated in place.                               *)
(*                                                                         *)
(* A setting's value is named by the layer it comes from: the base         *)
(* document, a profile, the environment, or the default of the provider    *)
(* entry that a patch or the overlay inserts.                              *)
(***************************************************************************)
EXTENDS Naturals, Sequences, FiniteSets, FiniteSetsExt

CONSTANTS Callers, Profiles,
          Plain  \* settings that always have a value (kernel, storage, policy, actions, identity, browser)

VARIABLES document,  \* AgentOsConfigDocument
          load,      \* the load under way: where it is, the profile asked for, the chain, the config, the diagnostics
          original,  \* the text the operator wrote
          file, backup,
          migrations \* of every caller: where its migrate_file_to_current is and the text it read

fvars == <<document, load, original, file, backup, migrations>>
loadVars == <<document, load>>
fileVars == <<original, file, backup, migrations>>

Entry == {"endpoint", "model"}  \* the settings of the "openai" provider
Settings == Plain \cup Entry
Named == Profiles \cup {"none", "missing"}

\* A profile that is not defined extends nothing and names nothing.
Profile == {x \in [defined : BOOLEAN, extends : Named, named : SUBSET Settings] :
                x.defined \/ (x.extends = "none" /\ x.named = {})}

base(d) == [s \in Settings |-> IF s \in Plain \/ d.openai THEN "base" ELSE "absent"]
defined(profile) == profile \in Profiles /\ document.profiles[profile].defined

(* ---- profiles ---- *)

\* resolve_selected_profile: a blank kernel.profile is the base config.
resolve_selected_profile ==
    /\ load.at = "resting"
    /\ load' = IF document.selected = "none" THEN [load EXCEPT !.at = "resolved", !.config = base(document)]
               ELSE [load EXCEPT !.at = "chain", !.asked = document.selected, !.config = base(document)]
    /\ UNCHANGED document

\* One level of resolve_profile_chain: the cycle is asked before the profile is looked up.
resolve_profile_chain ==
    /\ load.at = "chain"
    /\ load' = IF \E i \in DOMAIN load.visiting : load.visiting[i] = load.asked
               THEN [load EXCEPT !.at = "ProfileCycle"]
               ELSE IF ~defined(load.asked) THEN [load EXCEPT !.at = "ProfileNotFound"]
               ELSE LET parent == document.profiles[load.asked].extends IN
                    [load EXCEPT !.at = IF parent = "none" THEN "apply" ELSE "chain",
                                 !.asked = parent, !.visiting = Append(@, load.asked)]
    /\ UNCHANGED document

\* A patch of a map (model.providers, actions.per_action, connectors) inserts a default entry for its key first.
with_entry(config, named) ==
    [s \in Settings |-> IF s \in Entry /\ named \cap Entry # {} /\ config[s] = "absent" THEN "default" ELSE config[s]]

\* A patch overrides what it names and leaves the rest.
apply_to(config, layer, named) ==
    [s \in Settings |-> IF s \in named THEN layer ELSE with_entry(config, named)[s]]

\* Faulty variant: the chain is applied from the selected profile up, so that a parent overrides its child.
resolve_profile_upwards ==
    /\ load.at = "apply"
    /\ LET profile == Head(load.visiting) IN
       load' = [load EXCEPT !.config = apply_to(@, profile, document.profiles[profile].named),
                            !.visiting = Tail(@), !.at = IF Len(load.visiting) = 1 THEN "resolved" ELSE @]
    /\ UNCHANGED document

\* The chain ends with the selected profile: its root, the last visited, is applied first.
resolve_profile ==
    /\ load.at = "apply"
    /\ LET n == Len(load.visiting)
           profile == load.visiting[n] IN
       load' = [load EXCEPT !.config = apply_to(@, profile, document.profiles[profile].named),
                            !.visiting = SubSeq(@, 1, n - 1), !.at = IF n = 1 THEN "resolved" ELSE @]
    /\ UNCHANGED document

(* ---- environment and validation ---- *)

\* A provider entry without an endpoint or model, or a default provider that has no entry.
validate(config) ==
    {s \in Entry : config[s] = "default"}
        \cup (IF document.uses_openai /\ config["endpoint"] = "absent" THEN {"default_provider"} ELSE {})

\* The overlay inserts the "openai" entry whether or not a variable names it; a timeout that is no number is
\* ignored; kernel.profile is set after the profiles were resolved.
apply_env_overlay(env) ==
    /\ load.at = "resolved"
    /\ load' = LET config == apply_to(with_entry(load.config, Entry), "env", env) IN
               [load EXCEPT !.at = "loaded", !.config = config, !.before = load.config, !.env = env,
                            !.diagnostics = validate(config)]
    /\ UNCHANGED document

LoadNext ==
    /\ \/ resolve_selected_profile \/ resolve_profile_chain \/ resolve_profile
       \/ \E env \in SUBSET Settings : apply_env_overlay(env)
    /\ UNCHANGED fileVars

(* ---- migration of the file ---- *)

CurrentVersion == 1
\* What is read back of a text that was cut: an empty file and a prefix that ends on a line parse, with defaults.
cuts(text) == {[holds |-> "nothing", version |-> 0, pretty |-> FALSE], [holds |-> "broken", version |-> 0, pretty |-> FALSE],
               [holds |-> "part", version |-> text.version, pretty |-> FALSE]}
migrated(text) == [text EXCEPT !.version = CurrentVersion, !.pretty = TRUE]
resting == [at |-> "resting", text |-> original, alone |-> TRUE]
at(p, step) == migrations[p].at = step
move(p, step) == migrations' = [migrations EXCEPT ![p].at = step]

migrates(text) == text.holds # "broken" /\ text.version <= CurrentVersion /\ text # migrated(text)
writing(p) == migrations[p].at \notin {"resting", "done"}

\* `alone` is whether every migration of the caller started from a whole file and overlapped with no other.
\* Reading, parsing, migrate_to_current and the comparison of the texts.  A dry run, a text that does not parse,
\* one of a newer version and one that is migrated already end here and change nothing.
migrate_to_current(p) ==
    /\ ~writing(p) /\ migrates(file)
    /\ LET alone == file.holds = "whole" /\ \A q \in Callers \ {p} : ~writing(q) IN
       migrations' = [q \in Callers |->
            IF q = p THEN [at |-> "backup", text |-> file, alone |-> alone /\ migrations[p].alone]
            ELSE [migrations[q] EXCEPT !.alone = @ /\ ~writing(q)]]
    /\ UNCHANGED <<original, file, backup>>

\* std::fs::write truncates, then writes: first the backup, which replaces an earlier one, then the file.
truncate_backup(p) ==
    /\ at(p, "backup") /\ move(p, "write_backup")
    /\ backup' = [holds |-> "nothing", version |-> 0, pretty |-> FALSE]
    /\ UNCHANGED <<original, file>>
write_backup(p) ==
    /\ at(p, "write_backup") /\ move(p, "truncate")
    /\ backup' = migrations[p].text
    /\ UNCHANGED <<original, file>>
truncate_file(p) ==
    /\ at(p, "truncate") /\ move(p, "write")
    /\ file' = [holds |-> "nothing", version |-> 0, pretty |-> FALSE]
    /\ UNCHANGED <<original, backup>>
write_file(p) ==
    /\ at(p, "write") /\ move(p, "done")
    /\ file' = migrated(migrations[p].text)
    /\ UNCHANGED <<original, backup>>

\* A write fails midway, or the process ends in it: the text is cut, and the caller may start again.
cut_short(p) ==
    /\ \/ at(p, "write_backup") /\ backup' \in cuts(migrations[p].text) /\ UNCHANGED file
       \/ at(p, "write") /\ file' \in cuts(migrated(migrations[p].text)) /\ UNCHANGED backup
       \/ at(p, "truncate") /\ UNCHANGED <<file, backup>>
    /\ migrations' = [migrations EXCEPT ![p] = [resting EXCEPT !.alone = migrations[p].alone]]
    /\ UNCHANGED original

MigrationNext ==
    /\ \E p \in Callers : \/ migrate_to_current(p) \/ truncate_backup(p) \/ write_backup(p)
                          \/ truncate_file(p) \/ write_file(p) \/ cut_short(p)
    /\ UNCHANGED loadVars

Init ==
    /\ document \in [selected : Named, openai : BOOLEAN, uses_openai : BOOLEAN, profiles : [Profiles -> Profile]]
    /\ load = [at |-> "resting", asked |-> "none", visiting |-> <<>>, config |-> base(document),
               before |-> base(document), env |-> {}, diagnostics |-> {}]
    /\ original \in [holds : {"whole"}, version : 0 .. 2, pretty : BOOLEAN]
    /\ file = original /\ backup = [holds |-> "nothing", version |-> 0, pretty |-> FALSE]
    /\ migrations = [p \in Callers |-> resting]

Next == LoadNext \/ MigrationNext
Spec == Init /\ [][Next]_fvars

(* ---- properties ---- *)

\* The profiles from the selected one up, as far as there can be different ones.
ancestors[n \in 0 .. Cardinality(Profiles)] ==
    IF n = 0 THEN document.selected
    ELSE IF defined(ancestors[n - 1]) THEN document.profiles[ancestors[n - 1]].extends ELSE "none"

\* The value the nearest profile gives a setting, or else the base document.
nearest(s) ==
    LET naming == {n \in DOMAIN ancestors : defined(ancestors[n]) /\ s \in document.profiles[ancestors[n]].named}
        entered == \E n \in DOMAIN ancestors :
                      defined(ancestors[n]) /\ document.profiles[ancestors[n]].named \cap Entry # {} IN
    IF naming # {} THEN ancestors[Min(naming)]
    ELSE IF s \in Entry /\ ~document.openai THEN IF entered THEN "default" ELSE "absent"
    ELSE "base"

ResolutionSound ==
    /\ load.at = "resolved" => \A s \in Settings : load.config[s] = nearest(s)
    /\ load.at = "loaded" => \A s \in Settings :
            load.config[s] = IF s \in load.env THEN "env" ELSE IF nearest(s) = "absent" THEN "default" ELSE nearest(s)
    /\ load.at = "ProfileCycle" <=> load.at \notin {"resting", "chain"}
                                    /\ \A n \in DOMAIN ancestors : defined(ancestors[n])
    /\ load.at = "ProfileNotFound" => \E n \in DOMAIN ancestors : ancestors[n] # "none" /\ ~defined(ancestors[n])
    /\ Len(load.visiting) <= Cardinality(Profiles)
    /\ load.at = "loaded" /\ load.diagnostics # {} /\ validate(load.before) = {} => load.before["endpoint"] = "absent"

MigrationSound ==
    /\ (\A p \in Callers : migrations[p].alone)
        => "whole" \in {file.holds, backup.holds} /\ (file # original => backup = original)
    /\ original.version > CurrentVersion => file = original

\* Every setting comes from the environment, else from the nearest profile that names it, else from the base;
\* an inheritance cycle and a missing profile are reported, never resolved; the overlay makes a valid
\* configuration invalid only by the provider entry it inserts.  A migration that no other overlaps and that
\* starts from a whole file leaves the operator's text in the file or, byte for byte, in the backup, wherever
\* it is cut short; one that starts again from the cut file may replace that backup, and is not spoken of.
\* A file of a later version is never written.
\* (agentos-config resolve_profile, apply_env_overlay, migrate_file_to_current)
ConfigSound == ResolutionSound /\ MigrationSound
================================================================================
