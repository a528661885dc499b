----------------------------- MODULE CommandLine -----------------------------
(***************************************************************************)
(* One run of the program from its arguments to an exit code or to a       *)
(* daemon that is ready to run (src/package/startup/startup/startup.cpp,   *)
(* startup_domain::startup, and parse_arguments.cpp). What follows the     *)
(* lock of the pid file is Startup's. boost::program_options is external:  *)
(* here it says which arguments there are, or that they are no good.       *)
(***************************************************************************)
EXTENDS Arguments, Sections

CONSTANTS
    Package,         \* registered packages
    None,            \* an option that is not given
    program_name,
    Conf(_),         \* the file name <name>.conf
    InstanceOf(_),   \* program name and name of the configuration, joined
    Cases            \* command lines [argv] the program is started with, and
                     \* files [disk] it finds: configurations and ini files

ASSUME CommandLineAssumption ==
    /\ \A c \in Cases :
          /\ c.argv.flags \subseteq {"help", "version", "info", "module-list",
                                   "component-list", "generate"}
          /\ c.argv.broken \subseteq 6..9
          /\ {c.argv.generate, c.argv.object_options} \subseteq Seq(Seq(STRING))
          /\ {c.argv.ini_list, c.argv.startup_ini_list} \subseteq Seq(STRING)
          /\ \A path \in DOMAIN c.disk.files :
                c.disk.files[path] \in
                   Seq([name : Seq(STRING), array : BOOLEAN, items : Seq(STRING)])
          /\ \A file \in DOMAIN c.disk.ini : c.disk.ini[file] \in STRING
    /\ Default \in STRING /\ None \notin {"generate", "start"}

VARIABLES
    argv,     \* the command line
    disk,     \* the files
    pa,       \* _pa, program_arguments
    stage,    \* how far startup() has got
    ready,    \* _ready
    command,  \* what it was taken for
    code,     \* what startup() returns
    shown,    \* what has been shown or generated, with its arguments
    written,  \* the file that was written
    settings  \* the configuration in force

world == <<argv, disk>>
result == <<ready, command, code, shown, written, settings>>
commandVars == <<world, pa, stage, result>>

\* What boost stores and what the constructor of program_arguments says.
Stored(a) ==
    [flags |-> a.flags, check_config |-> a.check_config,
     print_config |-> a.print_config, config_path |-> a.config_path,
     errorstring |-> FALSE, usage |-> a.usage, instance_name |-> a.instance_name,
     generate_options |-> Nothing, object_options |-> Nothing]

CommandInit ==
    /\ \E c \in Cases : argv = c.argv /\ disk = c.disk
    /\ pa = Stored(argv)
    /\ stage = "parse"
    /\ ready = FALSE /\ command = None /\ code = 0 /\ shown = {}
    /\ written = None /\ settings = Invalid

InstanceName ==
    IF argv.instance_name # None THEN argv.instance_name
    ELSE IF argv.config_path = None THEN program_name
    ELSE InstanceOf(argv.config_path)

\* parse_arguments. A text that is no time interval, or that boost does not
\* know, ends it; nothing else of pa matters then.
Parse ==
    /\ stage = "parse" /\ stage' = "find"
    /\ pa' = IF argv.wrong \/ argv.autoup_timeout = Bad
               THEN [pa EXCEPT !.errorstring = TRUE]
               ELSE [pa EXCEPT
                       !.generate_options = parse_generate(argv.generate),
                       !.object_options = parse_custom_options(argv.object_options),
                       !.instance_name = InstanceName]
    /\ UNCHANGED <<world, result>>

Found(file) == IF file \in DOMAIN disk.files THEN file ELSE None

\* A configuration that is not named is looked for by the name of the instance,
\* then by that of the program. Whoever has one needs no usage.
FindConfig ==
    /\ stage = "find" /\ stage' = "dispatch"
    /\ LET path == IF pa.config_path # None THEN pa.config_path
                   ELSE IF Found(Conf(pa.instance_name)) # None
                          THEN Conf(pa.instance_name)
                          ELSE Found(Conf(program_name))
       IN  pa' = [pa EXCEPT !.config_path = path, !.usage = @ /\ path = None]
    /\ UNCHANGED <<world, result>>

-----------------------------------------------------------------------------
Commands == <<"error", "usage", "help", "version", "info", "module-list",
              "component-list", "generate", "check-config", "print-config",
              "start">>

Asked(c) ==
    CASE c = "error" -> pa.errorstring
      [] c = "usage" -> pa.usage
      [] c = "check-config" -> pa.check_config # None
      [] c = "print-config" -> pa.print_config # None
      [] c = "start" -> pa.config_path # None
      [] OTHER -> c \in pa.flags

\* Mutant of Dispatched: the last command asked for wins.
DispatchedLast(c) ==
    LET i == SelectLastInSeq(Commands, Asked)
    IN  stage = "dispatch" /\ c = IF i = 0 THEN None ELSE Commands[i]

\* The order of the branches of startup().
Dispatched(c) ==
    LET i == SelectInSeq(Commands, Asked)
    IN  stage = "dispatch" /\ c = IF i = 0 THEN None ELSE Commands[i]

Return(c, n) ==
    /\ Dispatched(c) /\ command' = c
    /\ stage' = "done" /\ code' = n
    /\ UNCHANGED <<world, pa>>

ShowError ==
    /\ Return("error", 1)
    /\ UNCHANGED <<ready, shown, written, settings>>

\* What has the answer at hand. Without any command and any configuration there
\* is a message, and 0 all the same.
Show ==
    /\ \E c \in {"usage", "version", "module-list", "component-list",
                 "print-config", None} : Return(c, 0)
    /\ UNCHANGED <<ready, shown, written, settings>>

\* --help: of the components named, of all, or of the program.
Help ==
    /\ Return("help", 0)
    /\ shown' = {c \in Component : c \in Range(argv.help) \/ All \in Range(argv.help)}
    /\ UNCHANGED <<ready, written, settings>>

\* --info: the first unknown package ends the list.
Info ==
    /\ LET unknown == {i \in DOMAIN argv.info : argv.info[i] \notin Package}
       IN  /\ Return("info", IF unknown = {} THEN 0 ELSE 2)
           /\ shown' = {argv.info[i] : i \in 1..Min(unknown \cup {Len(argv.info) + 1}) - 1}
    /\ UNCHANGED <<ready, written, settings>>

\* What each component is generated with, by the names given. "all" alone, or
\* no name, means all of them; beside others it is the name of a component.
Generated(go) ==
    IF DOMAIN go \subseteq {All}
      THEN [c \in Component |-> IF All \in DOMAIN go THEN go[All] ELSE Nothing]
      ELSE go

\* Mutant of Target: what could be generated is written.
TargetAnyway(go) == pa.config_path

\* The file that generate_config writes, once everything is generated.
Target(go) == IF DOMAIN go \subseteq Component THEN pa.config_path ELSE None

Generate ==
    /\ LET go == Generated(pa.generate_options)
       IN  /\ Return("generate", IF DOMAIN go \subseteq Component THEN 0 ELSE 3)
           /\ shown' = IF DOMAIN go \subseteq Component
                         THEN {<<c, go[c]>> : c \in DOMAIN go} ELSE {}
           /\ written' = Target(go)
    /\ UNCHANGED <<ready, settings>>

\* g->ini is still empty.
CheckConfig ==
    /\ settings' = load(pa.check_config, <<>>, disk)
    /\ Return("check-config", IF settings'.ok THEN 0 ELSE 4)
    /\ UNCHANGED <<ready, shown, written>>

\* perform_start_: the configuration, the working directory, the user, the pid
\* file (to be locked and to be written) may fail, in this order.
PerformStart ==
    /\ settings' = load(pa.config_path, argv.ini_list \o argv.startup_ini_list,
                        disk)
    /\ LET order == <<5, 7, 6, 8, 9>>
           failing == argv.broken \cup (IF settings'.ok THEN {} ELSE {5})
           i == SelectInSeq(order, LAMBDA n : n \in failing)
       IN  /\ Return("start", IF i = 0 THEN 0 ELSE order[i])
           /\ ready' = (i = 0)
    /\ UNCHANGED <<shown, written>>

CommandNext ==
    \/ Parse \/ FindConfig
    \/ ShowError \/ Show \/ Help \/ Info \/ Generate \/ CheckConfig
    \/ PerformStart

CommandSpec == CommandInit /\ [][CommandNext]_commandVars

-----------------------------------------------------------------------------
(***************************************************************************)
(* Properties                                                              *)
(***************************************************************************)

\* Of several commands the harmless one wins: a daemon gets ready only if the
\* arguments make sense, no command is among them, and nothing has failed that
\* a start needs.
StartsOnlyAlone ==
    ready => /\ ~argv.wrong /\ argv.flags = {} /\ argv.broken = {}
             /\ argv.check_config = None /\ argv.print_config = None
             /\ settings.ok /\ code = 0

\* The args of the objects: in whatever texts they are given, the last mention
\* of each counts and no other gets lost.
LastMentionWins ==
    stage # "parse" /\ ~pa.errorstring =>
        pa.object_options = LastMentions(argv.object_options)

\* The last text of --generate about a component, "all" apart.
LastText(c) ==
    LET i == SelectLastInSeq(argv.generate, LAMBDA t : ObjectOf(t) = c)
    IN  IF i = 0 THEN Nothing ELSE SubSeq(argv.generate[i], Len(c) + 2, Len(argv.generate[i]))

\* --generate gives every component that is named with the last args named for
\* it, or fails and leaves the files alone.
GeneratesWhole ==
    command = "generate" =>
        \/ code = 0 /\ {x[1] : x \in shown} = {ObjectOf(t) : t \in Range(argv.generate)}
           /\ \A x \in shown : x[2] = LastText(x[1])
        \/ code = 0 /\ {x[1] : x \in shown} = Component
           /\ \A x \in shown : x[2] = LastText(All)
        \/ code = 3 /\ shown = {} /\ written = None

\* The configuration in force, or checked.
Path == IF command = "start" THEN pa.config_path ELSE pa.check_config

\* What the sections of one name have in a configuration.
AllItems(configuration, name) ==
    FoldLeft(LAMBDA items, section :
               IF section.name = name THEN items \o section.items ELSE items,
             <<>>, configuration)

Items(name) == AllItems(disk.files[Path], name)

\* Whatever sections a component has in the file, it gets one, with the items of
\* all of them in their order.
SectionsKept ==
    settings.ok =>
        LET map == settings.map
        IN  /\ \A i, j \in DOMAIN map : map[i].name = map[j].name => i = j
            /\ {s.name : s \in Range(map)} = {s.name : s \in Range(disk.files[Path])}
            /\ \A s \in Range(map) :
                 /\ Len(s.items) = Len(Items(s.name))
                 /\ \A i \in DOMAIN s.items :
                      Items(s.name)[i] \in {s.items[i], Variable}

\* What the ini files that can be found beside the configuration set it to.
Setting(inis) == {disk.ini[f] : f \in {f \in inis \cap DOMAIN disk.ini : Beside(Path, f)}}

\* The ini files that the configuration asks for.
OwnIni ==
    {Resolved(f, Path, argv.ini_list \o argv.startup_ini_list, disk) :
        f \in Range(Items(<<"config">>))}

\* A variable has a value from the files of --startup-ini, or else of --ini, or
\* else of the configuration itself.
ArgumentsOverride ==
    command = "start" /\ settings.ok =>
        \A s \in Range(settings.map) : \A i \in DOMAIN s.items :
            Items(s.name)[i] = Variable =>
                s.items[i] \in
                    IF Setting(Range(argv.startup_ini_list)) # {}
                      THEN Setting(Range(argv.startup_ini_list))
                    ELSE IF Setting(Range(argv.ini_list)) # {}
                      THEN Setting(Range(argv.ini_list))
                    ELSE IF Setting(OwnIni) # {} THEN Setting(OwnIni) ELSE {Default}

\* -G shows the configuration, and writes a file only where -C says so.
GeneratesWhereTold == written # None => written = argv.config_path
=============================================================================
