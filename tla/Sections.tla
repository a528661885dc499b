------------------------------- MODULE Sections -------------------------------
(***************************************************************************)
(* From the text of a configuration file to the sections of the components *)
(* (src/package/config/config/config.cpp). A configuration is a sequence   *)
(* of sections [name, array, items]: a JSON object has one item, an array  *)
(* as many as it has; the items of the section "config" are its ini files. *)
(* JSON, the parsers of the components and wfc::vars are external.         *)
(***************************************************************************)
EXTENDS Integers, Sequences, SequencesExt, Functions

CONSTANTS
    Component,      \* registered components, named by texts of one word
    Bad,            \* an item that no component accepts
    Variable,       \* an item that is ${INI:...}, with a default
    Default,        \* ... this one
    HasDirectory    \* paths and ini files that name a directory

\* conf_find, 0: none.
conf_find(name, map) == SelectInSeq(map, LAMBDA section : section.name = name)

\* Mutant of Joined: the new items come first.
JoinedFront(old, new) == new \o old

Joined(old, new) == old \o new

Merge(acc, section) ==
    LET i == conf_find(section.name, acc.map)
    IN  IF i = 0 THEN [acc EXCEPT !.map = Append(@, section)]
        ELSE IF ~section.array \/ ~acc.map[i].array THEN [acc EXCEPT !.ok = FALSE]
        ELSE [acc EXCEPT !.map[i].items = Joined(@, section.items)]

\* Sections of one name become one, if all of them are arrays.
normalize_json_multimap(configuration) ==
    FoldLeft(LAMBDA acc, section : IF acc.ok THEN Merge(acc, section) ELSE acc,
             [ok |-> TRUE, map |-> <<>>], configuration)

Invalid == [ok |-> FALSE, map |-> <<>>]

\* ... and each section is one its component can parse.
parse_configure_(configuration) ==
    LET normal == normalize_json_multimap(configuration)
    IN  IF normal.ok /\ \A section \in Range(normal.map) :
                          section.name \in Component /\ Bad \notin Range(section.items)
          THEN normal ELSE Invalid

\* Ini files are looked for next to the configuration. One that names a
\* directory is passed over, and so are all if the configuration names none.
Beside(path, file) == path \in HasDirectory /\ file \notin HasDirectory

\* wfc::vars: the value of a variable is that of the last ini file to set it.
VALUE(path, inis, disk) ==
    LET i == SelectLastInSeq(inis, LAMBDA file : Beside(path, file) /\ file \in DOMAIN disk.ini)
    IN  IF i = 0 THEN Default ELSE disk.ini[inis[i]]

Resolved(item, path, inis, disk) ==
    IF item = Variable THEN VALUE(path, inis, disk) ELSE item

parse_file(path, inis, disk) ==
    [i \in DOMAIN disk.files[path] |->
       LET section == disk.files[path][i]
       IN  [section EXCEPT !.items =
              [j \in DOMAIN @ |-> Resolved(@[j], path, inis, disk)]]]

\* Mutant of IniOrder: the files of the configuration override the arguments.
IniOrderSwapped(opt_ini, args_ini) == args_ini \o opt_ini

IniOrder(opt_ini, args_ini) == opt_ini \o args_ini

\* load_from_file_ and parse_configure_, at the start: the file is parsed once
\* to learn its ini files, and again with them.
load(path, args_ini, disk) ==
    IF path \notin DOMAIN disk.files THEN Invalid
    ELSE LET first == parse_configure_(parse_file(path, args_ini, disk))
             i == conf_find(<<"config">>, first.map)
             opt_ini == IF i = 0 THEN <<>> ELSE first.map[i].items
         IN  IF ~first.ok THEN Invalid
             ELSE parse_configure_(parse_file(path, IniOrder(opt_ini, args_ini),
                                              disk))
=============================================================================
