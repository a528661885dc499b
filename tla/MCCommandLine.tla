---------------------------- MODULE MCCommandLine ----------------------------
(***************************************************************************)
(* Command lines and files to check CommandLine with. Each set varies what *)
(* one part of the code looks at.                                          *)
(***************************************************************************)
EXTENDS CommandLine, TLC

MCConf(name) == name \o ".conf"
MCInstanceOf(path) == "demo-" \o path

core == <<"core">>
logger == <<"logger">>
MCComponent == {<<"config">>, core, logger}

Section(name, array, items) == [name |-> name, array |-> array, items |-> items]

Plain ==
    [flags |-> {}, wrong |-> FALSE, usage |-> FALSE, broken |-> {}, help |-> <<>>,
     info |-> <<>>, generate |-> <<>>, check_config |-> None, print_config |-> None,
     config_path |-> None, instance_name |-> None, autoup_timeout |-> None,
     object_options |-> <<>>, ini_list |-> <<>>, startup_ini_list |-> <<>>]

Flags == {"help", "version", "info", "module-list", "component-list", "generate"}

\* Which command wins, and which step of a start fails.
Commanding ==
    {[Plain EXCEPT !.flags = f, !.wrong = w, !.check_config = c,
                   !.print_config = p, !.config_path = path, !.broken = b] :
        f \in SUBSET Flags, w \in BOOLEAN, c, p \in {None, "a.conf"},
        path \in {None, "a.conf"}, b \in {{}, {6, 7}, {8}}}
    \cup {[Plain EXCEPT !.usage = TRUE],
          [Plain EXCEPT !.autoup_timeout = "bad", !.config_path = "a.conf"]}

Words == {"core", "a", ":", "="}
Texts == BoundedSeq(Words, 5)

\* One long text for the objects, or several short ones.
Optional ==
    {[Plain EXCEPT !.object_options = texts] :
        texts \in {<<t>> : t \in Texts} \cup
                  {<<<<"core", ":">> \o s, <<"core", ":">> \o t>> :
                      s, t \in BoundedSeq({"a", "b", ":", "="}, 3)} \cup
                  {<<s, t, s>> : s, t \in BoundedSeq(Words, 2)}}

GenerateTexts ==
    {<<"all">>, <<"all", ":", "x">>, core, <<"core", ":", "x">>, logger,
     <<"logger", ":", "x", ":", "y">>, <<"nope">>}

Generating ==
    {[Plain EXCEPT !.flags = {"generate"}, !.generate = texts,
                   !.instance_name = name, !.config_path = path] :
        texts \in BoundedSeq(GenerateTexts, 3), name \in {None, "other"},
        path \in {None, "a.conf", "new.conf"}}

Informing ==
    {[Plain EXCEPT !.flags = {"info"}, !.info = i] :
        i \in BoundedSeq({"wfc", "core", "nope"}, 3)}
    \cup {[Plain EXCEPT !.flags = {"help"}, !.help = h] :
        h \in BoundedSeq({All, core, <<"nope">>}, 2)}

Checking == {[Plain EXCEPT !.check_config = "a.conf"]}

Starting ==
    {[Plain EXCEPT !.config_path = path, !.ini_list = i, !.startup_ini_list = s] :
        path \in {"a.conf", "d/a.conf"}, i, s \in BoundedSeq({"i1", "i2", "d/i3"}, 2)}

Values == {"1", "bad", "${INI}"}
Items_ == BoundedSeq(Values, 2)
Bodies ==
    {Section(n, FALSE, <<v>>) : n \in {core, logger}, v \in Values} \cup
    {Section(n, TRUE, i) : n \in {core, logger}, i \in Items_}

Only(configuration) ==
    [files |-> ("a.conf" :> configuration), ini |-> <<>>]

\* Without a file, with a file of the default name, with ini files, with all
\* kinds of sections.
Nowhere == [files |-> <<>>, ini |-> <<>>]
Default_ ==
    {[files |-> (name :> <<Section(core, FALSE, <<"1">>)>>), ini |-> <<>>] :
        name \in {"demo.conf", "other.conf"}}
Various ==
    {Only(c) : c \in BoundedSeq(Bodies, 2)} \cup
    {Only(<<Section(core, TRUE, i), Section(n, TRUE, j), Section(core, TRUE, k)>>) :
        n \in {core, <<"nope">>, logger}, i, j, k \in {<<"1">>, <<"2", "3">>, <<"${INI}">>}}
WithIni ==
    {[files |-> [path \in {"a.conf", "d/a.conf"} |->
                   <<Section(core, FALSE, <<"${INI}">>),
                     Section(<<"config">>, FALSE, inis)>>],
      ini |-> [i1 |-> "1", i2 |-> "2"] @@ ("d/i3" :> "3")] :
        inis \in BoundedSeq({"i1", "i2", "d/i3"}, 2)}

MCCases ==
    [argv : Commanding, disk : {Nowhere, Only(<<>>)} \cup Default_]
    \cup [argv : Optional, disk : {Nowhere}]
    \cup [argv : Generating \cup Informing, disk : {Nowhere} \cup Default_]
    \cup [argv : Checking, disk : Various]
    \cup [argv : Starting, disk : WithIni]
=============================================================================
